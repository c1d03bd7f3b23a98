---------------------------- MODULE KbManagement ----------------------------
(***************************************************************************)
(* The authoritative state of one knowledge base (kb/management.py) and    *)
(* the operations on it.  Every call of the management service is one      *)
(* transaction under a global lock, so each operation is one action.       *)
(*                                                                         *)
(* A build of the documents is a version with its job; the code appends    *)
(* one of each at a time, and their statuses change together: a version is *)
(* "active" when its job has succeeded, "pending" while the job is queued  *)
(* or processing, and has the job's status otherwise.  One record, indexed *)
(* by the version number, stands for both.  "lease" is lease_until minus   *)
(* the time, in ticks; 0 is expired, for the claim and the fence alike.    *)
(*                                                                         *)
(* Configurations, connections, names, chunk counts and idempotency keys   *)
(* are data, which nothing here depends on.  From KbIndex come the numbers *)
(* of the versions, which are those of their segments too.                 *)
(***************************************************************************)
EXTENDS KbIndex

CONSTANTS
  Docs,           \* document ids: one is made for every upload
  NoDoc,          \* the absent replaces_document_id
  MaxDocuments,   \* 20 in the code
  MaxRetries,     \* 2 in the code: how often a dead builder is replaced
  LeaseTime       \* 30 seconds in the code, in ticks

ASSUME KbAssumption ==
  /\ NoDoc \notin Docs
  /\ MaxDocuments \in Nat
  /\ MaxRetries \in Nat
  /\ LeaseTime \in Nat \ {0}

VARIABLES
  kb,          \* status, active_version, pending_version; the last version made
  documents,   \* of each document, its status and what it replaces
  originals,   \* the documents whose uploaded file is stored
  jobs         \* of each version, its job and its documents

kbVars == <<kb, documents, originals, jobs>>

-----------------------------------------------------------------------------

BaseStatus == {"empty", "indexing", "ready", "degraded", "failed", "deleted"}
DocStatus == {"absent", "queued", "processing", "ready", "failed", "removed"}
Retired == {"expired", "failed", "cancelled"}
JobStatus == {"none", "queued", "processing", "succeeded"} \cup Retired

\* "tried" is done or failed: both are listed again after a while.
CleanupStatus == {"none", "pending", "tried"}

Bases == [status: BaseStatus, active: Versions \cup {NoVersion},
          pending: Versions \cup {NoVersion}, last: 0 .. MaxVersions]
Documents == [status: DocStatus, replaces: Docs \cup {NoDoc}]
Jobs == [status: JobStatus, documents: SUBSET Docs, lease: 0 .. LeaseTime,
         retries: 0 .. MaxRetries, cleanup: CleanupStatus]

KbInit ==
  /\ kb = [status |-> "empty", active |-> NoVersion, pending |-> NoVersion, last |-> 0]
  /\ documents = [d \in Docs |-> [status |-> "absent", replaces |-> NoDoc]]
  /\ originals = {}
  /\ jobs = [v \in Versions |-> [status |-> "none", documents |-> {}, lease |-> 0,
                                 retries |-> 0, cleanup |-> "none"]]

-----------------------------------------------------------------------------
(* The parts the operations are made of.  They take the documents and jobs *)
(* as the operation has already changed them.                              *)

Live(docs) == {d \in Docs : docs[d].status \notin {"absent", "removed"}}

\* _desired: the live documents that no live document replaces.
Desired(docs) == {d \in Live(docs) : \A e \in Live(docs) : docs[e].replaces # d}

Remove(docs, gone) ==
  [d \in Docs |-> IF d \in gone THEN [docs[d] EXCEPT !.status = "removed"] ELSE docs[d]]

SetStatus(docs, S, status) ==
  [d \in Docs |-> IF d \in S THEN [docs[d] EXCEPT !.status = status] ELSE docs[d]]

Unfinished(job) == job.status \in {"queued", "processing"}

\* _retire: the attempt is over, its segment is to be cleaned up.
Retire(job, status) ==
  [job EXCEPT !.status = status, !.cleanup = "pending", !.lease = 0]

RetireUnfinished(js) ==
  [v \in Versions |-> IF Unfinished(js[v]) THEN Retire(js[v], "cancelled") ELSE js[v]]

ActiveDocuments ==
  IF kb.active = NoVersion THEN {} ELSE jobs[kb.active].documents

\* Mutant of the next one.
RestoreAll(docs) == SetStatus(docs, Live(docs), "ready")

\* _restore_after_failure, and the same loop in cancel.
Restore(docs) ==
  SetStatus(SetStatus(docs, Live(docs), "failed"),
            Live(docs) \cap ActiveDocuments, "ready")

\* What _schedule makes of the next version's job.
NewJob(docs, status, retries) ==
  [status |-> status, documents |-> Desired(docs), retries |-> retries,
   lease |-> IF status = "processing" THEN LeaseTime ELSE 0, cleanup |-> "none"]

\* _schedule; status is "queued", or "processing" where a claim goes on to
\* take the job in the same transaction.
Schedule(docs, js, status, retries) ==
  /\ kb' = [kb EXCEPT !.status = "indexing", !.pending = kb.last + 1, !.last = @ + 1]
  /\ documents' = SetStatus(docs, Desired(docs), status)
  /\ jobs' = [RetireUnfinished(js) EXCEPT ![kb.last + 1] = NewJob(docs, status, retries)]

\* MaxVersions cuts behaviours short here, where room for the retries is left.
MayChange == kb.status # "deleted" /\ kb.last + 1 + MaxRetries <= MaxVersions

-----------------------------------------------------------------------------
(* What users do.                                                          *)

Upload(d) ==
  /\ MayChange
  /\ documents[d].status = "absent"
  /\ Cardinality(Desired(documents)) < MaxDocuments
  /\ Schedule([documents EXCEPT ![d].status = "queued"], jobs, "queued", 0)
  /\ originals' = originals \cup {d}

\* What an upload that replaces "old" replaces: the published document it
\* stands in for, if "old" is itself a replacement that is still waiting.
ReplacedBy(old) ==
  IF documents[old].replaces \in Live(documents) THEN documents[old].replaces ELSE old

\* Mutant of the next one: a replacement of a replacement leaves both.
NoPriorReplacements(target) == {}

PriorReplacements(target) == {e \in Live(documents) : documents[e].replaces = target}

Replace(d, old) ==
  /\ MayChange
  /\ documents[d].status = "absent"
  /\ old \in Live(documents)
  /\ Cardinality(Desired(documents)) - 1 < MaxDocuments
  /\ LET target == ReplacedBy(old)
         prior == PriorReplacements(target)
     IN /\ Schedule([Remove(documents, prior) EXCEPT
                       ![d] = [status |-> "queued", replaces |-> target]],
                    jobs, "queued", 0)
        /\ originals' = (originals \ prior) \cup {d}

\* rebuild, and retry of a document: the same documents again.
Rebuild ==
  /\ MayChange
  /\ Schedule(documents, jobs, "queued", 0)
  /\ UNCHANGED originals

\* Mutant of the next one: the pending build is left alone.
RemoveOnly(d) ==
  /\ MayChange
  /\ d \in Live(documents)
  /\ documents' = Remove(documents, {d} \cup PriorReplacements(d))
  /\ originals' = originals \ ({d} \cup PriorReplacements(d))
  /\ UNCHANGED <<kb, jobs>>

RemoveDocument(d) ==
  /\ MayChange
  /\ d \in Live(documents)
  /\ LET gone == {d} \cup PriorReplacements(d)
     IN /\ Schedule(Remove(documents, gone), jobs, "queued", 0)
        /\ originals' = originals \ gone

CancelBuild ==
  /\ kb.status # "deleted"
  /\ jobs' = RetireUnfinished(jobs)
  /\ kb' = [kb EXCEPT !.pending = NoVersion,
                      !.status = IF kb.active # NoVersion THEN "ready"
                                 ELSE IF \E d \in Docs : documents[d].status # "absent"
                                      THEN "failed" ELSE "empty"]
  /\ documents' = Restore(documents)
  /\ UNCHANGED originals

\* Every job is retired, the one of the active version too.
DeleteBase ==
  /\ kb.status # "deleted"
  /\ kb' = [kb EXCEPT !.status = "deleted", !.pending = NoVersion]
  /\ jobs' = [v \in Versions |-> IF jobs[v].status = "none" THEN jobs[v]
                                 ELSE Retire(jobs[v], "cancelled")]
  /\ documents' = [d \in Docs |-> IF documents[d].status = "absent" THEN documents[d]
                                  ELSE [documents[d] EXCEPT !.status = "removed"]]
  /\ originals' = {}

UserStep ==
  \/ \E d \in Docs : Upload(d)
  \/ \E d, old \in Docs : Replace(d, old)
  \/ \E d \in Docs : RemoveDocument(d)
  \/ Rebuild
  \/ CancelBuild
  \/ DeleteBase

-----------------------------------------------------------------------------
(* What ingestion workers ask for.                                         *)

\* Mutant of the next one: the lease of a dead builder is held for ever.
NeverExpired(v) == FALSE

Expired(v) == jobs[v].status = "processing" /\ jobs[v].lease = 0

\* claim: the queued job, when no lease has expired.  At most one job of the
\* base is queued or processing (OneBuild below).
ClaimQueued(v) ==
  /\ kb.status # "deleted"
  /\ jobs[v].status = "queued"
  /\ jobs' = [jobs EXCEPT ![v].status = "processing", ![v].lease = LeaseTime]
  /\ documents' = SetStatus(documents, Desired(documents), "processing")
  /\ UNCHANGED <<kb, originals>>

\* claim: an expired attempt is retired, and a new one made and taken.
ClaimExpired(v) ==
  /\ kb.status # "deleted"
  /\ Expired(v) /\ jobs[v].retries < MaxRetries
  /\ Schedule(documents, [jobs EXCEPT ![v] = Retire(@, "expired")],
              "processing", jobs[v].retries + 1)
  /\ UNCHANGED originals

Fallback == IF kb.active # NoVersion THEN "degraded" ELSE "failed"

\* claim: an attempt that expired after the last retry; nothing is claimed.
ClaimExhausted(v) ==
  /\ kb.status # "deleted"
  /\ Expired(v) /\ jobs[v].retries >= MaxRetries
  /\ jobs' = [jobs EXCEPT ![v] = Retire(@, "expired")]
  /\ kb' = [kb EXCEPT !.status = Fallback, !.pending = NoVersion]
  /\ documents' = Restore(documents)
  /\ UNCHANGED originals

\* Mutant of the next one: the lease and the status of the job are not looked at.
NotDeleted(v) == kb.status # "deleted"

\* live: the fence of every call an attempt makes.
Fenced(v) ==
  /\ kb.status # "deleted"
  /\ jobs[v].status = "processing" /\ jobs[v].lease > 0
  /\ kb.pending = v

\* renew and progress.
RenewJob(v) ==
  /\ jobs' = [jobs EXCEPT ![v].lease = LeaseTime]
  /\ UNCHANGED <<kb, documents, originals>>

FailJob(v) ==
  /\ jobs' = [jobs EXCEPT ![v] = Retire(@, "failed")]
  /\ kb' = [kb EXCEPT !.status = Fallback, !.pending = NoVersion]
  /\ documents' = Restore(documents)
  /\ UNCHANGED originals

\* publish, after the fence and within the chunk limits.
PublishJob(v) ==
  LET published == jobs[v].documents
      superseded == {documents[d].replaces : d \in published} \cap Docs
  IN /\ kb' = [kb EXCEPT !.active = v, !.pending = NoVersion, !.status = "ready"]
     /\ jobs' = [w \in Versions |->
                   IF w = v THEN [jobs[v] EXCEPT !.status = "succeeded", !.lease = 0]
                   ELSE IF w = kb.active /\ jobs[w].status = "succeeded"
                        THEN [jobs[w] EXCEPT !.cleanup = "pending"]
                   ELSE jobs[w]]
     /\ documents' = SetStatus(SetStatus(documents, published, "ready"),
                               superseded, "removed")
     /\ originals' = originals \ superseded

\* build_status.
BuildAllowed(v) ==
  /\ kb.status # "deleted"
  /\ \/ jobs[v].status = "processing" /\ jobs[v].lease > 0 /\ kb.pending = v
     \/ jobs[v].status = "succeeded" /\ kb.active = v

MayCleanUp(v) == jobs[v].cleanup # "none" /\ (kb.status = "deleted" \/ v # kb.active)

\* Mutant of the next one: what has been cleaned once is not listed again.
ListedOnce(v) ==
  MayCleanUp(v) /\ ~Unfinished(jobs[v]) /\ jobs[v].cleanup = "pending"

\* cleanup_list, at once or when the time for the next attempt has come.
Listed(v) == MayCleanUp(v) /\ ~Unfinished(jobs[v])

\* Mutant of the next one: evidence is not kept for citations.
RetainNothing(v) == FALSE

RetainProvenance(v) == jobs[v].status = "succeeded" /\ kb.status # "deleted"

\* cleanup_result, of a success or a failure.
RecordCleanup(v) ==
  /\ MayCleanUp(v)
  /\ jobs' = [jobs EXCEPT ![v].cleanup = "tried"]
  /\ UNCHANGED <<kb, documents, originals>>

KbTick ==
  /\ \E v \in Versions : jobs[v].lease > 0
  /\ jobs' = [v \in Versions |->
                IF jobs[v].lease > 0 THEN [jobs[v] EXCEPT !.lease = @ - 1] ELSE jobs[v]]
  /\ UNCHANGED <<kb, documents, originals>>

-----------------------------------------------------------------------------

KbTypeOK ==
  /\ kb \in Bases
  /\ documents \in [Docs -> Documents]
  /\ originals \subseteq Docs
  /\ jobs \in [Versions -> Jobs]

\* The base is being indexed exactly while it has one queued or processing
\* job, the pending version's: no sequence of requests, failures and claims
\* leaves a second build behind, or a base that waits for none.
OneBuild ==
  /\ \A v \in Versions : Unfinished(jobs[v]) <=> v = kb.pending
  /\ kb.status = "indexing" <=> kb.pending # NoVersion

\* The build that may be published next holds what the user has asked for
\* since, and its originals are there to be read.
PendingIsDesired ==
  kb.pending # NoVersion =>
    /\ jobs[kb.pending].documents = Desired(documents)
    /\ jobs[kb.pending].documents \subseteq originals

\* However often a document is replaced before a build succeeds, one live
\* document stands in for it, and is itself not being replaced.
OneSuccessor ==
  \A d, e \in Live(documents) :
    /\ documents[d].replaces = documents[e].replaces /\ d # e
         => documents[d].replaces = NoDoc
    /\ documents[d].replaces = e => documents[e].replaces \notin Live(documents)

\* A document shown as ready is searched, and one shown as queued or
\* processing is waiting for a build that exists.
DocumentsTell ==
  \A d \in Docs :
    /\ documents[d].status = "ready" => d \in ActiveDocuments
    /\ documents[d].status \in {"queued", "processing"} => kb.pending # NoVersion
=============================================================================
