---------------------------- MODULE KbIngestion -----------------------------
(***************************************************************************)
(* The ingestion workers (kb/ingestion.py) between the management of a     *)
(* knowledge base and its search index.  A worker cleans up retired        *)
(* segments, claims a job, builds its segment with the search service, and *)
(* publishes the version.  Each call to a service is a step, or two where  *)
(* the service takes time, and everything a worker knows was true when a   *)
(* call was answered.  Workers are killed, stall until their lease has     *)
(* expired, and give up calls that the search service still serves.        *)
(***************************************************************************)
EXTENDS KbManagement

CONSTANTS
  Workers,   \* ingestion processes
  Cleaned    \* a bound: the versions whose cleanup behaviours may reach

ASSUME CleanedAssumption == Cleaned \subseteq Versions

VARIABLE worker    \* where each worker stands, and the version it works on

vars == <<kbVars, worker, indexVars>>

-----------------------------------------------------------------------------

\* The states of _execute, in which the job's lease is renewed.
Executing == {"extracting", "building", "built"}
WorkerState == {"idle", "cleaning", "failing"} \cup Executing

\* The worker's process has no state but this one.
Idle == [pc |-> "idle", version |-> NoVersion]

Init ==
  /\ KbInit
  /\ IndexInit
  /\ worker = [w \in Workers |-> Idle]

At(w, pc) == worker[w].pc = pc
Version(w) == worker[w].version
Goto(w, pc) == worker' = [worker EXCEPT ![w].pc = pc]
Work(w, pc, v) == worker' = [worker EXCEPT ![w] = [pc |-> pc, version |-> v]]
Rest(w) == worker' = [worker EXCEPT ![w] = Idle]

-----------------------------------------------------------------------------
(* serve: cleanups and claims.                                             *)

\* cleanup: one element of the list.  What the list said is in the call,
\* which may be served long afterwards.
CleanSegment(w, v) ==
  /\ At(w, "idle") /\ v \in Cleaned /\ Listed(v)
  /\ Work(w, "cleaning", v)
  /\ \E n \in Numbers : Send(CleanupCall(v, RetainProvenance(v), n))
  /\ UNCHANGED kbVars

\* cleanup_result, when the call has been answered or has timed out.
ReportCleanup(w) ==
  /\ At(w, "cleaning")
  /\ RecordCleanup(Version(w))
  /\ Rest(w)
  /\ UNCHANGED indexVars

Claim(w) ==
  /\ At(w, "idle")
  /\ \E v \in Versions :
       \/ ClaimQueued(v) /\ Work(w, "extracting", v)
       \/ ClaimExpired(v) /\ Work(w, "extracting", kb.pending')
       \/ ClaimExhausted(v) /\ UNCHANGED worker
  /\ UNCHANGED indexVars

-----------------------------------------------------------------------------
(* _execute                                                                *)

\* renew, every 5 seconds as long as the attempt goes on, and progress, from
\* one stage of it to the next.
Renew(w) ==
  /\ worker[w].pc \in Executing
  /\ Fenced(Version(w))
  /\ RenewJob(Version(w))
  /\ UNCHANGED <<worker, indexVars>>

\* The documents have been fetched, extracted and embedded: build_status, and
\* the call to build the segment.
CheckAndBuild(w) ==
  /\ At(w, "extracting")
  /\ BuildAllowed(Version(w))
  /\ Goto(w, "building")
  /\ Send(BuildCall(Version(w)))
  /\ UNCHANGED kbVars

\* Whether the answer to publish arrives or not.
Publish(w) ==
  /\ At(w, "built")
  /\ Fenced(Version(w))
  /\ PublishJob(Version(w))
  /\ Rest(w) \/ Goto(w, "failing")
  /\ UNCHANGED indexVars

\* Anything may fail: a document, an embedding, a limit, a call that is
\* refused because the attempt was superseded, or that is not answered.
AttemptFails(w) ==
  /\ worker[w].pc \in Executing
  /\ Goto(w, "failing")
  /\ UNCHANGED <<kbVars, indexVars>>

\* Mutant of the next one: fail looks at the status of the base only.
ReportFailureUnfenced(w) ==
  /\ At(w, "failing")
  /\ kb.status # "deleted" /\ FailJob(Version(w))
  /\ Rest(w)
  /\ UNCHANGED indexVars

\* fail; refused if the attempt is over, and the worker goes on in any case.
ReportFailure(w) ==
  /\ At(w, "failing")
  /\ \/ Fenced(Version(w)) /\ FailJob(Version(w))
     \/ UNCHANGED kbVars
  /\ Rest(w)
  /\ UNCHANGED indexVars

\* The process is killed, or stopped and started.
Crash(w) ==
  /\ worker[w] # Idle
  /\ Rest(w)
  /\ UNCHANGED <<kbVars, indexVars>>

-----------------------------------------------------------------------------

IndexStep ==
  /\ (\E c \in calls : StartCall(c)) \/ (\E c \in serving : EndCall(c))
  /\ UNCHANGED <<kbVars, worker>>

\* A build succeeds, and the worker that still waits for it is told.
BuildDone ==
  /\ \E c \in serving :
       /\ FinishBuild(c)
       /\ worker' = [w \in Workers |->
            IF worker[w] = [pc |-> "building", version |-> c.segment]
            THEN [worker[w] EXCEPT !.pc = "built"] ELSE worker[w]]
  /\ UNCHANGED kbVars

WorkerStep(w) ==
  \/ (\E v \in Versions : CleanSegment(w, v)) \/ ReportCleanup(w)
  \/ Claim(w) \/ Renew(w) \/ CheckAndBuild(w) \/ Publish(w)
  \/ AttemptFails(w) \/ ReportFailure(w) \/ Crash(w)

Manage == UserStep /\ UNCHANGED <<worker, indexVars>>

Tick == KbTick /\ UNCHANGED <<worker, indexVars>>

Next == Manage \/ (\E w \in Workers : WorkerStep(w)) \/ IndexStep \/ BuildDone \/ Tick

Spec == Init /\ [][Next]_vars

-----------------------------------------------------------------------------

TypeOK ==
  /\ KbTypeOK
  /\ worker \in [Workers -> [pc: WorkerState, version: Versions \cup {NoVersion}]]
  /\ segments \in [Versions -> SegmentRows]
  /\ calls \subseteq Calls
  /\ serving \subseteq Calls

\* The active version can be searched: neither a late cleanup nor a late
\* build of any attempt touches its segment.
ActiveIsSearchable ==
  kb.active # NoVersion /\ kb.status # "deleted" => Searchable(kb.active)

\* A citation of a version that was ever published can be verified as long
\* as the base exists, although the version's index has been cleaned up.
CitationsKept ==
  \A v \in Versions : jobs[v].status = "succeeded" => Citable(v)

\* What is removed of a retired segment never comes back: not by a call to
\* build it that was sent before it was retired and is served afterwards.
NothingComesBack ==
  [][\A v \in Versions :
       segments[v].state = "tombstone"
         => segments'[v].stored \subseteq segments[v].stored]_vars

Catalog == INSTANCE KbCatalog WITH
  wanted <- IF kb.status = "deleted" THEN {} ELSE Desired(documents),
  searchable <- IF kb.status # "deleted" /\ kb.active # NoVersion /\ Searchable(kb.active)
                THEN jobs[kb.active].documents \cap Live(documents) ELSE {},
  open <- kb.status # "deleted"

\* Searches see the complete index of what was wanted, and then less only by
\* what was removed: the steps of workers and services implement KbCatalog.
ImplementsCatalog == Catalog!Spec

-----------------------------------------------------------------------------
(* Liveness.  Workers and services are processes that are restarted, and   *)
(* the clock goes on.  serve lists and claims in turns, for ever: neither  *)
(* is put off by the other, or by a worker that is killed many times in    *)
(* between.  A removal may fail many times, but not for ever.              *)

Fairness ==
  /\ \A w \in Workers :
       /\ WF_vars(ReportCleanup(w)) /\ WF_vars(AttemptFails(w)) /\ WF_vars(ReportFailure(w))
       /\ SF_vars(Claim(w))
       /\ \A v \in Cleaned : SF_vars(CleanSegment(w, v))
  /\ WF_vars(Tick)
  /\ WF_vars(IndexStep)
  /\ WF_vars(IndexStep /\ serving # {} /\ serving' = {})
  /\ \A v \in Cleaned, retain \in BOOLEAN :
       LET Cleanups == {CleanupCall(v, retain, n) : n \in Numbers}
       IN /\ SF_vars((\E c \in Cleanups : StartCleanup(c)) /\ UNCHANGED <<kbVars, worker>>)
          /\ SF_vars((\E c \in Cleanups : FinishCleanup(c)) /\ UNCHANGED <<kbVars, worker>>)

FairSpec == Spec /\ Fairness

\* Even if every builder is killed, indexing comes to an end.
IndexingEnds == kb.status = "indexing" ~> kb.status # "indexing"

\* What an attempt that came to nothing, or a deleted base, has stored is
\* removed for good, and so are the vectors of superseded versions.
DataIsReleased ==
  \A v \in Cleaned :
    /\ jobs[v].status \in Retired ~> [](segments[v].stored = {})
    /\ jobs[v].status = "succeeded" /\ v # kb.active
         ~> []("vectors" \notin segments[v].stored)
=============================================================================
