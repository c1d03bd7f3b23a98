----------------------------- MODULE Retrieval -----------------------------
(***************************************************************************)
(* A search of a knowledge base, or a preview of a document, by the        *)
(* gateway (kb_gateway.py), which asks the management service what may be  *)
(* read and the search service to read it, while the base changes: new     *)
(* versions are published, documents removed, old segments cleaned up, the *)
(* base deleted.  How those come about is the matter of KbIngestion.       *)
(***************************************************************************)
EXTENDS Naturals, FiniteSets

CONSTANTS
  Docs,          \* the documents, all uploaded at the start
  MaxVersions    \* bound on the versions

VARIABLES
  deleted,    \* the base is deleted
  live,       \* the documents that are not removed
  active,     \* the version that is searched
  contents,   \* the documents of each version published so far
  segments,   \* the segment of each version
  listed,     \* a cleanup that the worker has been told to make, as a set
  reader      \* the request

vars == <<deleted, live, active, contents, segments, listed, reader>>

-----------------------------------------------------------------------------
Versions == 1 .. MaxVersions
Published == DOMAIN contents
Fresh == [state |-> "ready", retain |-> FALSE, revoked |-> FALSE, stored |-> {"chunks", "vectors"}]
Idle == [kind |-> "none", stage |-> "idle", version |-> 0, allowed |-> {}, rows |-> {}, sources |-> {}]

\* publish, once documents have changed or a rebuild is asked for.
Publish ==
  /\ ~deleted /\ active < MaxVersions
  /\ active' = active + 1
  /\ contents' = [v \in 1 .. active + 1 |-> IF v = active + 1 THEN live ELSE contents[v]]
  /\ segments' = [v \in 1 .. active + 1 |-> IF v = active + 1 THEN Fresh ELSE segments[v]]
  /\ UNCHANGED <<deleted, live, listed, reader>>

Remove(d) ==
  /\ ~deleted /\ live' = live \ {d} /\ d \in live
  /\ UNCHANGED <<deleted, active, contents, segments, listed, reader>>

DeleteBase ==
  /\ ~deleted /\ deleted' = TRUE /\ live' = {}
  /\ UNCHANGED <<active, contents, segments, listed, reader>>

\* Mutant: a segment out of use is dropped with its evidence.
ListCleanupWhole(v) ==
  /\ listed = {} /\ (deleted \/ v # active)
  /\ listed' = {[segment |-> v, retain |-> FALSE]}
  /\ UNCHANGED <<deleted, live, active, contents, segments, reader>>

\* cleanup_list: segments out of use; evidence is kept unless the base is gone.
ListCleanup(v) ==
  /\ listed = {} /\ (deleted \/ v # active)
  /\ listed' = {[segment |-> v, retain |-> ~deleted]}
  /\ UNCHANGED <<deleted, live, active, contents, segments, reader>>

\* _cleanup, up to its first commit, and from there.
Tombstone(c) ==
  /\ c \in listed /\ listed' = {}
  /\ LET s == segments[c.segment]
         revoked == s.revoked \/ ~c.retain
     IN segments' = [segments EXCEPT ![c.segment] =
          [state |-> "tombstone", stored |-> s.stored, revoked |-> revoked,
           retain |-> c.retain /\ ~revoked /\ (s.state = "ready" \/ s.retain)]]
  /\ UNCHANGED <<deleted, live, active, contents, reader>>
Erase(v) ==
  /\ segments[v].state = "tombstone"
  /\ segments' = [segments EXCEPT ![v].stored = IF segments[v].retain THEN @ \cap {"chunks"} ELSE {}]
  /\ UNCHANGED <<deleted, live, active, contents, listed, reader>>

-----------------------------------------------------------------------------
\* What management lets be read of a version, and what can be cited of it.
Authorised(v) == IF deleted THEN {} ELSE contents[v] \cap live
Ready(v) == segments[v].state = "ready"
Citable(v) == "chunks" \in segments[v].stored /\ (Ready(v) \/ segments[v].retain)

Goes(r) == reader' = r /\ UNCHANGED <<deleted, live, active, contents, segments, listed>>
At(stage) == reader.stage = stage
Fails == Goes(Idle)
Begins(kind) == [Idle EXCEPT !.kind = kind, !.version = active, !.allowed = Authorised(active)]

\* resolve; a preview asks for one document right away.
Resolve ==
  /\ At("idle") /\ ~deleted /\ active # 0
  /\ \/ Goes([Begins("search") EXCEPT !.stage = "embed"])
     \/ \E d \in Docs : Goes([Begins("preview") EXCEPT !.stage = "ask", !.allowed = {d}])

\* verify, of the management service.
Ask ==
  /\ At("ask")
  /\ IF reader.allowed \subseteq Authorised(reader.version) THEN Goes([reader EXCEPT !.stage = "embed"]) ELSE Fails

\* _search or _preview from the start: the segment, and which chunks there are.
\* Without any the segment is checked again at once.
Open ==
  /\ At("embed")
  /\ IF ~Ready(reader.version) THEN Fails
     ELSE LET rows == IF "chunks" \in segments[reader.version].stored
                      THEN contents[reader.version] \cap reader.allowed ELSE {}
          IN  Goes([reader EXCEPT !.rows = rows, !.stage = IF rows = {} THEN "recheck" ELSE "find"])

\* The ranking, by vectors or by postings, which go when a segment is erased;
\* a preview takes the chunks as they are.
Find ==
  /\ At("find")
  /\ LET stored == segments[reader.version].stored
         found(sources, stage) == Goes([reader EXCEPT !.sources = sources, !.stage = stage])
     IN  IF reader.kind = "preview" THEN found(IF "chunks" \in stored THEN reader.rows ELSE {}, "recheck")
         ELSE IF "vectors" \in stored THEN \E sources \in SUBSET reader.rows : found(sources, "read")
         ELSE Fails \/ found({}, "read")

\* The chunks themselves: one that is gone ends a search.
Read ==
  /\ At("read")
  /\ IF reader.sources # {} /\ "chunks" \notin segments[reader.version].stored THEN Fails
     ELSE Goes([reader EXCEPT !.stage = "recheck"])

\* The reranker may take its time; then the segment must still be in use.
Recheck ==
  /\ At("recheck")
  /\ IF Ready(reader.version) THEN Goes([reader EXCEPT !.stage = "evidence"]) ELSE Fails

\* KnowledgeServices.verify: the evidence as it is stored, then the authority,
\* which nothing is asked after.
Evidence ==
  /\ At("evidence")
  /\ IF reader.sources = {} \/ Citable(reader.version) THEN Goes([reader EXCEPT !.stage = "authority"]) ELSE Fails

Authority ==
  /\ At("authority")
  /\ IF reader.sources \subseteq Authorised(reader.version) THEN Goes([reader EXCEPT !.stage = "returned"]) ELSE Fails

\* A service does not answer in time.
Unavailable == ~At("idle") /\ Fails

-----------------------------------------------------------------------------
Init ==
  /\ deleted = FALSE /\ live = Docs /\ active = 0 /\ listed = {} /\ reader = Idle
  /\ contents = <<>> /\ segments = <<>>

Changes ==
  \/ Publish \/ DeleteBase
  \/ \E d \in Docs : Remove(d)
  \/ \E v \in Published : ListCleanup(v) \/ Erase(v)
  \/ \E c \in listed : Tombstone(c)

Next == Changes \/ Resolve \/ Ask \/ Open \/ Find \/ Read \/ Recheck \/ Evidence \/ Authority \/ Unavailable

Spec == Init /\ [][Next]_vars

-----------------------------------------------------------------------------
\* What a retrieval returns is of one version, of documents that have not been
\* removed when it returns, and can be cited then; and it can be cited for as
\* long as none of its documents is removed, whatever else is published or
\* cleaned up: the node that uses it, and the Response after it, find the same
\* passages as evidence (kb_gateway.py:51-53, kb/search.py:327-330).
SourcesHold == reader.sources # {} => reader.sources \subseteq Authorised(reader.version) /\ Citable(reader.version)
Returns == At("authority") /\ reader'.stage = "returned"
StaysCitable == At("returned") /\ reader.sources \subseteq Authorised(reader.version) => SourcesHold
=============================================================================
