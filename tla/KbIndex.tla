------------------------------ MODULE KbIndex ------------------------------
(***************************************************************************)
(* The segments of the search service (kb/search.py).  A segment holds the *)
(* index of one build attempt: rows of chunks in the database, which are   *)
(* also the evidence for citations, and vectors in an adapter's store.     *)
(*                                                                         *)
(* Builds and cleanups of a tenant exclude each other by a lock.  Each of  *)
(* them commits what it is about to do, works on the store, and commits    *)
(* again; the service may be killed in between, which frees the lock.      *)
(* "serving" is the call that has the lock.  The lock is not fair: any     *)
(* waiting call may be next.  A call is served whether or not its caller   *)
(* still waits for the answer.                                             *)
(***************************************************************************)
EXTENDS Integers, FiniteSets

CONSTANTS
  MaxVersions,   \* a bound on how many builds a behaviour has
  MaxCalls       \* a bound on the calls that wait to be served

ASSUME VersionsAssumption == MaxVersions \in Nat
ASSUME MaxCallsAssumption == MaxCalls \in Nat

\* The numbers of the base's versions, by which their segments are known too:
\* an attempt makes one of each.
Versions == 1 .. MaxVersions
NoVersion == 0

VARIABLES
  segments,   \* the rows of kb_search_segments, and what is stored for them
  calls,      \* build and cleanup calls that have been sent, not served
  serving     \* the call being served, as a set of at most one

indexVars == <<segments, calls, serving>>

-----------------------------------------------------------------------------

SegmentState == {"absent", "building", "ready", "failed", "tombstone"}
Stored == {"chunks", "vectors"}

\* A segment may be asked to be cleaned up again while such a call waits: the
\* number tells them apart.  (An attempt asks for its segment once.)
Numbers == 1 .. MaxCalls

Calls == [action: {"build"}, segment: Versions]
         \cup [action: {"cleanup"}, segment: Versions, retain: BOOLEAN, number: Numbers]

SegmentRows == [state: SegmentState, retain: BOOLEAN, revoked: BOOLEAN,
                stored: SUBSET Stored]

NoSegment ==
  [state |-> "absent", retain |-> FALSE, revoked |-> FALSE, stored |-> {}]

IndexInit ==
  /\ segments = [v \in Versions |-> NoSegment]
  /\ calls = {}
  /\ serving = {}

-----------------------------------------------------------------------------

BuildCall(v) == [action |-> "build", segment |-> v]
CleanupCall(v, retain, n) ==
  [action |-> "cleanup", segment |-> v, retain |-> retain, number |-> n]

Send(call) ==
  /\ Cardinality(calls) < MaxCalls
  /\ call \notin calls
  /\ calls' = calls \cup {call}
  /\ UNCHANGED <<segments, serving>>

\* When its turn comes a call is refused, by the tombstone of a retired segment
\* or the capacity of the workspace, it is answered at once since the segment is
\* ready, or it turns out to have been lost.
RefuseCall(c) ==
  /\ serving = {} /\ c \in calls
  /\ calls' = calls \ {c}
  /\ UNCHANGED <<segments, serving>>

\* Mutant of the next one: a retired segment is built again.
NeverTombstoned(v) == FALSE

Tombstoned(v) == segments[v].state = "tombstone"

\* A build that takes the lock: the segment is on record before its vectors.
\* Vectors may be in the store from here on; the model takes the worst case.
StartBuild(c) ==
  /\ serving = {} /\ c \in calls /\ c.action = "build"
  /\ ~Tombstoned(c.segment) /\ segments[c.segment].state # "ready"
  /\ calls' = calls \ {c}
  /\ serving' = {c}
  /\ segments' = [segments EXCEPT ![c.segment].state = "building",
                                  ![c.segment].stored = {"vectors"}]

FinishBuild(c) ==
  /\ c \in serving /\ c.action = "build"
  /\ segments' = [segments EXCEPT ![c.segment].state = "ready",
                                  ![c.segment].stored = Stored]
  /\ serving' = {}
  /\ UNCHANGED calls

\* The transaction is rolled back, the vectors stay.
FailBuild(c) ==
  /\ c \in serving /\ c.action = "build"
  /\ segments' = [segments EXCEPT ![c.segment].state = "failed"]
  /\ serving' = {}
  /\ UNCHANGED calls

\* A cleanup that takes the lock: the tombstone precedes every removal.
StartCleanup(c) ==
  /\ serving = {} /\ c \in calls /\ c.action = "cleanup"
  /\ calls' = calls \ {c}
  /\ serving' = {c}
  /\ LET s == segments[c.segment]
         revoked == s.revoked \/ ~c.retain
     IN segments' = [segments EXCEPT ![c.segment] =
          [state |-> "tombstone", stored |-> s.stored, revoked |-> revoked,
           retain |-> c.retain /\ ~revoked /\ (s.state = "ready" \/ s.retain)]]

FinishCleanup(c) ==
  /\ c \in serving /\ c.action = "cleanup"
  /\ segments' = [segments EXCEPT
       ![c.segment].stored = IF segments[c.segment].retain THEN @ \cap {"chunks"} ELSE {}]
  /\ serving' = {}
  /\ UNCHANGED calls

\* A call ends as it stands: the removal has failed, or the service is killed.
Interrupt(c) ==
  /\ c \in serving
  /\ serving' = {}
  /\ UNCHANGED <<segments, calls>>

\* The calls take turns: each starts or is refused, and ends.  (FinishBuild is a
\* step of the worker that waits for it as well.)
StartCall(c) == RefuseCall(c) \/ StartBuild(c) \/ StartCleanup(c)
EndCall(c) == Interrupt(c) \/ FailBuild(c) \/ FinishCleanup(c)

-----------------------------------------------------------------------------
(* What a search and a later citation need of a segment.                   *)

\* What _search finds: a segment that is ready, with its postings and vectors.
Searchable(v) == segments[v].state = "ready" /\ segments[v].stored = Stored

\* _verify: the chunks, in a segment in use or kept as evidence.
Citable(v) ==
  /\ "chunks" \in segments[v].stored
  /\ segments[v].state = "ready" \/ segments[v].retain
=============================================================================
