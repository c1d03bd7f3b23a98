----------------------------- MODULE WorkerLoop -----------------------------
(***************************************************************************)
(* The outer loop of Worker._execute: the attempts that claims of one run  *)
(* start, from the claim to the transaction that gives the run back.       *)
(* Attempts of several worker processes interleave freely, an attempt may  *)
(* stand still for any time (a stalled process) and go on later, and it    *)
(* may vanish (a killed process).                                          *)
(*                                                                         *)
(* What the graph of the workflow does while pc[o] = "graph" is left to    *)
(* the modules that extend this one, which add their own variables to the  *)
(* actions below.                                                          *)
(***************************************************************************)
EXTENDS JobStore, TLAPS

VARIABLE pc   \* where the attempt with this claim owner stands

loopVars == <<job, pc>>

(***************************************************************************)
(* idle        no attempt with this identifier (any more)                  *)
(* claimed     the claim is committed, the document is not read yet        *)
(* loaded      the document is read, graph_run has not started             *)
(* graph       the task graph_run is executing                             *)
(* orphan      the task goes on, but _execute has returned without it      *)
(* stopping    CancelledError reached _execute; the task is being awaited  *)
(* cancelling  cancel_requested returned True                              *)
(* releasing   cancel_requested returned False                             *)
(* failing     an ordinary exception reached _execute                      *)
(***************************************************************************)
LoopState == {"idle", "claimed", "loaded", "graph", "orphan", "stopping",
              "cancelling", "releasing", "failing"}

LoopInit == job = CreatedJob /\ pc = [o \in Owners |-> "idle"]

Goto(o, state) == pc' = [pc EXCEPT ![o] = state]

Executing(o) == pc[o] \in {"graph", "orphan"}

\* The task ends with an exception, which reaches _execute if it still awaits.
GraphEnds(o, state) ==
  Goto(o, CASE pc[o] = "graph" -> state
            [] pc[o] = "orphan" -> "idle"
            [] OTHER -> pc[o])

\* Mutants of the actions below.
FinishCancelledUnfenced(o) ==
  pc[o] = "cancelling" /\ FinishJob("cancelled") /\ Goto(o, "idle")
ReleaseUnfenced(o) ==
  pc[o] = "releasing" /\ ReleaseJob /\ Goto(o, "idle")

\* A claim owner is a new uuid: no attempt and no row knows it.
Claim(o) ==
  /\ pc[o] = "idle" /\ job.owner # o
  /\ Eligible
  /\ ClaimJob(o)
  /\ Goto(o, "claimed")

\* graph_run begins with run_tenant, a fenced read.
StartGraph(o) ==
  /\ pc[o] = "loaded"
  /\ Goto(o, IF Fence(o) THEN "graph" ELSE "failing")
  /\ UNCHANGED job

\* The polling loop beside the task: heartbeat renews the lease, or the
\* attempt stops.
Heartbeat(o) ==
  /\ pc[o] = "graph"
  /\ IF Fence(o) THEN RenewLease /\ UNCHANGED pc
                 ELSE Goto(o, "stopping") /\ UNCHANGED job

\* The same loop's other question.
PollCancel(o) ==
  /\ pc[o] = "graph" /\ CancelSeen(o)
  /\ Goto(o, "stopping")
  /\ UNCHANGED job

\* A query of the polling loop fails in the database.  The handler of other
\* exceptions finishes the run, or fails as well; it does not cancel the task.
PollError(o) ==
  /\ pc[o] = "graph" /\ Goto(o, "orphan")
  /\ \/ Fence(o) /\ FinishJob("failed")
     \/ UNCHANGED job

\* serve cancels its tasks when the process shuts down.
Shutdown(o) ==
  /\ pc[o] \in {"loaded", "graph"}
  /\ Goto(o, "stopping")
  /\ UNCHANGED job

\* The CancelledError handler asks why, and only then acts on the answer.
HandleCancel(o) ==
  /\ pc[o] = "stopping"
  /\ Goto(o, IF CancelSeen(o) THEN "cancelling" ELSE "releasing")
  /\ UNCHANGED job

FinishAs(o, from, status) ==
  /\ pc[o] = from
  /\ IF Fence(o) THEN FinishJob(status) ELSE UNCHANGED job
  /\ Goto(o, "idle")

FinishCancelled(o) == FinishAs(o, "cancelling", "cancelled")

FinishFailed(o) == FinishAs(o, "failing", "failed")

Release(o) ==
  /\ pc[o] = "releasing"
  /\ IF Fence(o) THEN ReleaseJob ELSE UNCHANGED job
  /\ Goto(o, "idle")

\* The process is killed.  Its row stays as it is until the lease expires.
Crash(o) ==
  /\ pc[o] # "idle"
  /\ Goto(o, "idle")
  /\ UNCHANGED job
-----------------------------------------------------------------------------
(***************************************************************************)
(* What these actions preserve, whatever else the modules that extend this *)
(* one add.                                                                *)
(***************************************************************************)

\* The transactions of JobStore leave a row of the right shape, whatever the
\* action that makes them.
LEMMA JobWritesTyped ==
  ASSUME job \in Jobs,
         \/ \E o \in Owners : ClaimJob(o)
         \/ \E status \in EndedStatus : FinishJob(status)
         \/ RenewLease \/ ReleaseJob \/ PauseJob \/ RequeueJob \/ CloseJob
         \/ CancelRequested \/ ResumeJob \/ JobTick \/ UNCHANGED job
  PROVE  job' \in Jobs
<1> DEFINE Leases == NoLease .. LeaseTime
<1>a. NoLease \in Leases /\ LeaseTime \in Leases
  BY JobStoreAssumption DEF NoLease
<1>b. \A l \in Leases : l > NoLease => l - 1 \in Leases
  BY JobStoreAssumption DEF NoLease
<1>c. job \in [status: JobStatus, owner: Owners \cup {NoOwner},
               lease: Leases, cancel: BOOLEAN]
  BY DEF Jobs
<1> SUFFICES job' \in [status: JobStatus, owner: Owners \cup {NoOwner},
                       lease: Leases, cancel: BOOLEAN]
  BY DEF Jobs
<1> HIDE DEF Leases
<1> USE <1>a, <1>c DEF JobStatus, EndedStatus
<1>1. CASE \E o \in Owners : ClaimJob(o)
  BY <1>1 DEF ClaimJob
<1>2. CASE \E status \in EndedStatus : FinishJob(status)
  <2>1. PICK status \in EndedStatus : FinishJob(status)
    BY <1>2
  <2>2. (IF job.cancel THEN "cancelled" ELSE status) \in JobStatus
    OBVIOUS
  <2> QED  BY <2>1, <2>2 DEF FinishJob
<1>3. CASE RenewLease
  BY <1>3 DEF RenewLease
<1>4. CASE ReleaseJob
  BY <1>4 DEF ReleaseJob
<1>5. CASE PauseJob
  BY <1>5 DEF PauseJob
<1>6. CASE RequeueJob
  BY <1>6 DEF RequeueJob
<1>7. CASE CloseJob
  BY <1>7 DEF CloseJob
<1>8. CASE CancelRequested
  BY <1>8 DEF CancelRequested
<1>9. CASE ResumeJob
  BY <1>9 DEF ResumeJob, CreatedJob
<1>10. CASE JobTick
  BY <1>10, <1>b DEF JobTick
<1> QED  BY <1>1, <1>2, <1>3, <1>4, <1>5, <1>6, <1>7, <1>8, <1>9, <1>10

\* The part of the type invariant that the polling loop is responsible for.
LEMMA LoopTyped ==
  ASSUME job \in Jobs, pc \in [Owners -> LoopState], NEW o \in Owners,
         \/ Claim(o) \/ StartGraph(o) \/ Heartbeat(o) \/ PollCancel(o)
         \/ PollError(o) \/ Shutdown(o) \/ HandleCancel(o)
         \/ FinishAs(o, "graph", "success") \/ FinishCancelled(o)
         \/ FinishFailed(o) \/ Release(o) \/ Crash(o)
  PROVE  job' \in Jobs /\ pc' \in [Owners -> LoopState]
<1>1. \/ \E p \in Owners : ClaimJob(p)
      \/ \E status \in EndedStatus : FinishJob(status)
      \/ RenewLease \/ ReleaseJob \/ UNCHANGED job
  BY DEF EndedStatus, Claim, StartGraph, Heartbeat, PollCancel, PollError,
         Shutdown, HandleCancel, FinishAs, FinishCancelled, FinishFailed,
         Release, Crash
<1>2. pc' \in [Owners -> LoopState]
  BY DEF LoopState, Goto, Claim, StartGraph, Heartbeat, PollCancel, PollError,
         Shutdown, HandleCancel, FinishAs, FinishCancelled, FinishFailed,
         Release, Crash
<1> QED  BY <1>1, <1>2, JobWritesTyped
=============================================================================
