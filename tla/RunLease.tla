------------------------------ MODULE RunLease ------------------------------
(***************************************************************************)
(* One run executed by any number of attempts: the job row, the polling    *)
(* loop of every attempt, and the graph each attempt executes, whose node  *)
(* results are committed as checkpoints under the fence.                   *)
(*                                                                         *)
(* The workflow of this module has no external write and no review, so     *)
(* that resume_run and request_cancel find no marker and no approval row;  *)
(* ExternalWrite adds those.                                               *)
(***************************************************************************)
EXTENDS WorkerLoop

CONSTANTS
  Nodes,       \* the nodes of the run's graph, executed in any order
  Recoverable  \* the nodes with on_error continue

ASSUME RunLeaseAssumption == Recoverable \subseteq Nodes

VARIABLES
  checkpoint,  \* checkpoints: which attempt computed the saved result of a node
  completed,   \* per attempt: the checkpoints of the document it was given
  done,        \* per attempt: the nodes its graph has a value for, {} outside it
  pending      \* per attempt: successes whose commit is in flight on a thread

graphVars == <<completed, done, pending>>
vars == <<job, pc, checkpoint, completed, done, pending>>

NoResult == NoOwner
Checkpoints == [Nodes -> Owners \cup {NoResult}]
Saved == {n \in Nodes : checkpoint[n] # NoResult}

Init ==
  /\ LoopInit
  /\ checkpoint = [n \in Nodes |-> NoResult]
  /\ completed = [o \in Owners |-> [n \in Nodes |-> NoResult]]
  /\ done = [o \in Owners |-> {}]
  /\ pending = [o \in Owners |-> {}]

-----------------------------------------------------------------------------

\* claim_next up to its commit.  The identifier is one nobody has seen.
ClaimNext(o) ==
  /\ pending[o] = {} /\ \A n \in Nodes : checkpoint[n] # o
  /\ Claim(o)
  /\ UNCHANGED <<checkpoint, graphVars>>

\* claim_next's return value.  The commit has expired the row, so that the
\* document is read again in a transaction of its own.
LoadDocument(o) ==
  /\ pc[o] = "claimed" /\ Goto(o, "loaded")
  /\ completed' = [completed EXCEPT ![o] = checkpoint]
  /\ UNCHANGED <<job, checkpoint, done, pending>>

\* The values of the graph live as long as its task.
KeepDone(o) ==
  done' = [done EXCEPT ![o] = IF pc'[o] \in {"graph", "orphan"} THEN @ ELSE {}]

\* A node has its outputs, restored or computed, and emits its success.
NodeReady(o, n) ==
  /\ Executing(o) /\ n \in Nodes \ (done[o] \cup pending[o])
  /\ pending' = [pending EXCEPT ![o] = @ \cup {n}]
  /\ UNCHANGED <<loopVars, checkpoint, completed, done>>

\* The result of a success: the restored outputs, or those of this attempt.
ResultOf(o, n) == IF completed[o][n] # NoResult THEN completed[o][n] ELSE o

\* worker_event for that success, on its thread.  The commit is shielded: it
\* lands, or is refused, also after the attempt was told to stop.
CommitNode(o, n) ==
  /\ n \in pending[o]
  /\ pending' = [pending EXCEPT ![o] = @ \ {n}]
  /\ IF Fence(o)
     THEN /\ checkpoint' = [checkpoint EXCEPT ![n] = ResultOf(o, n)]
          /\ done' = [done EXCEPT ![o] = IF Executing(o) THEN @ \cup {n} ELSE @]
          /\ UNCHANGED pc
     ELSE GraphEnds(o, "stopping") /\ KeepDone(o) /\ UNCHANGED checkpoint
  /\ UNCHANGED <<job, completed>>

\* The same transaction fails with an error of the database.
CommitError(o, n) ==
  /\ n \in pending[o]
  /\ pending' = [pending EXCEPT ![o] = @ \ {n}]
  /\ GraphEnds(o, "failing") /\ KeepDone(o)
  /\ UNCHANGED <<job, checkpoint, completed>>

\* A node fails under on_error fail, or RUN_TIMEOUT_SECONDS have passed.
NodeFails(o) ==
  /\ Executing(o) /\ GraphEnds(o, "failing") /\ KeepDone(o)
  /\ UNCHANGED <<job, checkpoint, completed, pending>>

\* A node fails under on_error continue: its recovered event is fenced as
\* well, and it leaves no checkpoint.
NodeRecovers(o, n) ==
  /\ Executing(o) /\ n \in Recoverable \ (done[o] \cup pending[o])
  /\ completed[o][n] = NoResult
  /\ IF Fence(o)
     THEN done' = [done EXCEPT ![o] = @ \cup {n}] /\ UNCHANGED pc
     ELSE GraphEnds(o, "stopping") /\ KeepDone(o)
  /\ UNCHANGED <<job, checkpoint, completed, pending>>

\* Every node has a value: the graph returns and the run is finished.
FinishSuccess(o) ==
  /\ done[o] = Nodes
  /\ FinishAs(o, "graph", "success") /\ KeepDone(o)
  /\ UNCHANGED <<checkpoint, completed, pending>>

\* The outer loop.  gather waits for the commits in flight before the
\* handler of the cancellation goes on.
LoopStep(o) ==
  /\ \/ StartGraph(o)
     \/ Heartbeat(o)
     \/ PollCancel(o)
     \/ PollError(o)
     \/ Shutdown(o)
     \/ pending[o] = {} /\ HandleCancel(o)
     \/ FinishCancelled(o)
     \/ FinishFailed(o)
     \/ Release(o)
  /\ KeepDone(o)
  /\ UNCHANGED <<checkpoint, completed, pending>>

\* The threads of a killed process die with it.
Killed(o) ==
  /\ Crash(o)
  /\ pending' = [pending EXCEPT ![o] = {}] /\ KeepDone(o)
  /\ UNCHANGED <<checkpoint, completed>>

RequestCancel == CancelRequested /\ UNCHANGED <<pc, checkpoint, graphVars>>

ResumeRun == ResumeJob /\ UNCHANGED <<pc, checkpoint, graphVars>>

Tick == JobTick /\ UNCHANGED <<pc, checkpoint, graphVars>>

Attempt(o) ==
  \/ ClaimNext(o) \/ LoadDocument(o) \/ LoopStep(o) \/ Killed(o)
  \/ NodeFails(o) \/ FinishSuccess(o)
  \/ \E n \in Nodes : \/ NodeReady(o, n) \/ CommitNode(o, n)
                      \/ CommitError(o, n) \/ NodeRecovers(o, n)

Next == \/ \E o \in Owners : Attempt(o)
        \/ RequestCancel \/ ResumeRun \/ Tick

Spec == Init /\ [][Next]_vars

-----------------------------------------------------------------------------
(* Fairness.  Every attempt is an asyncio task of a running process: what  *)
(* it can do next it does, RUN_TIMEOUT_SECONDS bounding the graph.  serve  *)
(* polls for runs for ever and the clock goes on.  Nothing obliges anybody *)
(* to cancel, resume, kill or shut down.                                   *)

Progress(o) ==
  \/ LoadDocument(o) \/ NodeFails(o) \/ FinishSuccess(o)
  \/ /\ \/ StartGraph(o)
        \/ PollCancel(o)
        \/ pending[o] = {} /\ HandleCancel(o)
        \/ FinishCancelled(o)
        \/ FinishFailed(o)
        \/ Release(o)
     /\ KeepDone(o)
     /\ UNCHANGED <<checkpoint, completed, pending>>
  \/ \E n \in Nodes : NodeReady(o, n) \/ CommitNode(o, n)

Fairness ==
  /\ \A o \in Owners : WF_vars(Progress(o))
  /\ WF_vars(\E o \in Owners : ClaimNext(o))
  /\ WF_vars(Tick)

FairSpec == Spec /\ Fairness

\* What interrupts an attempt that holds the run: its process is killed, is
\* shut down or loses the database, or stands still until the lease is over.
Fault ==
  \E o \in Owners :
    /\ Fence(o) /\ pc[o] # "idle"
    /\ \/ pc'[o] \in {"idle", "orphan"} /\ UNCHANGED job
       \/ pc[o] # "stopping" /\ pc'[o] = "stopping" /\ ~job.cancel
       \/ job'.lease = 0

-----------------------------------------------------------------------------
(* Properties.                                                             *)

Reader == {"loaded", "graph", "orphan"}

\* The type invariant.
TypeOK ==
  /\ job \in Jobs
  /\ pc \in [Owners -> LoopState]
  /\ checkpoint \in Checkpoints
  /\ completed \in [Owners -> Checkpoints]
  /\ done \in [Owners -> SUBSET Nodes]
  /\ pending \in [Owners -> SUBSET Nodes]

\* As long as the row names an attempt as the owner of the running run, that
\* attempt works from exactly the checkpoints the run has: no attempt before
\* it can add one after it has read the document, although the two may be
\* executing the graph at the same time.
NoResultMissed ==
  \A o \in Owners : Holds(o) /\ pc[o] \in Reader =>
    \A n \in Nodes \ done[o] : checkpoint[n] = completed[o][n]

\* A saved node result is never replaced by that of another attempt: a node
\* that has completed is restored, not executed again, whatever happens to
\* the workers.
ResultsAreFinal ==
  [][\A n \in Nodes :
       checkpoint[n] # NoResult => checkpoint'[n] = checkpoint[n]]_vars

\* A requested cancellation that resume has not undone leads to nothing but
\* "cancelled": finish_run overrides the outcome, release and a later claim
\* carry the request along.
CancelWins ==
  job.cancel => job.status \in {"queued", "running", "cancelled"}

\* A run nobody asked to cancel is never shown as cancelled, although
\* cancel_requested also answers True to an attempt that lost its lease and
\* that attempt goes on to finish the run as cancelled.
CancelledOnRequestOnly == job.status = "cancelled" => job.cancel

\* Against the promise of the API: the detailed system implements it.
Lifecycle == INSTANCE RunLifecycle WITH
  status <- job.status, results <- Saved, cancel <- job.cancel

ImplementsLifecycle == Lifecycle!Spec

\* When workers are no longer killed, shut down, cut off or stalled for a lease,
\* a run that was queued or left behind by a dead worker comes to an end.
EventuallyEnds ==
  <>[][~Fault]_vars =>
    (job.status \in {"queued", "running"} ~> job.status \in EndedStatus)
=============================================================================
