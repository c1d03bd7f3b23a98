--------------------------- MODULE RunLeaseProofs ---------------------------
(***************************************************************************)
(* What holds of RunLease for every number of workers, claims and nodes    *)
(* and every lease time.                                                   *)
(***************************************************************************)
EXTENDS RunLease

-----------------------------------------------------------------------------
(* Types.                                                                  *)

\* The initial state is typed.
LEMMA TypeInit == Init => TypeOK
BY JobStoreAssumption
   DEF Init, LoopInit, TypeOK, Jobs, JobStatus, EndedStatus, NoLease,
       CreatedJob, LoopState, Checkpoints, NoResult

\* Every action keeps the types.
LEMMA TypeStep == TypeOK /\ [Next]_vars => TypeOK'
<1> SUFFICES ASSUME TypeOK, [Next]_vars PROVE TypeOK'
  OBVIOUS
<1> USE DEF TypeOK
<1>1. ASSUME NEW o \in Owners, ClaimNext(o) PROVE TypeOK'
  BY <1>1, LoopTyped DEF ClaimNext, graphVars
<1>2. ASSUME NEW o \in Owners, LoadDocument(o) PROVE TypeOK'
  BY <1>2 DEF LoadDocument, Goto, LoopState
<1>3. ASSUME NEW o \in Owners, LoopStep(o) PROVE TypeOK'
  BY <1>3, LoopTyped DEF LoopStep, KeepDone
<1>4. ASSUME NEW o \in Owners, Killed(o) PROVE TypeOK'
  BY <1>4, LoopTyped DEF Killed, KeepDone
<1>5. ASSUME NEW o \in Owners, NodeFails(o) PROVE TypeOK'
  BY <1>5 DEF NodeFails, GraphEnds, Goto, KeepDone, LoopState
<1>6. ASSUME NEW o \in Owners, FinishSuccess(o) PROVE TypeOK'
  BY <1>6, LoopTyped DEF FinishSuccess, KeepDone
<1>7. ASSUME NEW o \in Owners, NEW n \in Nodes, NodeReady(o, n) PROVE TypeOK'
  BY <1>7 DEF NodeReady, loopVars
<1>8. ASSUME NEW o \in Owners, NEW n \in Nodes, CommitNode(o, n) PROVE TypeOK'
  <2>1. ResultOf(o, n) \in Owners
    BY DEF ResultOf, Checkpoints
  <2>2. checkpoint' \in Checkpoints
    BY <1>8, <2>1 DEF CommitNode, Checkpoints
  <2>3. pc' \in [Owners -> LoopState]
    BY <1>8 DEF CommitNode, GraphEnds, Goto, LoopState
  <2>4. done' \in [Owners -> SUBSET Nodes]
    BY <1>8 DEF CommitNode, KeepDone
  <2>5. pending' \in [Owners -> SUBSET Nodes] /\ UNCHANGED <<job, completed>>
    BY <1>8 DEF CommitNode
  <2> QED  BY <2>2, <2>3, <2>4, <2>5
<1>9. ASSUME NEW o \in Owners, NEW n \in Nodes, CommitError(o, n) PROVE TypeOK'
  BY <1>9 DEF CommitError, GraphEnds, Goto, KeepDone, LoopState
<1>10. ASSUME NEW o \in Owners, NEW n \in Nodes, NodeRecovers(o, n) PROVE TypeOK'
  BY <1>10 DEF NodeRecovers, GraphEnds, Goto, KeepDone, LoopState
<1>11. ASSUME RequestCancel \/ ResumeRun \/ Tick PROVE TypeOK'
  <2>1. job' \in Jobs
    BY <1>11, JobWritesTyped DEF RequestCancel, ResumeRun, Tick
  <2> QED  BY <1>11, <2>1 DEF RequestCancel, ResumeRun, Tick, graphVars
<1>12. CASE UNCHANGED vars
  BY <1>12 DEF vars
<1> QED
  BY <1>1, <1>2, <1>3, <1>4, <1>5, <1>6, <1>7, <1>8, <1>9, <1>10, <1>11, <1>12
     DEF Next, Attempt

\* The type invariant holds in every reachable state.
THEOREM TypeCorrect == Spec => []TypeOK
BY TypeInit, TypeStep, PTL DEF Spec

-----------------------------------------------------------------------------
(***************************************************************************)
(* Safety.  The invariants of RunLease are not inductive: what an attempt  *)
(* may do next depends on the results it is about to commit and on why it  *)
(* is about to finish the run.                                             *)
(***************************************************************************)

\* An attempt that has not started its graph has done nothing yet.
NothingDone ==
  \A o \in Owners :
    /\ pc[o] \notin {"graph", "orphan"} => done[o] = {}
    /\ pc[o] \in {"claimed", "loaded"} => pending[o] = {}

\* A result in flight replaces nothing but itself.
PendingCurrent ==
  \A o \in Owners : Holds(o) =>
    \A n \in pending[o] : checkpoint[n] = completed[o][n]

\* What the graph cannot recover from is saved before the graph goes on.
DoneSaved == \A o \in Owners : done[o] \ Recoverable \subseteq Saved

\* An owner that is about to cancel the run was asked to: the other reasons
\* for which cancel_requested answers True end the ownership for good.
CancellingAsked ==
  \A o \in Owners : Holds(o) /\ pc[o] = "cancelling" => job.cancel

\* Nothing in this workflow waits for a person.
NotWaiting == job.status # "awaiting_approval"

IInv ==
  /\ TypeOK
  /\ NoResultMissed
  /\ NothingDone
  /\ PendingCurrent
  /\ DoneSaved
  /\ CancellingAsked
  /\ NotWaiting
  /\ CancelWins
  /\ CancelledOnRequestOnly

\* A run that was just created satisfies the inductive invariant.
LEMMA InductiveInit == Init => IInv
<1> SUFFICES ASSUME Init PROVE IInv
  OBVIOUS
<1> USE DEF Init, LoopInit, CreatedJob
<1>1. TypeOK
  BY TypeInit
<1>2. NoResultMissed /\ PendingCurrent /\ CancellingAsked /\ NothingDone
  BY DEF NoResultMissed, PendingCurrent, CancellingAsked, Holds, NothingDone
<1>3. DoneSaved
  BY DEF DoneSaved
<1>4. CancelWins /\ CancelledOnRequestOnly /\ NotWaiting
  BY DEF CancelWins, CancelledOnRequestOnly, NotWaiting
<1> QED  BY <1>1, <1>2, <1>3, <1>4 DEF IInv

-----------------------------------------------------------------------------
(* The row of the run: who can come to hold it, and how it ends.           *)

\* Nobody comes to hold the run but by claiming it.
LEMMA HeldByClaim ==
  ASSUME TypeOK, [Next]_vars, NEW o \in Owners, Holds(o)', ~Holds(o)
  PROVE  ClaimNext(o)
<1> USE DEF Holds, TypeOK, Jobs
<1>1. CASE \E p \in Owners : ClaimNext(p)
  BY <1>1 DEF ClaimNext, Claim, ClaimJob
<1>2. ASSUME NEW p \in Owners, LoopStep(p) PROVE FALSE
  BY <1>2 DEF LoopStep, StartGraph, Heartbeat, RenewLease, PollCancel, PollError,
       Fence, FinishJob, Shutdown, HandleCancel, FinishCancelled, FinishFailed,
       FinishAs, Release, ReleaseJob
<1>3. ASSUME NEW p \in Owners, FinishSuccess(p) PROVE FALSE
  BY <1>3 DEF FinishSuccess, FinishAs, FinishJob
<1>4. ASSUME RequestCancel \/ ResumeRun \/ Tick PROVE FALSE
  <2>1. CASE RequestCancel
    BY <2>1 DEF RequestCancel, CancelRequested, EndedStatus
  <2>2. CASE ResumeRun
    BY <2>2 DEF ResumeRun, ResumeJob, CreatedJob
  <2>3. CASE Tick
    BY <2>3 DEF Tick, JobTick
  <2> QED  BY <1>4, <2>1, <2>2, <2>3
<1>5. job' # job
  OBVIOUS
<1> QED
  BY <1>1, <1>2, <1>3, <1>4, <1>5
     DEF Next, Attempt, vars, LoadDocument, Killed, Crash, NodeFails,
         NodeReady, loopVars, CommitNode, CommitError, NodeRecovers

\* Only the holder of the run saves a result.
LEMMA SavedByHolder ==
  ASSUME TypeOK, [Next]_vars, checkpoint' # checkpoint
  PROVE  \E o \in Owners, n \in Nodes :
           /\ CommitNode(o, n) /\ Fence(o)
           /\ checkpoint' = [checkpoint EXCEPT ![n] = ResultOf(o, n)]
BY DEF Next, Attempt, vars, ClaimNext, LoadDocument, LoopStep, Killed, NodeFails,
       FinishSuccess, NodeReady, CommitNode, CommitError, NodeRecovers,
       RequestCancel, ResumeRun, Tick

\* The values of a graph are there exactly as long as its task works on them.
DoneKept(o) ==
  /\ pc'[o] \in {"graph", "orphan"} => done[o] \subseteq done'[o]
  /\ pc'[o] \notin {"graph", "orphan"} =>
       done'[o] = {} \/ (pc[o] \notin {"graph", "orphan"} /\ done'[o] = done[o])

\* KeepDone, as every attempt sees it.
LEMMA KeepDoneStep ==
  ASSUME done \in [Owners -> SUBSET Nodes], NEW p \in Owners, NEW o \in Owners,
         KeepDone(p), o # p => pc'[o] = pc[o]
  PROVE  DoneKept(o)
<1>1. CASE o = p
  <2>1. pc'[o] \in {"graph", "orphan"} => done'[o] = done[o]
    BY <1>1 DEF KeepDone
  <2>2. pc'[o] \notin {"graph", "orphan"} => done'[o] = {}
    BY <1>1 DEF KeepDone
  <2> QED  BY <2>1, <2>2 DEF DoneKept
<1>2. CASE o # p
  <2>1. done'[o] = done[o]
    BY <1>2 DEF KeepDone
  <2>2. pc'[o] = pc[o]
    BY <1>2
  <2> QED  BY <2>1, <2>2 DEF DoneKept
<1> QED  BY <1>1, <1>2

\* The end of a task, as the other attempts and its own see it.
LEMMA GraphEndsStep ==
  ASSUME pc \in [Owners -> LoopState], done \in [Owners -> SUBSET Nodes],
         NEW p \in Owners, NEW o \in Owners, NEW state \in {"failing", "stopping"},
         GraphEnds(p, state), KeepDone(p)
  PROVE  /\ pc'[o] = pc[o] \/ pc'[o] \in {"failing", "stopping", "idle"}
         /\ DoneKept(o)
<1>1. pc'[o] = pc[o] \/ pc'[o] \in {"failing", "stopping", "idle"}
  BY DEF GraphEnds, Goto
<1>2. o # p => pc'[o] = pc[o]
  BY DEF GraphEnds, Goto
<1> QED  BY <1>1, <1>2, KeepDoneStep

\* What an attempt knows changes only when it reads the document, and the
\* nodes it has done only grow while it works on the graph.
WorkKept(o) ==
  /\ completed'[o] = completed[o]
  /\ pc'[o] \in {"graph", "orphan"} => pc[o] \in {"loaded", "graph", "orphan"}
  /\ \A n \in pending'[o] : n \in pending[o] \/ NodeReady(o, n)
  /\ DoneKept(o)
  /\ pc'[o] = "loaded" => pc[o] = "loaded"
  /\ pc'[o] = "claimed" => pc[o] = "claimed" \/ ClaimNext(o)
  /\ pc'[o] = "cancelling" => pc[o] = "cancelling" \/ HandleCancel(o)

\* What an attempt works from changes only when it loads the document, and what
\* it has done or in flight grows only by its own steps.
LEMMA WorkStep ==
  ASSUME TypeOK, [Next]_vars, NEW o \in Owners, ~LoadDocument(o)
  PROVE  WorkKept(o)
<1>a. /\ pc \in [Owners -> LoopState] /\ done \in [Owners -> SUBSET Nodes]
      /\ pending \in [Owners -> SUBSET Nodes]
      /\ completed \in [Owners -> Checkpoints]
  BY DEF TypeOK
<1>1. ASSUME NEW p \in Owners, ClaimNext(p) PROVE WorkKept(o)
  BY <1>a, <1>1 DEF ClaimNext, Claim, Goto, graphVars, WorkKept, DoneKept
<1>2. ASSUME NEW p \in Owners, LoadDocument(p) PROVE WorkKept(o)
  BY <1>a, <1>2 DEF LoadDocument, Goto, WorkKept, DoneKept
<1>3. ASSUME NEW p \in Owners, LoopStep(p) PROVE WorkKept(o)
  <2>1. /\ o # p => pc'[o] = pc[o]
        /\ pc'[o] \in {"graph", "orphan"} => pc[o] \in {"loaded", "graph", "orphan"}
        /\ pc'[o] \in {"loaded", "claimed"} => pc'[o] = pc[o]
        /\ pc'[o] = "cancelling" => pc[o] = "cancelling" \/ HandleCancel(o)
    BY <1>a, <1>3 DEF LoopStep, StartGraph, Heartbeat, PollCancel, PollError, Shutdown,
         HandleCancel, FinishCancelled, FinishFailed, FinishAs, Release, Goto
  <2>2. KeepDone(p) /\ UNCHANGED <<completed, pending>>
    BY <1>3 DEF LoopStep
  <2>3. DoneKept(o)
    BY <1>a, <2>1, <2>2, KeepDoneStep
  <2> QED  BY <2>1, <2>2, <2>3 DEF WorkKept
<1>4. ASSUME NEW p \in Owners, Killed(p) PROVE WorkKept(o)
  <2>1. KeepDone(p) /\ pc' = [pc EXCEPT ![p] = "idle"]
    BY <1>4 DEF Killed, Crash, Goto
  <2>2. DoneKept(o)
    BY <1>a, <2>1, KeepDoneStep
  <2> QED  BY <1>a, <1>4, <2>1, <2>2 DEF Killed, WorkKept
<1>5. ASSUME NEW p \in Owners, NodeFails(p) PROVE WorkKept(o)
  BY <1>a, <1>5, GraphEndsStep DEF NodeFails, WorkKept
<1>6. ASSUME NEW p \in Owners, FinishSuccess(p) PROVE WorkKept(o)
  <2>1. KeepDone(p) /\ pc' = [pc EXCEPT ![p] = "idle"]
    BY <1>6 DEF FinishSuccess, FinishAs, Goto
  <2>2. DoneKept(o)
    BY <1>a, <2>1, KeepDoneStep
  <2> QED  BY <1>a, <1>6, <2>1, <2>2 DEF FinishSuccess, WorkKept
<1>7. ASSUME NEW p \in Owners, NEW m \in Nodes, NodeReady(p, m) PROVE WorkKept(o)
  BY <1>a, <1>7 DEF NodeReady, loopVars, WorkKept, DoneKept
<1>8. ASSUME NEW p \in Owners, NEW m \in Nodes, CommitNode(p, m) PROVE WorkKept(o)
  <2>1. completed'[o] = completed[o] /\ pending'[o] \subseteq pending[o]
    BY <1>a, <1>8 DEF CommitNode
  <2>2. CASE Fence(p)
    <3>1. /\ pc' = pc
          /\ done' = [done EXCEPT ![p] = IF Executing(p) THEN @ \cup {m} ELSE @]
      BY <1>8, <2>2 DEF CommitNode
    <3> QED  BY <1>a, <2>1, <3>1 DEF WorkKept, DoneKept, Executing
  <2>3. CASE ~Fence(p)
    <3>1. GraphEnds(p, "stopping") /\ KeepDone(p)
      BY <1>8, <2>3 DEF CommitNode
    <3> QED  BY <1>a, <2>1, <3>1, GraphEndsStep DEF WorkKept
  <2> QED  BY <2>2, <2>3
<1>9. ASSUME NEW p \in Owners, NEW m \in Nodes, CommitError(p, m) PROVE WorkKept(o)
  BY <1>a, <1>9, GraphEndsStep DEF CommitError, WorkKept
<1>10. ASSUME NEW p \in Owners, NEW m \in Nodes, NodeRecovers(p, m) PROVE WorkKept(o)
  <2>1. CASE Fence(p)
    BY <1>a, <1>10, <2>1 DEF NodeRecovers, WorkKept, DoneKept, Executing
  <2>2. CASE ~Fence(p)
    BY <1>a, <1>10, <2>2, GraphEndsStep DEF NodeRecovers, WorkKept
  <2> QED  BY <2>1, <2>2
<1>11. ASSUME RequestCancel \/ ResumeRun \/ Tick \/ UNCHANGED vars
       PROVE  WorkKept(o)
  BY <1>11 DEF RequestCancel, ResumeRun, Tick, vars, graphVars, WorkKept, DoneKept
<1> QED
  BY <1>1, <1>2, <1>3, <1>4, <1>5, <1>6, <1>7, <1>8, <1>9, <1>10, <1>11
     DEF Next, Attempt

\* The holder of the run has missed no result, and will replace none.
LEMMA CurrentStep ==
  ASSUME IInv, [Next]_vars
  PROVE  NoResultMissed' /\ PendingCurrent'
<1> USE DEF IInv
<1> SUFFICES ASSUME NEW o \in Owners, Holds(o)', NEW n \in Nodes
             PROVE  /\ pc'[o] \in Reader /\ n \notin done'[o]
                         => checkpoint'[n] = completed'[o][n]
                    /\ n \in pending'[o] => checkpoint'[n] = completed'[o][n]
  BY TypeStep DEF NoResultMissed, PendingCurrent, TypeOK
<1>1. CASE ~Holds(o)
  <2>1. ClaimNext(o)
    BY <1>1, HeldByClaim
  <2> QED  BY <2>1 DEF ClaimNext, Claim, Goto, Reader, graphVars, TypeOK
<1>2. CASE LoadDocument(o)
  BY <1>2 DEF LoadDocument, TypeOK
<1>3. CASE Holds(o) /\ ~LoadDocument(o) /\ checkpoint' = checkpoint
  <2>1. n \in pending'[o] => checkpoint[n] = completed[o][n]
    <3>1. CASE n \in pending[o]
      BY <1>3, <3>1 DEF PendingCurrent
    <3>2. CASE NodeReady(o, n)
      BY <1>3, <3>2 DEF NodeReady, NoResultMissed, Executing, Reader
    <3> QED  BY <1>3, <3>1, <3>2, WorkStep DEF WorkKept
  <2>2. pc'[o] \in Reader /\ n \notin done'[o] => checkpoint[n] = completed[o][n]
    BY <1>3, WorkStep DEF NoResultMissed, NothingDone, Reader, WorkKept, DoneKept
  <2> QED  BY <1>3, <2>1, <2>2, WorkStep DEF WorkKept
<1>4. CASE Holds(o) /\ ~LoadDocument(o) /\ checkpoint' # checkpoint
  <2>1. PICK p \in Owners, m \in Nodes :
          /\ CommitNode(p, m) /\ Fence(p)
          /\ checkpoint' = [checkpoint EXCEPT ![m] = ResultOf(p, m)]
    BY <1>4, SavedByHolder
  <2>2. p = o
    BY <1>4, <2>1 DEF Fence, Holds
  <2>3. /\ pending' = [pending EXCEPT ![o] = @ \ {m}]
        /\ done' = [done EXCEPT ![o] = IF Executing(o) THEN @ \cup {m} ELSE @]
        /\ completed' = completed /\ pc' = pc
    BY <2>1, <2>2 DEF CommitNode
  <2>4. n = m => n \notin pending'[o] /\ (Executing(o) => n \in done'[o])
    BY <2>3 DEF TypeOK
  <2>5. n = m => pc[o] # "loaded"
    BY <2>1, <2>2 DEF CommitNode, NothingDone
  <2>6. n # m => checkpoint'[n] = checkpoint[n]
    BY <2>1 DEF TypeOK, Checkpoints
  <2> QED
    BY <1>4, <2>3, <2>4, <2>5, <2>6
       DEF NoResultMissed, PendingCurrent, TypeOK, Executing, Reader
<1> QED  BY <1>1, <1>2, <1>3, <1>4

\* Outside the graph an attempt has no values, and before it no commit in flight.
LEMMA NothingDoneStep ==
  ASSUME IInv, [Next]_vars
  PROVE  NothingDone'
<1> SUFFICES ASSUME NEW o \in Owners
             PROVE  /\ pc'[o] \notin {"graph", "orphan"} => done'[o] = {}
                    /\ pc'[o] \in {"claimed", "loaded"} => pending'[o] = {}
  BY DEF NothingDone
<1> USE DEF IInv, NothingDone
<1>1. CASE LoadDocument(o)
  BY <1>1 DEF LoadDocument, Goto, TypeOK
<1>2. CASE ~LoadDocument(o)
  <2>1. WorkKept(o)
    BY <1>2, WorkStep
  <2>2. pc'[o] \notin {"graph", "orphan"} => done'[o] = {}
    BY <2>1 DEF WorkKept, DoneKept
  <2>3. ASSUME pc'[o] \in {"claimed", "loaded"}, NEW n \in pending'[o] PROVE FALSE
    <3>1. CASE ClaimNext(o)
      BY <2>3, <3>1 DEF ClaimNext, graphVars
    <3>2. CASE NodeReady(o, n)
      BY <2>3, <3>2 DEF NodeReady, loopVars, Executing
    <3>3. CASE pc[o] \in {"claimed", "loaded"} /\ n \in pending[o]
      BY <3>3
    <3> QED  BY <2>1, <2>3, <3>1, <3>2, <3>3 DEF WorkKept
  <2> QED  BY <2>2, <2>3
<1> QED  BY <1>1, <1>2

\* A node the graph cannot do without is done only by a commit.
LEMMA DoneByCommit ==
  ASSUME TypeOK, [Next]_vars, NEW o \in Owners, NEW n \in done'[o],
         n \notin done[o], n \notin Recoverable
  PROVE  CommitNode(o, n) /\ Fence(o)
<1>1. ASSUME NEW p \in Owners, KeepDone(p) PROVE FALSE
  BY <1>1 DEF KeepDone, TypeOK
<1>2. ASSUME NEW p \in Owners, NEW m \in Nodes, NodeRecovers(p, m) PROVE FALSE
  BY <1>1, <1>2 DEF NodeRecovers, TypeOK
<1>3. ASSUME NEW p \in Owners, NEW m \in Nodes, CommitNode(p, m)
      PROVE  CommitNode(o, n) /\ Fence(o)
  <2>1. /\ Fence(p)
        /\ done' = [done EXCEPT ![p] = IF Executing(p) THEN @ \cup {m} ELSE @]
    BY <1>1, <1>3 DEF CommitNode
  <2>2. p = o /\ m = n
    BY <2>1 DEF TypeOK
  <2> QED  BY <1>3, <2>1, <2>2
<1>4. done' # done
  OBVIOUS
<1> QED
  BY <1>1, <1>2, <1>3, <1>4
     DEF Next, Attempt, vars, ClaimNext, LoadDocument, LoopStep, Killed, NodeFails,
         FinishSuccess, NodeReady, CommitError, RequestCancel, ResumeRun,
         Tick, graphVars

\* A node that a graph cannot do without and is done with has a saved result.
LEMMA DoneSavedStep ==
  ASSUME IInv, [Next]_vars
  PROVE  DoneSaved'
<1> USE DEF IInv
<1>1. Saved \subseteq Saved'
  <2>1. CASE checkpoint' = checkpoint
    BY <2>1 DEF Saved
  <2>2. CASE checkpoint' # checkpoint
    BY <2>2, SavedByHolder, JobStoreAssumption
       DEF Saved, ResultOf, NoResult, TypeOK, Checkpoints
  <2> QED  BY <2>1, <2>2
<1>2. ASSUME NEW o \in Owners, NEW n \in done'[o], n \notin done[o], n \notin Recoverable
      PROVE  n \in Saved'
  <2>1. CommitNode(o, n) /\ Fence(o)
    BY <1>2, DoneByCommit
  <2> QED
    BY <2>1, JobStoreAssumption
       DEF CommitNode, Saved, ResultOf, NoResult, TypeOK, Checkpoints
<1> QED  BY <1>1, <1>2 DEF DoneSaved, Saved

\* Only resume_run takes a requested cancellation back.
LEMMA CancelKept ==
  ASSUME TypeOK, [Next]_vars, job.cancel, ~job'.cancel
  PROVE  ResumeRun
<1> USE DEF TypeOK, Jobs
<1>1. ASSUME NEW p \in Owners, Claim(p) PROVE FALSE
  BY <1>1 DEF Claim, ClaimJob
<1>2. ASSUME NEW p \in Owners, LoopStep(p) PROVE FALSE
  BY <1>2 DEF LoopStep, StartGraph, Heartbeat, RenewLease, PollCancel, PollError,
       FinishJob, Shutdown, HandleCancel, FinishCancelled, FinishFailed,
       FinishAs, Release, ReleaseJob
<1>3. ASSUME NEW p \in Owners, FinishSuccess(p) PROVE FALSE
  BY <1>3 DEF FinishSuccess, FinishAs, FinishJob
<1>4. ASSUME RequestCancel \/ Tick PROVE FALSE
  BY <1>4 DEF RequestCancel, CancelRequested, Tick, JobTick
<1>5. job' # job
  OBVIOUS
<1> QED
  BY <1>1, <1>2, <1>3, <1>4, <1>5
     DEF Next, Attempt, vars, ClaimNext, LoadDocument, Killed, Crash, NodeFails,
         NodeReady, loopVars, CommitNode, CommitError, NodeRecovers

\* The holder of the run stops as cancelled only if somebody asked for it.
LEMMA CancellingStep ==
  ASSUME IInv, [Next]_vars
  PROVE  CancellingAsked'
<1> SUFFICES ASSUME NEW o \in Owners, Holds(o)', pc'[o] = "cancelling"
             PROVE  job'.cancel
  BY DEF CancellingAsked
<1> USE DEF IInv, TypeOK
<1>1. /\ pc[o] = "cancelling" \/ HandleCancel(o)
      /\ ~ClaimNext(o)
  BY WorkStep DEF WorkKept, LoadDocument, ClaimNext, Claim, Goto
<1>2. Holds(o)
  BY <1>1, HeldByClaim
<1>3. job.cancel
  BY <1>1, <1>2 DEF CancellingAsked, HandleCancel, CancelSeen, Goto, Holds
<1> QED  BY <1>2, <1>3, CancelKept DEF Holds, ResumeRun, ResumeJob

-----------------------------------------------------------------------------
(* The promise of the run API: every step of the system is a step of       *)
(* RunLifecycle, or changes nothing that a client can see.                 *)

\* However an attempt finishes the run, the promise has an action for it.
LEMMA FinishMaps ==
  ASSUME job \in Jobs, NEW o \in Owners, NEW status \in EndedStatus,
         Fence(o), FinishJob(status), UNCHANGED checkpoint,
         status = "cancelled" => job.cancel,
         status = "success" => Nodes \ Recoverable \subseteq Saved
  PROVE  Lifecycle!Next
<1> USE DEF Jobs, Fence, FinishJob
<1>1. Saved' = Saved
  BY DEF Saved
<1>2. job.status = "running" /\ job'.cancel = job.cancel
  OBVIOUS
<1>3. CASE job.cancel
  BY <1>1, <1>2, <1>3 DEF Lifecycle!Next, Lifecycle!Cancel
<1>4. CASE ~job.cancel /\ status = "failed"
  BY <1>1, <1>2, <1>4 DEF Lifecycle!Next, Lifecycle!Fail
<1>5. CASE ~job.cancel /\ status = "success"
  BY <1>1, <1>2, <1>5 DEF Lifecycle!Next, Lifecycle!Succeed
<1> QED  BY <1>3, <1>4, <1>5 DEF EndedStatus

\* The initial states map to those of the promise.
LEMMA RefinementInit == Init => Lifecycle!Init
BY DEF Init, LoopInit, CreatedJob, Saved, Lifecycle!Init

\* Every step is one of the promise, or changes nothing a client sees.
LEMMA RefinementStep ==
  ASSUME IInv, [Next]_vars
  PROVE  [Lifecycle!Next]_Lifecycle!vars
<1> DEFINE Goal == Lifecycle!Next \/ UNCHANGED Lifecycle!vars
<1> SUFFICES Goal
  OBVIOUS
<1> job \in Jobs
  BY DEF IInv, TypeOK
<1>a. UNCHANGED <<job, checkpoint>> => Goal
  BY DEF Saved, Lifecycle!vars
<1>b. UNCHANGED checkpoint => Saved' = Saved
  BY DEF Saved
<1> HIDE DEF Goal
<1>1. ASSUME NEW o \in Owners, ClaimNext(o) PROVE Goal
  <2>1. Eligible /\ ClaimJob(o) /\ Saved' = Saved
    BY <1>1, <1>b DEF ClaimNext, Claim
  <2>2. CASE job.status = "queued"
    BY <2>1, <2>2 DEF ClaimJob, Jobs, Goal, Lifecycle!Next, Lifecycle!Start
  <2>3. CASE job.status = "running"
    BY <2>1, <2>3 DEF ClaimJob, Jobs, Goal, Lifecycle!vars
  <2> QED  BY <2>1, <2>2, <2>3 DEF Eligible
<1>2. ASSUME NEW o \in Owners, LoopStep(o) PROVE Goal
  <2>0. UNCHANGED checkpoint /\ Saved' = Saved
    BY <1>2, <1>b DEF LoopStep
  <2>1. CASE StartGraph(o) \/ PollCancel(o) \/ Shutdown(o) \/ HandleCancel(o)
    BY <1>a, <2>0, <2>1 DEF StartGraph, PollCancel, Shutdown, HandleCancel
  <2>2. CASE Heartbeat(o)
    <3>1. RenewLease \/ UNCHANGED job
      BY <2>2 DEF Heartbeat
    <3> QED  BY <2>0, <3>1 DEF RenewLease, Jobs, Goal, Lifecycle!vars
  <2>3. CASE PollError(o) \/ FinishFailed(o)
    <3>1. \/ Fence(o) /\ FinishJob("failed")
          \/ UNCHANGED job
      BY <2>3 DEF PollError, FinishFailed, FinishAs
    <3> QED  BY <1>a, <2>0, <3>1, FinishMaps DEF EndedStatus, Goal
  <2>4. CASE FinishCancelled(o)
    <3>1. \/ Fence(o) /\ FinishJob("cancelled") /\ job.cancel
          \/ UNCHANGED job
      BY <2>4 DEF FinishCancelled, FinishAs, IInv, CancellingAsked, Fence, Holds
    <3> QED  BY <1>a, <2>0, <3>1, FinishMaps DEF EndedStatus, Goal
  <2>5. CASE Release(o)
    <3>1. \/ Fence(o) /\ ReleaseJob
          \/ UNCHANGED job
      BY <2>5 DEF Release
    <3>2. CASE Fence(o) /\ ReleaseJob
      BY <2>0, <3>2 DEF Fence, ReleaseJob, Jobs, Goal, Lifecycle!Next, Lifecycle!Requeue
    <3> QED  BY <1>a, <2>0, <3>1, <3>2
  <2> QED  BY <1>2, <2>1, <2>2, <2>3, <2>4, <2>5 DEF LoopStep
<1>3. ASSUME NEW o \in Owners, FinishSuccess(o) PROVE Goal
  <2>1. Nodes \ Recoverable \subseteq Saved
    BY <1>3 DEF FinishSuccess, IInv, DoneSaved
  <2>2. /\ UNCHANGED checkpoint
        /\ (Fence(o) /\ FinishJob("success")) \/ UNCHANGED job
    BY <1>3 DEF FinishSuccess, FinishAs
  <2> QED  BY <1>a, <2>1, <2>2, FinishMaps DEF EndedStatus, Goal
<1>4. CASE checkpoint' # checkpoint
  <2>1. PICK o \in Owners, n \in Nodes :
          /\ CommitNode(o, n) /\ Fence(o)
          /\ checkpoint' = [checkpoint EXCEPT ![n] = ResultOf(o, n)]
    BY <1>4, SavedByHolder DEF IInv
  <2>2. ResultOf(o, n) # NoResult
    BY JobStoreAssumption DEF ResultOf, NoResult
  <2>3. Saved' = Saved \cup {n}
    BY <2>1, <2>2 DEF Saved, IInv, TypeOK, Checkpoints
  <2>4. job.status = "running" /\ UNCHANGED job
    BY <2>1 DEF CommitNode, Fence
  <2>5. CASE n \in Saved
    BY <2>3, <2>4, <2>5 DEF Goal, Lifecycle!vars
  <2>6. CASE n \notin Saved
    BY <2>3, <2>4, <2>6 DEF Goal, Lifecycle!Next, Lifecycle!Publish
  <2> QED  BY <2>5, <2>6
<1>5. CASE RequestCancel
  <2>1. job.status \in {"queued", "running"}
    BY <1>5 DEF RequestCancel, CancelRequested, Jobs, JobStatus, IInv, NotWaiting
  <2> QED
    BY <1>5, <1>b, <2>1
       DEF RequestCancel, CancelRequested, Jobs, Goal, Lifecycle!Next, Lifecycle!RequestCancel
<1>6. CASE ResumeRun
  BY <1>6, <1>b DEF ResumeRun, ResumeJob, CreatedJob, Goal, Lifecycle!Next, Lifecycle!Resume
<1>7. CASE Tick
  BY <1>7, <1>b DEF Tick, JobTick, Jobs, Goal, Lifecycle!vars
<1> QED
  BY <1>a, <1>1, <1>2, <1>3, <1>4, <1>5, <1>6, <1>7
     DEF Next, Attempt, vars, LoadDocument, Killed, Crash, NodeFails,
         NodeReady, loopVars, CommitNode, CommitError, NodeRecovers

\* What a client sees of cancellation follows from the promise alone.
LEMMA CancelStep ==
  ASSUME IInv, [Next]_vars
  PROVE  NotWaiting' /\ CancelWins' /\ CancelledOnRequestOnly'
BY RefinementStep
   DEF IInv, NotWaiting, CancelWins, CancelledOnRequestOnly, TypeOK, Jobs, JobStatus,
       Lifecycle!vars, Lifecycle!Next, Lifecycle!Start, Lifecycle!Requeue,
       Lifecycle!Publish, Lifecycle!Succeed, Lifecycle!Fail, Lifecycle!Cancel,
       Lifecycle!RequestCancel, Lifecycle!Resume

-----------------------------------------------------------------------------
(* The theorems.                                                           *)

\* The invariant is inductive.
LEMMA InductiveStep == IInv /\ [Next]_vars => IInv'
BY TypeStep, CurrentStep, NothingDoneStep, DoneSavedStep, CancellingStep, CancelStep
   DEF IInv

\* The inductive invariant holds in every reachable state.
LEMMA Inductive == Spec => []IInv
BY InductiveInit, InductiveStep, PTL DEF Spec

\* No attempt that owns the run lacks a result another attempt has saved.
THEOREM NothingMissed == Spec => []NoResultMissed
BY Inductive, PTL DEF IInv

\* A saved result is never replaced by another attempt's.
THEOREM ResultsKept == Spec => ResultsAreFinal
<1>1. ASSUME IInv, [Next]_vars
      PROVE  [\A n \in Nodes :
                checkpoint[n] # NoResult => checkpoint'[n] = checkpoint[n]]_vars
  <2> SUFFICES ASSUME NEW n \in Nodes, checkpoint[n] # NoResult, checkpoint' # checkpoint
               PROVE  checkpoint'[n] = checkpoint[n]
    OBVIOUS
  <2>1. PICK o \in Owners, m \in Nodes :
          /\ CommitNode(o, m) /\ Fence(o)
          /\ checkpoint' = [checkpoint EXCEPT ![m] = ResultOf(o, m)]
    BY <1>1, SavedByHolder DEF IInv
  <2>2. m \in pending[o] /\ Holds(o)
    BY <2>1 DEF CommitNode, Fence, Holds
  <2>3. checkpoint[m] = completed[o][m]
    BY <1>1, <2>2 DEF IInv, PendingCurrent
  <2> QED  BY <1>1, <2>1, <2>3 DEF ResultOf, IInv, TypeOK, Checkpoints
<1> QED  BY <1>1, Inductive, PTL DEF Spec, ResultsAreFinal

\* A requested cancellation is not undone by anything but resume.
THEOREM CancelPrevails == Spec => []CancelWins
BY Inductive, PTL DEF IInv

\* No run is cancelled unasked.
THEOREM CancelledOnlyOnRequest == Spec => []CancelledOnRequestOnly
BY Inductive, PTL DEF IInv

\* The workers, leases and claims implement the promise of the run API.
THEOREM LifecycleImplemented == Spec => ImplementsLifecycle
<1>1. IInv /\ [Next]_vars => [Lifecycle!Next]_Lifecycle!vars
  BY RefinementStep
<1> QED  BY <1>1, RefinementInit, Inductive, PTL DEF Spec, ImplementsLifecycle, Lifecycle!Spec
=============================================================================
