------------------------ MODULE ExternalWriteProofs -------------------------
(***************************************************************************)
(* What holds of ExternalWrite for every number of workers, writes and     *)
(* approvals: no request leaves twice and none is forgotten.               *)
(***************************************************************************)
EXTENDS ExternalWrite

-----------------------------------------------------------------------------
(* Types.                                                                  *)

AttemptTyped ==
  /\ pc \in [Owners -> LoopState]
  /\ step \in [Owners -> Step]
  /\ at \in [Owners -> 1 .. NumWrites + 1]
  /\ restored \in [Owners -> SUBSET Writes]

RecordsTyped ==
  /\ checkpoints \subseteq Writes /\ writeNodes \subseteq Writes
  /\ results \subseteq Writes
  /\ approval \in [Writes -> Approvals] /\ terminal \in BOOLEAN
  /\ sent \in [Writes -> Nat]

\* The ways in which an action moves its attempt leave the attempt typed.
LEMMA MoveTyped ==
  ASSUME AttemptTyped, NEW o \in Owners, NEW s \in Step,
         \/ StepTo(o, s) \/ GraphFails(o) \/ GraphStops(o)
         \/ Advance(o) /\ UNCHANGED pc /\ at[o] \in Writes
         \/ UNCHANGED <<pc, attemptVars>>
  PROVE  AttemptTyped'
<1> USE ExternalWriteAssumption DEF AttemptTyped
<1>1. CASE StepTo(o, s)
  BY <1>1 DEF StepTo
<1>2. CASE GraphFails(o)
  BY <1>2 DEF GraphFails, GraphEnds, Goto, Forget, LoopState, Step
<1>3. CASE GraphStops(o)
  BY <1>3 DEF GraphStops, GraphEnds, Goto, Forget, LoopState, Step
<1>4. CASE Advance(o) /\ UNCHANGED pc /\ at[o] \in Writes
  <2>1. at[o] + 1 \in 1 .. NumWrites + 1
    BY <1>4 DEF Writes
  <2> QED  BY <1>4, <2>1 DEF Advance, Step
<1>5. CASE UNCHANGED <<pc, attemptVars>>
  BY <1>5 DEF attemptVars
<1> QED  BY <1>1, <1>2, <1>3, <1>4, <1>5

\* The initial state is typed: the job row as create_run leaves it, no records.
LEMMA TypeInit == Init => TypeOK
<1> SUFFICES ASSUME Init PROVE TypeOK
  OBVIOUS
<1> USE JobStoreAssumption, ExternalWriteAssumption DEF Init, LoopInit
<1>1. job \in Jobs
  BY DEF Jobs, JobStatus, EndedStatus, NoLease, CreatedJob
<1>2. AttemptTyped
  BY DEF AttemptTyped, LoopState, Step
<1>3. RecordsTyped
  <2>1. NoApproval \in Approvals
    BY DEF Approvals, ApprovalStatus, NoApproval
  <2> QED  BY <2>1 DEF RecordsTyped
<1> QED  BY <1>1, <1>2, <1>3 DEF TypeOK, AttemptTyped, RecordsTyped

\* A closed row, and the run that ends with it.
LEMMA CloseTyped ==
  ASSUME job \in Jobs, RecordsTyped, NEW w \in Writes,
         NEW status \in ApprovalStatus, Close(w, status)
  PROVE  job' \in Jobs /\ approval' \in [Writes -> Approvals] /\ terminal' \in BOOLEAN
<1>1. job' \in Jobs
  BY JobWritesTyped DEF Close
<1>2. approval' \in [Writes -> Approvals]
  <2>1. 0 \in 0 .. ApprovalTime
    BY ExternalWriteAssumption
  <2> QED  BY <2>1 DEF Close, RecordsTyped, Approvals
<1> QED  BY <1>1, <1>2 DEF Close

\* Every action keeps the types: of the job row, of the attempts, of the records.
LEMMA TypeStep == TypeOK /\ [Next]_vars => TypeOK'
<1> SUFFICES ASSUME TypeOK, [Next]_vars
             PROVE  job' \in Jobs /\ AttemptTyped' /\ RecordsTyped'
  BY DEF TypeOK, AttemptTyped, RecordsTyped
<1>a. job \in Jobs /\ AttemptTyped /\ RecordsTyped
  BY DEF TypeOK, AttemptTyped, RecordsTyped
<1> DEFINE Goal == job' \in Jobs /\ AttemptTyped' /\ RecordsTyped'
<1>b. UNCHANGED <<runVars, sent>> => RecordsTyped'
  BY <1>a DEF RecordsTyped, runVars
<1>1. ASSUME NEW o \in Owners, Restore(o) \/ LookupResult(o) \/ Response(o) \/ SendFails(o)
                                 \/ Resolve(o) \/ StoreError(o) \/ RunTimeout(o)
      PROVE  Goal
  <2>1. UNCHANGED <<job, runVars, sent>>
    BY <1>1 DEF Restore, LookupResult, Response, SendFails, Resolve, StoreError, RunTimeout
  <2>2. GraphFails(o) \/ \E s \in Step : StepTo(o, s)
    BY <1>1 DEF Restore, LookupResult, Response, SendFails, Resolve, StoreError,
         RunTimeout, Step
  <2> QED  BY <1>a, <1>b, <2>1, <2>2, MoveTyped DEF Step
<1>2. ASSUME NEW o \in Owners, ClaimNext(o) PROVE Goal
  BY <1>a, <1>b, <1>2, LoopTyped DEF ClaimNext, AttemptTyped, attemptVars
<1>3. ASSUME NEW o \in Owners, LoadDocument(o) PROVE Goal
  BY <1>a, <1>3 DEF LoadDocument, Goto, AttemptTyped, RecordsTyped, LoopState, runVars
<1>4. ASSUME NEW o \in Owners, LoopStep(o) PROVE Goal
  <2>1. job' \in Jobs /\ pc' \in [Owners -> LoopState]
    BY <1>a, <1>4, LoopTyped DEF LoopStep, AttemptTyped
  <2>2. UNCHANGED attemptVars \/ Forget(o)
    BY <1>4 DEF LoopStep
  <2>3. AttemptTyped'
    BY <1>a, <2>1, <2>2, ExternalWriteAssumption DEF AttemptTyped, attemptVars, Forget, Step
  <2> QED  BY <1>b, <1>4, <2>1, <2>3 DEF LoopStep
<1>5. ASSUME NEW o \in Owners, Killed(o) \/ FinishSuccess(o) PROVE Goal
  <2>1. job' \in Jobs /\ pc' \in [Owners -> LoopState]
    BY <1>a, <1>5, LoopTyped DEF Killed, FinishSuccess, AttemptTyped
  <2>2. Forget(o) /\ UNCHANGED <<runVars, sent>>
    BY <1>5 DEF Killed, FinishSuccess
  <2>3. AttemptTyped'
    BY <1>a, <2>1, <2>2, ExternalWriteAssumption DEF AttemptTyped, Forget, Step
  <2> QED  BY <1>b, <2>1, <2>2, <2>3
<1>6. ASSUME NEW o \in Owners, MarkWrite(o) \/ SettleWrite(o) \/ CompleteApproval(o) PROVE Goal
  <2>1. at[o] \in Writes /\ UNCHANGED job
    BY <1>6 DEF MarkWrite, SettleWrite, CompleteApproval, InGraph
  <2>2. RecordsTyped'
    BY <1>a, <1>6, <2>1 DEF MarkWrite, SettleWrite, CompleteApproval, RecordsTyped,
         Approvals, ApprovalStatus
  <2>3. GraphFails(o) \/ \E s \in Step : StepTo(o, s)
    BY <1>6 DEF MarkWrite, SettleWrite, CompleteApproval, Step
  <2> QED  BY <1>a, <2>1, <2>2, <2>3, MoveTyped DEF Step
<1>7. ASSUME NEW o \in Owners, Send(o) PROVE Goal
  <2>1. sent' \in [Writes -> Nat]
    BY <1>a, <1>7 DEF Send, InGraph, RecordsTyped
  <2>2. RecordsTyped' /\ UNCHANGED job
    BY <1>a, <1>7, <2>1 DEF Send, RecordsTyped, runVars
  <2> QED  BY <1>a, <1>7, <2>2, MoveTyped DEF Send, Step
<1>8. ASSUME NEW o \in Owners, Begin(o) PROVE Goal
  <2>1. approval' \in [Writes -> Approvals]
    BY <1>a, <1>8, ExternalWriteAssumption
       DEF Begin, InGraph, RecordsTyped, Approvals, ApprovalStatus
  <2>2. RecordsTyped' /\ UNCHANGED job
    BY <1>a, <1>8, <2>1 DEF Begin, RecordsTyped, InGraph
  <2> QED  BY <1>a, <1>8, <2>2, MoveTyped DEF Begin, Step
<1>9. ASSUME NEW o \in Owners, BeginRefused(o) PROVE Goal
  <2>1. GraphFails(o) \/ \E s \in Step : StepTo(o, s)
    BY <1>9 DEF BeginRefused, Step
  <2>2. at[o] \in Writes /\ UNCHANGED <<checkpoints, writeNodes, results, sent>>
    BY <1>9 DEF BeginRefused, InGraph
  <2>3. Close(at[o], "expired") \/ UNCHANGED <<job, approval, terminal>>
    BY <1>9 DEF BeginRefused
  <2>4. job' \in Jobs /\ RecordsTyped'
    BY <1>a, <2>2, <2>3, CloseTyped DEF RecordsTyped, ApprovalStatus
  <2> QED  BY <1>a, <2>1, <2>4, MoveTyped DEF Step
<1>10. ASSUME NEW o \in Owners, Pause(o) PROVE Goal
  <2>1. job' \in Jobs
    BY <1>a, <1>10, JobWritesTyped DEF Pause
  <2>2. approval' \in [Writes -> Approvals]
    <3>1. [status |-> "pending", left |-> ApprovalTime, owns |-> FALSE] \in Approvals
      BY ExternalWriteAssumption DEF Approvals, ApprovalStatus
    <3> QED  BY <1>a, <1>10, <3>1 DEF Pause, RecordsTyped
  <2>3. AttemptTyped'
    BY <1>a, <1>10, ExternalWriteAssumption
       DEF Pause, AttemptTyped, Forget, Goto, GraphEnds, LoopState, Step
  <2> QED  BY <1>a, <1>10, <2>1, <2>2, <2>3 DEF Pause, RecordsTyped
<1>11. ASSUME NEW o \in Owners, EmitSuccess(o) PROVE Goal
  <2>1. at[o] \in Writes /\ UNCHANGED job
    BY <1>11 DEF EmitSuccess
  <2>2. RecordsTyped'
    BY <1>a, <1>11, <2>1 DEF EmitSuccess, RecordsTyped
  <2>3. (Advance(o) /\ UNCHANGED pc) \/ GraphStops(o)
    BY <1>11 DEF EmitSuccess
  <2> QED  BY <1>a, <2>1, <2>2, <2>3, MoveTyped DEF Step
<1>12. ASSUME NEW o \in Owners, NodeFailed(o) PROVE Goal
  <2>1. at[o] \in Writes /\ UNCHANGED <<job, runVars, sent>>
    BY <1>12 DEF NodeFailed, InGraph
  <2>2. (Advance(o) /\ UNCHANGED pc) \/ GraphStops(o) \/ GraphFails(o)
    BY <1>12 DEF NodeFailed
  <2> QED  BY <1>a, <1>b, <2>1, <2>2, MoveTyped DEF Step
<1>13. ASSUME NEW w \in Writes, Decide(w) \/ ExpirePending(w) PROVE Goal
  <2>1. job' \in Jobs /\ approval' \in [Writes -> Approvals] /\ terminal' \in BOOLEAN
    <3>1. CASE \E status \in ApprovalStatus : Close(w, status)
      BY <1>a, <3>1, CloseTyped
    <3>2. CASE /\ approval' = [approval EXCEPT ![w].status = "approved"]
               /\ RequeueJob /\ UNCHANGED terminal
      BY <1>a, <3>2, JobWritesTyped DEF RecordsTyped, Approvals, ApprovalStatus
    <3> QED  BY <1>13, <3>1, <3>2 DEF Decide, ExpirePending, ApprovalStatus
  <2>2. UserUnchanged
    BY <1>13 DEF Decide, ExpirePending
  <2> QED  BY <1>a, <2>1, <2>2 DEF UserUnchanged, AttemptTyped, RecordsTyped, attemptVars
<1>14. ASSUME RequestCancel \/ ResumeRun \/ Tick PROVE Goal
  <2>1. job' \in Jobs
    BY <1>a, <1>14, JobWritesTyped DEF RequestCancel, ResumeRun, Tick
  <2>2. approval' \in [Writes -> Approvals]
    <3>1. CASE RequestCancel
      <4>1. \A w \in Writes :
              [approval[w] EXCEPT !.status = "cancelled", !.left = 0] \in Approvals
        <5>1. 0 \in 0 .. ApprovalTime /\ "cancelled" \in ApprovalStatus
          BY ExternalWriteAssumption DEF ApprovalStatus
        <5> QED  BY <1>a, <5>1 DEF RecordsTyped, Approvals
      <4> QED  BY <1>a, <3>1, <4>1 DEF RequestCancel, RecordsTyped
    <3>2. CASE ResumeRun
      BY <1>a, <3>2 DEF ResumeRun, RecordsTyped
    <3>3. CASE Tick
      <4>1. \A w \in Writes : approval[w].left > 0 =>
              [approval[w] EXCEPT !.left = @ - 1] \in Approvals
        BY <1>a, ExternalWriteAssumption DEF RecordsTyped, Approvals
      <4> QED  BY <1>a, <3>3, <4>1 DEF Tick, RecordsTyped
    <3> QED  BY <1>14, <3>1, <3>2, <3>3
  <2>3. terminal' \in BOOLEAN /\ UserUnchanged
    BY <1>a, <1>14 DEF RequestCancel, ResumeRun, Tick, RecordsTyped
  <2> QED  BY <1>a, <2>1, <2>2, <2>3 DEF UserUnchanged, AttemptTyped, RecordsTyped, attemptVars
<1>15. CASE UNCHANGED vars
  BY <1>a, <1>15 DEF vars, AttemptTyped, RecordsTyped
<1> QED
  BY <1>1, <1>2, <1>3, <1>4, <1>5, <1>6, <1>7, <1>8, <1>9, <1>10, <1>11, <1>12,
     <1>13, <1>14, <1>15 DEF Next, Attempt

\* The type invariant holds in every reachable state.
THEOREM TypeCorrect == Spec => []TypeOK
BY TypeInit, TypeStep, PTL DEF Spec

-----------------------------------------------------------------------------
(***************************************************************************)
(* Safety.  SentAtMostOnce is not inductive: it rests on what stands       *)
(* between a write and a second request for it.  A marker is set by the    *)
(* holder of the run only; a holder that has read the document found no    *)
(* marker there, and so all markers are its own, of nodes it has passed or *)
(* is at; a marker is taken away only together with a recorded outcome; a  *)
(* recorded outcome is returned instead of a request.                      *)
(***************************************************************************)

\* The attempt has a marked write on its hands, and has not settled it.
Active(o) ==
  \E s \in {"marked", "begun", "sent", "answered"} : InGraph(o, s)

\* At these steps the handler has not marked the current node.
Unmarked == {"next", "checked", "resolved", "pausing"}

\* What is known of one attempt, whether or not it still holds the run ...
AttemptSafe(o) ==
  /\ pc[o] \notin {"graph", "orphan", "stopping"} => step[o] = "next"
  /\ restored[o] \subseteq checkpoints
  /\ Active(o) => at[o] \in writeNodes
  /\ InGraph(o, "marked") \/ InGraph(o, "begun") => sent[at[o]] = 0
  /\ InGraph(o, "sent") \/ InGraph(o, "answered") => sent[at[o]] > 0
  /\ InGraph(o, "checked") => at[o] \notin Gated
  /\ InGraph(o, "resolved") \/ InGraph(o, "pausing") => at[o] \in Gated
  /\ step[o] = "delivered" /\ at[o] \in Writes => Settled(at[o])

\* ... and of the attempt that holds it.
HolderSafe(o) ==
  Holds(o) =>
    /\ pc[o] \in {"loaded", "graph", "orphan"} =>
         \A w \in writeNodes : w < at[o] \/ (w = at[o] /\ step[o] \notin Unmarked)
    /\ InGraph(o, "checked") => at[o] \notin results

\* What is known of the records of the run.
RecordsSafe ==
  /\ \A w \in Writes : Settled(w) => w \notin writeNodes
  /\ \A w \in checkpoints : Settled(w)
  /\ results \cap Gated = {}
  /\ \A w \in Writes : /\ approval[w].status # "none" => w \in Gated
                       /\ approval[w].status = "executing" => approval[w].owns

\* No two attempts have the same write on their hands.
OneAttemptPerWrite ==
  \A o, p \in Owners : Active(o) /\ Active(p) /\ at[o] = at[p] => o = p

IInv ==
  /\ TypeOK
  /\ \A o \in Owners : AttemptSafe(o) /\ HolderSafe(o)
  /\ RecordsSafe
  /\ OneAttemptPerWrite
  /\ SentAtMostOnce
  /\ OutcomeOnRecord

\* A run that was just created satisfies the inductive invariant.
LEMMA InductiveInit == Init => IInv
<1> SUFFICES ASSUME Init PROVE IInv
  OBVIOUS
<1> USE DEF Init, LoopInit, CreatedJob
<1>1. TypeOK
  BY TypeInit
<1>2. ASSUME NEW o \in Owners PROVE AttemptSafe(o) /\ HolderSafe(o)
  BY JobStoreAssumption DEF AttemptSafe, HolderSafe, Holds, InGraph, Executing, Active
<1>3. RecordsSafe /\ OutcomeOnRecord /\ SentAtMostOnce
  BY DEF RecordsSafe, OutcomeOnRecord, SentAtMostOnce, Settled, NoApproval
<1>4. OneAttemptPerWrite
  BY DEF OneAttemptPerWrite, Active, InGraph, Executing
<1> QED  BY <1>1, <1>2, <1>3, <1>4 DEF IInv

-----------------------------------------------------------------------------
(* What an attempt does to the others and to the records.                  *)

SameAttempt(o) ==
  /\ pc'[o] = pc[o] /\ step'[o] = step[o]
  /\ at'[o] = at[o] /\ restored'[o] = restored[o]

\* Outcomes and checkpoints stay.
OutcomesKept ==
  /\ checkpoints \subseteq checkpoints'
  /\ \A w \in Writes : Settled(w) => Settled(w)'

\* The markers and requests that p changes are its own.
OwnWritesOnly(p) ==
  \A w \in Writes :
    \/ sent'[w] = sent[w] /\ (w \in writeNodes => w \in writeNodes')
    \/ Active(p) /\ at[p] = w /\ sent'[w] >= sent[w]

\* Only the holder adds a marker or an outcome.
AddsIfHolder(p) ==
  (writeNodes' \subseteq writeNodes /\ results' = results) \/ Holds(p)

\* The actions of the handler, by how they move their attempt.
LEMMA HandlerMoves ==
  ASSUME NEW p \in Owners,
         \/ Restore(p) \/ LookupResult(p) \/ MarkWrite(p) \/ Send(p) \/ Response(p)
         \/ SendFails(p) \/ SettleWrite(p) \/ Resolve(p) \/ Begin(p) \/ BeginRefused(p)
         \/ CompleteApproval(p) \/ EmitSuccess(p) \/ NodeFailed(p) \/ StoreError(p)
         \/ RunTimeout(p)
  PROVE  \/ \E s \in Step : StepTo(p, s)
         \/ GraphFails(p) \/ GraphStops(p) \/ (Advance(p) /\ UNCHANGED pc)
BY DEF Step, Restore, LookupResult, MarkWrite, Send, Response, SendFails, SettleWrite,
       Resolve, Begin, BeginRefused, CompleteApproval, EmitSuccess, NodeFailed,
       StoreError, RunTimeout

\* An action of one attempt leaves the place of every other attempt alone.
LEMMA OthersUnmoved ==
  ASSUME TypeOK, NEW p \in Owners, Attempt(p), NEW o \in Owners, o # p
  PROVE  SameAttempt(o)
<1> USE DEF TypeOK, SameAttempt
<1>1. CASE \E s \in Step : StepTo(p, s)
  BY <1>1 DEF StepTo
<1>2. CASE GraphFails(p) \/ GraphStops(p)
  BY <1>2 DEF GraphFails, GraphStops, GraphEnds, Goto, Forget
<1>3. CASE Advance(p) /\ UNCHANGED pc
  BY <1>3 DEF Advance
<1>4. CASE ClaimNext(p) \/ LoadDocument(p)
  BY <1>4 DEF ClaimNext, Claim, LoadDocument, Goto, attemptVars
<1>5. CASE Killed(p) \/ FinishSuccess(p) \/ Pause(p)
  BY <1>5 DEF Killed, Crash, FinishSuccess, FinishAs, Pause, GraphEnds, Goto, Forget
<1>6. CASE LoopStep(p)
  <2>1. pc'[o] = pc[o]
    BY <1>6 DEF LoopStep, StartGraph, FinishCancelled, FinishFailed, FinishAs, Release,
         Heartbeat, PollCancel, PollError, Shutdown, HandleCancel, Goto
  <2>2. UNCHANGED attemptVars \/ Forget(p)
    BY <1>6 DEF LoopStep
  <2> QED  BY <2>1, <2>2 DEF attemptVars, Forget
<1> QED  BY <1>1, <1>2, <1>3, <1>4, <1>5, <1>6, HandlerMoves DEF Attempt

\* Nobody comes to hold the run but by claiming it.
LEMMA HeldByClaim ==
  ASSUME TypeOK, [Next]_vars, NEW o \in Owners, Holds(o)', ~Holds(o)
  PROVE  ClaimNext(o)
<1> USE DEF Holds, TypeOK, Jobs
<1>1. CASE \E p \in Owners : ClaimNext(p)
  BY <1>1 DEF ClaimNext, Claim, ClaimJob
<1>2. ASSUME NEW p \in Owners, LoopStep(p) PROVE FALSE
  BY <1>2 DEF LoopStep, StartGraph, Heartbeat, RenewLease, PollCancel, PollError,
       Fence, FinishJob, Shutdown, HandleCancel, FinishCancelled, FinishFailed,
       FinishAs, Release, ReleaseJob
<1>3. ASSUME NEW p \in Owners, FinishSuccess(p) \/ Pause(p) \/ BeginRefused(p) PROVE FALSE
  BY <1>3 DEF FinishSuccess, FinishAs, FinishJob, Pause, PauseJob, BeginRefused,
       Close, CloseJob
<1>4. ASSUME NEW w \in Writes, Decide(w) \/ ExpirePending(w) PROVE FALSE
  BY <1>4 DEF Decide, ExpirePending, Close, CloseJob, RequeueJob
<1>5. ASSUME RequestCancel \/ ResumeRun \/ Tick PROVE FALSE
  <2>1. CASE RequestCancel
    BY <2>1 DEF RequestCancel, CancelRequested, EndedStatus
  <2>2. CASE ResumeRun
    BY <2>2 DEF ResumeRun, ResumeJob, CreatedJob
  <2>3. CASE Tick
    BY <2>3 DEF Tick, JobTick
  <2> QED  BY <1>5, <2>1, <2>2, <2>3
<1>6. job' # job
  OBVIOUS
<1> QED
  BY <1>1, <1>2, <1>3, <1>4, <1>5, <1>6
     DEF Next, Attempt, vars, LoadDocument, Killed, Crash, Restore, LookupResult,
         MarkWrite, Send, Response, SendFails, SettleWrite, Resolve, Begin,
         CompleteApproval, EmitSuccess, NodeFailed, StoreError, RunTimeout

\* The actions that leave the records as they are, the waiting approvals apart.
LEMMA QuietEffects ==
  ASSUME TypeOK, UNCHANGED <<checkpoints, writeNodes, results, sent>>,
         \A w \in Writes : approval[w].status = "completed" =>
                            approval'[w].status = "completed"
  PROVE  OutcomesKept /\ \A p \in Owners : OwnWritesOnly(p) /\ AddsIfHolder(p)
BY DEF OutcomesKept, OwnWritesOnly, AddsIfHolder, Settled

\* Users, the sweep and the clock begin, settle and forget no write.
LEMMA UserQuiet ==
  ASSUME TypeOK,
         \/ \E w \in Writes : Decide(w) \/ ExpirePending(w)
         \/ RequestCancel \/ ResumeRun \/ Tick \/ UNCHANGED vars
  PROVE  /\ UserUnchanged
         /\ \A w \in Writes :
              /\ approval[w].status = "none" <=> approval'[w].status = "none"
              /\ approval[w].status = "completed" <=> approval'[w].status = "completed"
              /\ approval[w].status = "executing" <=> approval'[w].status = "executing"
              /\ approval'[w].owns = approval[w].owns
<1> USE DEF TypeOK, Approvals
<1>1. CASE \E w \in Writes : Decide(w) \/ ExpirePending(w)
  <2>1. PICK w \in Writes : Decide(w) \/ ExpirePending(w)
    BY <1>1
  <2>2. UserUnchanged /\ approval[w].status \in {"pending", "approved"}
    BY <2>1 DEF Decide, ExpirePending, Waiting
  <2>3. /\ \A v \in Writes \ {w} : approval'[v] = approval[v]
        /\ approval'[w].status \in {"expired", "rejected", "approved"}
        /\ approval'[w].owns = approval[w].owns
    <3>1. CASE Close(w, "expired") \/ Close(w, "rejected")
      BY <3>1 DEF Close
    <3>2. CASE approval' = [approval EXCEPT ![w].status = "approved"]
      BY <3>2
    <3> QED  BY <2>1, <3>1, <3>2 DEF Decide, ExpirePending
  <2> QED  BY <2>2, <2>3
<1>2. CASE RequestCancel
  <2>1. UserUnchanged
    BY <1>2 DEF RequestCancel
  <2>2. ASSUME NEW w \in Writes
        PROVE  \/ approval'[w] = approval[w]
               \/ /\ approval[w].status \in {"pending", "approved"}
                  /\ approval'[w].status = "cancelled"
                  /\ approval'[w].owns = approval[w].owns
    <3>1. CASE job.status = "running"
      BY <1>2, <3>1 DEF RequestCancel
    <3>2. CASE job.status # "running"
      <4>1. approval'[w] = IF Waiting(w)
              THEN [approval[w] EXCEPT !.status = "cancelled", !.left = 0]
              ELSE approval[w]
        BY <1>2, <3>2 DEF RequestCancel
      <4>2. CASE Waiting(w)
        BY <4>1, <4>2 DEF Waiting
      <4> QED  BY <4>1, <4>2
    <3> QED  BY <3>1, <3>2
  <2> QED  BY <2>1, <2>2
<1>3. CASE ResumeRun \/ UNCHANGED vars
  <2>1. UserUnchanged
    BY <1>3 DEF ResumeRun, vars, UserUnchanged, attemptVars
  <2>2. approval' = approval
    BY <1>3 DEF ResumeRun, vars
  <2> QED  BY <2>1, <2>2
<1>4. CASE Tick
  <2>1. UserUnchanged
    BY <1>4 DEF Tick
  <2>2. ASSUME NEW w \in Writes
        PROVE  approval'[w].status = approval[w].status /\ approval'[w].owns = approval[w].owns
    BY <1>4 DEF Tick
  <2> QED  BY <2>1, <2>2
<1> QED  BY <1>1, <1>2, <1>3, <1>4

\* An action of an attempt keeps outcomes, touches only the write it has on its
\* hands, and adds to the records only under the fence.
LEMMA AttemptEffects ==
  ASSUME TypeOK, NEW p \in Owners, Attempt(p)
  PROVE  OutcomesKept /\ OwnWritesOnly(p) /\ AddsIfHolder(p)
<1> DEFINE Goal == OutcomesKept /\ OwnWritesOnly(p) /\ AddsIfHolder(p)
<1> USE DEF TypeOK
<1>1. CASE UNCHANGED <<runVars, sent>>
  BY <1>1, QuietEffects DEF runVars
<1>2. CASE BeginRefused(p) \/ Pause(p)
  <2>1. \/ approval' = approval
        \/ Close(at[p], "expired") /\ approval[at[p]].status = "approved"
        \/ /\ approval[at[p]].status \in {"none", "pending"}
           /\ \A w \in Writes : w # at[p] => approval'[w] = approval[w]
    BY <1>2 DEF BeginRefused, Pause, InGraph
  <2>2. \A w \in Writes : approval[w].status = "completed" => approval'[w].status = "completed"
    BY <2>1 DEF Close
  <2> QED  BY <1>2, <2>2, QuietEffects DEF BeginRefused, Pause
<1>3. CASE MarkWrite(p)
  <2>1. Holds(p) \/ writeNodes' = writeNodes
    BY <1>3 DEF MarkWrite, Fence, Holds
  <2> QED
    BY <1>3, <2>1 DEF MarkWrite, OutcomesKept, OwnWritesOnly, AddsIfHolder, Settled
<1>4. CASE Send(p)
  <2>1. Active(p) /\ at[p] \in Writes
    BY <1>4 DEF Send, Active, InGraph
  <2> QED
    BY <1>4, <2>1
       DEF Send, OutcomesKept, OwnWritesOnly, AddsIfHolder, Settled, runVars
<1>5. CASE SettleWrite(p)
  <2>1. Active(p) /\ at[p] \in Writes
    BY <1>5 DEF SettleWrite, Active, InGraph
  <2>2. \/ UNCHANGED <<results, writeNodes>>
        \/ /\ Holds(p) /\ results' = results \cup {at[p]}
           /\ writeNodes' = writeNodes \ {at[p]}
    BY <1>5 DEF SettleWrite, Fence, Holds
  <2> QED
    BY <1>5, <2>1, <2>2
       DEF SettleWrite, OutcomesKept, OwnWritesOnly, AddsIfHolder, Settled
<1>6. CASE Begin(p)
  <2>1. /\ at[p] \in Writes /\ Holds(p)
        /\ approval[at[p]].status = "approved"
        /\ \A w \in Writes : w # at[p] => approval'[w] = approval[w]
        /\ writeNodes \subseteq writeNodes'
        /\ UNCHANGED <<checkpoints, results, sent>>
    BY <1>6 DEF Begin, InGraph, Fence, Holds
  <2> QED  BY <2>1 DEF OutcomesKept, OwnWritesOnly, AddsIfHolder, Settled
<1>7. CASE CompleteApproval(p)
  <2>1. Active(p) /\ at[p] \in Writes
    BY <1>7 DEF CompleteApproval, Active, InGraph
  <2>2. /\ UNCHANGED <<checkpoints, results, sent>>
        /\ writeNodes' = writeNodes \/ writeNodes' = writeNodes \ {at[p]}
        /\ \A w \in Writes : approval[w].status = "completed" =>
                             approval'[w].status = "completed"
    BY <1>7, <2>1 DEF CompleteApproval
  <2> QED  BY <2>1, <2>2 DEF OutcomesKept, OwnWritesOnly, AddsIfHolder, Settled
<1>8. CASE EmitSuccess(p)
  BY <1>8 DEF EmitSuccess, OutcomesKept, OwnWritesOnly, AddsIfHolder, Settled
<1> QED
  BY <1>1, <1>2, <1>3, <1>4, <1>5, <1>6, <1>7, <1>8
     DEF Attempt, ClaimNext, LoadDocument, LoopStep, Killed, Restore, LookupResult,
         Response, SendFails, Resolve, NodeFailed, StoreError, RunTimeout, FinishSuccess

-----------------------------------------------------------------------------
(* The attempts that do not move stay safe.                                *)

\* An attempt that stays where it is stays safe while outcomes are kept, its own
\* write is left alone and nobody adds a marker while it holds the run.
LEMMA UnmovedSafe ==
  ASSUME IInv, NEW o \in Owners, SameAttempt(o), Holds(o)' => Holds(o), OutcomesKept,
         NEW p \in Owners, o # p \/ UNCHANGED <<writeNodes, sent>>,
         OwnWritesOnly(p),
         \/ writeNodes' \subseteq writeNodes /\ results' = results
         \/ ~Holds(o)
  PROVE  AttemptSafe(o)' /\ HolderSafe(o)'
<1> USE DEF IInv, SameAttempt
<1>1. \A s \in Step : InGraph(o, s)' <=> InGraph(o, s)
  BY DEF InGraph, Executing
<1>2. Active(o)' <=> Active(o)
  BY <1>1 DEF Active, Step
<1>3. Active(o) => /\ sent'[at[o]] = sent[at[o]]
                   /\ at[o] \in writeNodes => at[o] \in writeNodes'
  BY DEF OwnWritesOnly, OneAttemptPerWrite, Active, InGraph
<1>4. AttemptSafe(o)
  OBVIOUS
<1>5. /\ Active(o)' => at'[o] \in writeNodes'
      /\ InGraph(o, "marked")' \/ InGraph(o, "begun")' => sent'[at'[o]] = 0
      /\ InGraph(o, "sent")' \/ InGraph(o, "answered")' => sent'[at'[o]] > 0
  BY <1>1, <1>2, <1>3, <1>4 DEF AttemptSafe, Active, Step
<1>6. /\ InGraph(o, "checked")' => at'[o] \notin Gated
      /\ InGraph(o, "resolved")' \/ InGraph(o, "pausing")' => at'[o] \in Gated
  BY <1>1, <1>4 DEF AttemptSafe, Step
<1>7. (step[o] = "delivered" /\ at[o] \in Writes => Settled(at[o]))'
  BY <1>4 DEF AttemptSafe, OutcomesKept, Settled
<1>8. AttemptSafe(o)'
  BY <1>4, <1>5, <1>6, <1>7 DEF AttemptSafe, OutcomesKept
<1>9. HolderSafe(o)'
  BY <1>1 DEF HolderSafe, Step
<1> QED  BY <1>8, <1>9

-----------------------------------------------------------------------------
(* The attempt that moves stays safe.                                      *)

\* It has left the graph and forgotten where it was.
LEMMA GoneSafe ==
  ASSUME TypeOK, NEW p \in Owners, Forget(p), pc'[p] \notin {"loaded", "graph", "orphan"}
  PROVE  AttemptSafe(p)' /\ HolderSafe(p)'
<1>1. step'[p] = "next" /\ restored'[p] = {}
  BY DEF Forget, TypeOK
<1>2. \A s \in Step : ~InGraph(p, s)'
  BY DEF InGraph, Executing
<1> QED  BY <1>1, <1>2 DEF AttemptSafe, HolderSafe, Active, Step

\* It has gone on to the next node.
LEMMA AdvancedSafe ==
  ASSUME IInv, NEW p \in Owners, Advance(p), UNCHANGED <<pc, job, writeNodes>>,
         OutcomesKept, at[p] \in Writes
  PROVE  AttemptSafe(p)' /\ HolderSafe(p)'
<1> USE DEF IInv, TypeOK
<1>1. /\ step'[p] = "next" /\ at'[p] = at[p] + 1 /\ restored'[p] \subseteq checkpoints'
      /\ at[p] \in Nat /\ writeNodes \subseteq Nat
  BY DEF Advance, AttemptSafe, OutcomesKept, Writes
<1>2. \A s \in Step \ {"next"} : ~InGraph(p, s)'
  BY <1>1 DEF InGraph
<1>3. AttemptSafe(p)'
  BY <1>1, <1>2 DEF AttemptSafe, Active, Step
<1>4. HolderSafe(p)'
  BY <1>1, <1>2 DEF HolderSafe, Holds, Step
<1> QED  BY <1>3, <1>4

\* It has gone on to a step at which it has no write on its hands.
LEMMA RestingSafe ==
  ASSUME IInv, NEW p \in Owners, NEW s \in {"refused", "pausing", "delivered"},
         StepTo(p, s), Executing(p), OutcomesKept, writeNodes' \subseteq writeNodes,
         Holds(p)' => Holds(p),
         s = "pausing" => step[p] = "next" /\ at[p] \in Gated,
         s = "delivered" => Settled(at[p])'
  PROVE  AttemptSafe(p)' /\ HolderSafe(p)'
<1> USE DEF IInv, TypeOK
<1>1. step'[p] = s /\ at'[p] = at[p] /\ pc'[p] = pc[p] /\ restored'[p] = restored[p]
  BY DEF StepTo
<1>2. \A t \in Step \ {"refused", "pausing", "delivered"} : ~InGraph(p, t)'
  BY <1>1 DEF InGraph
<1>3. AttemptSafe(p)'
  <2>1. restored'[p] \subseteq checkpoints'
    BY <1>1 DEF AttemptSafe, OutcomesKept
  <2>2. pc'[p] \in {"graph", "orphan"}
    BY <1>1 DEF Executing
  <2>3. (step[p] = "delivered" /\ at[p] \in Writes => Settled(at[p]))'
    BY <1>1
  <2>4. InGraph(p, "pausing")' => at'[p] \in Gated
    BY <1>1 DEF InGraph
  <2> QED  BY <1>2, <2>1, <2>2, <2>3, <2>4 DEF AttemptSafe, Active, Step
<1>4. HolderSafe(p)'
  BY <1>1, <1>2 DEF HolderSafe, Unmarked, Step, Executing
<1> QED  BY <1>3, <1>4

\* The holder finds no marker at a node it has not marked, nor any trace of a
\* request for it.
LEMMA UntouchedBefore ==
  ASSUME IInv, NEW p \in Owners, Holds(p), Executing(p), at[p] \in Writes,
         step[p] \in Unmarked
  PROVE  /\ at[p] \notin writeNodes
         /\ ~Settled(at[p]) => sent[at[p]] = 0
<1> USE DEF IInv, TypeOK
<1>1. at[p] \notin writeNodes
  BY DEF HolderSafe, Executing, Writes
<1> QED  BY <1>1 DEF OutcomeOnRecord

\* mark_write: the holder marks a write that had no marker, outcome or request.
LEMMA MarkedSafe ==
  ASSUME IInv, NEW p \in Owners, MarkWrite(p), Fence(p)
  PROVE  /\ AttemptSafe(p)' /\ HolderSafe(p)'
         /\ at[p] \notin writeNodes /\ ~Settled(at[p]) /\ sent[at[p]] = 0
<1> USE DEF IInv, TypeOK
<1>1. /\ Holds(p) /\ InGraph(p, "checked") /\ at[p] \in Writes /\ Executing(p)
      /\ step[p] = "checked"
      /\ step'[p] = "marked" /\ at'[p] = at[p] /\ pc'[p] = pc[p] /\ restored'[p] = restored[p]
      /\ writeNodes' = writeNodes \cup {at[p]}
      /\ UNCHANGED <<job, checkpoints, results, approval, sent>>
  BY DEF MarkWrite, InGraph, StepTo, Fence, Holds
<1>2. ~Settled(at[p])
  BY <1>1 DEF HolderSafe, AttemptSafe, RecordsSafe, Settled
<1>3. at[p] \notin writeNodes /\ sent[at[p]] = 0
  BY <1>1, <1>2, UntouchedBefore DEF Unmarked
<1>4. \A t \in Step \ {"marked"} : ~InGraph(p, t)'
  BY <1>1 DEF InGraph
<1>5. AttemptSafe(p)'
  BY <1>1, <1>3, <1>4 DEF AttemptSafe, Active, Executing, Step
<1>6. HolderSafe(p)'
  BY <1>1, <1>4 DEF HolderSafe, Unmarked, Executing, Step
<1> QED  BY <1>2, <1>3, <1>5, <1>6

\* approvals.begin: the same of a gated write.
LEMMA BegunSafe ==
  ASSUME IInv, NEW p \in Owners, Begin(p)
  PROVE  /\ AttemptSafe(p)' /\ HolderSafe(p)'
         /\ at[p] \notin writeNodes /\ ~Settled(at[p]) /\ sent[at[p]] = 0
<1> USE DEF IInv, TypeOK
<1>1. /\ Holds(p) /\ InGraph(p, "resolved") /\ at[p] \in Writes /\ Executing(p)
      /\ step[p] = "resolved"
      /\ step'[p] = "begun" /\ at'[p] = at[p] /\ pc'[p] = pc[p] /\ restored'[p] = restored[p]
      /\ writeNodes' = writeNodes \cup {at[p]}
      /\ approval[at[p]].status = "approved"
      /\ UNCHANGED <<job, checkpoints, results, sent>>
  BY DEF Begin, InGraph, StepTo, Fence, Holds
<1>2. ~Settled(at[p])
  BY <1>1 DEF AttemptSafe, RecordsSafe, Settled
<1>3. at[p] \notin writeNodes /\ sent[at[p]] = 0
  BY <1>1, <1>2, UntouchedBefore DEF Unmarked
<1>4. \A t \in Step \ {"begun"} : ~InGraph(p, t)'
  BY <1>1 DEF InGraph
<1>5. AttemptSafe(p)'
  BY <1>1, <1>3, <1>4 DEF AttemptSafe, Active, Executing, Step
<1>6. HolderSafe(p)'
  BY <1>1, <1>4 DEF HolderSafe, Unmarked, Executing, Step
<1> QED  BY <1>2, <1>3, <1>5, <1>6

\* Between marker and response the marker is there, and before it no request.
LEMMA SentSafe ==
  ASSUME IInv, NEW p \in Owners, Send(p) \/ Response(p)
  PROVE  /\ AttemptSafe(p)' /\ HolderSafe(p)'
         /\ at[p] \in writeNodes
         /\ Send(p) => sent[at[p]] = 0
<1> USE DEF IInv, TypeOK
<1>1. /\ at[p] \in Writes /\ Executing(p) /\ Active(p)
      /\ step[p] \in {"marked", "begun", "sent"}
      /\ step'[p] \in {"sent", "answered"}
      /\ at'[p] = at[p] /\ pc'[p] = pc[p] /\ restored'[p] = restored[p]
      /\ UNCHANGED <<job, checkpoints, writeNodes, results, approval>>
  BY DEF Send, Response, InGraph, StepTo, Active, runVars
<1>2. sent'[at[p]] > 0 /\ (Send(p) => sent[at[p]] = 0)
  <2>1. CASE Send(p)
    BY <1>1, <2>1 DEF Send, AttemptSafe
  <2>2. CASE Response(p) /\ ~Send(p)
    BY <1>1, <2>2 DEF Response, AttemptSafe
  <2> QED  BY <2>1, <2>2
<1>3. at[p] \in writeNodes
  BY <1>1 DEF AttemptSafe
<1>4. \A t \in Step \ {"sent", "answered"} : ~InGraph(p, t)'
  BY <1>1 DEF InGraph
<1>5. AttemptSafe(p)'
  BY <1>1, <1>2, <1>3, <1>4 DEF AttemptSafe, Active, Executing, Step
<1>6. HolderSafe(p)'
  BY <1>1, <1>4 DEF HolderSafe, Holds, Unmarked, Executing, Step
<1> QED  BY <1>2, <1>3, <1>5, <1>6

\* The lookup of a stored outcome found none.
LEMMA CheckedSafe ==
  ASSUME IInv, NEW p \in Owners,
         \/ LookupResult(p) /\ StepTo(p, "checked")
         \/ Resolve(p) /\ StepTo(p, "resolved")
  PROVE  AttemptSafe(p)' /\ HolderSafe(p)'
<1> USE DEF IInv, TypeOK
<1>1. /\ at[p] \in Writes /\ Executing(p) /\ step[p] = "next"
      /\ at'[p] = at[p] /\ pc'[p] = pc[p] /\ restored'[p] = restored[p]
      /\ UNCHANGED <<job, checkpoints, writeNodes, results, approval, sent>>
  BY DEF LookupResult, Resolve, InGraph, StepTo, runVars
<1>2. \/ step'[p] = "checked" /\ at[p] \notin Gated \cup results
      \/ step'[p] = "resolved" /\ at[p] \in Gated
  BY DEF LookupResult, Resolve, StepTo
<1>3. \A t \in Step \ {"checked", "resolved"} : ~InGraph(p, t)'
  BY <1>2 DEF InGraph
<1>4. AttemptSafe(p)'
  BY <1>1, <1>2, <1>3 DEF AttemptSafe, Active, Executing, InGraph, Step
<1>5. HolderSafe(p)'
  BY <1>1, <1>2, <1>3 DEF HolderSafe, Holds, Unmarked, Executing, InGraph, Step
<1> QED  BY <1>4, <1>5

\* The outer loop: a claim holds nothing, a loaded document shows every marker
\* settled, and the rest of the loop only ends attempts.
LEMMA LoopSafe ==
  ASSUME IInv, NEW p \in Owners, ClaimNext(p) \/ LoadDocument(p) \/ LoopStep(p)
  PROVE  AttemptSafe(p)' /\ HolderSafe(p)'
<1> USE DEF IInv, TypeOK
<1>1. ASSUME UNCHANGED <<runVars, step, at, sent>>, step[p] = "next",
             restored'[p] \subseteq checkpoints,
             Holds(p)' /\ pc'[p] \in {"loaded", "graph", "orphan"} =>
               \A w \in writeNodes : w < at[p]
      PROVE  AttemptSafe(p)' /\ HolderSafe(p)'
  <2>1. \A t \in Step \ {"next"} : ~InGraph(p, t)'
    BY <1>1 DEF InGraph
  <2> QED  BY <1>1, <2>1 DEF AttemptSafe, HolderSafe, Active, Step, runVars
<1>2. CASE ClaimNext(p)
  <2>1. step[p] = "next" /\ pc'[p] = "claimed" /\ UNCHANGED <<runVars, attemptVars, sent>>
    BY <1>2 DEF ClaimNext, Claim, Goto, AttemptSafe
  <2> QED  BY <1>1, <2>1 DEF AttemptSafe, attemptVars
<1>3. CASE LoadDocument(p)
  <2>1. step[p] = "next" /\ UNCHANGED <<runVars, step, at, sent>>
        /\ restored'[p] \subseteq checkpoints
    BY <1>3 DEF LoadDocument, AttemptSafe
  <2>2. pc'[p] \in {"loaded", "graph", "orphan"} => writeNodes = {}
    BY <1>3 DEF LoadDocument, WritesSettled, Goto, RecordsSafe
  <2> QED  BY <1>1, <2>1, <2>2
<1>4. CASE LoopStep(p) /\ pc[p] = "loaded"
  <2>1. step[p] = "next" /\ UNCHANGED <<runVars, attemptVars, sent>> /\ (Holds(p)' => Holds(p))
    BY <1>4 DEF LoopStep, AttemptSafe, StartGraph, FinishCancelled, FinishFailed,
         FinishAs, Release, Heartbeat, PollCancel, PollError, Shutdown, HandleCancel, Holds
  <2> QED  BY <1>1, <1>4, <2>1 DEF AttemptSafe, HolderSafe, Unmarked, attemptVars
<1>5. CASE HandleCancel(p) /\ Forget(p)
  BY <1>5, GoneSafe DEF HandleCancel, Goto
<1>6. CASE LoopStep(p) /\ pc[p] # "loaded" /\ ~(HandleCancel(p) /\ Forget(p))
  <2>1. UNCHANGED <<runVars, attemptVars, sent>>
    BY <1>6 DEF LoopStep
  <2>2. Holds(p)' => Holds(p)
    BY <1>6, HeldByClaim DEF LoopStep, FinishCancelled, FinishFailed, FinishAs, Release,
         Heartbeat, PollCancel, PollError, Shutdown, StartGraph, ClaimNext, Claim, Next, Attempt
  <2>3. \/ pc[p] = "graph" /\ pc'[p] \in {"graph", "orphan"}
        \/ pc'[p] = "stopping"
        \/ pc'[p] = "idle" /\ pc[p] \in {"cancelling", "failing", "releasing"}
    BY <1>6 DEF LoopStep, FinishCancelled, FinishFailed, FinishAs, Release,
         Heartbeat, PollCancel, PollError, Shutdown, StartGraph, Goto
  <2>4. UNCHANGED <<checkpoints, writeNodes, results, approval, sent, step, at, restored>>
    BY <2>1 DEF runVars, attemptVars
  <2>5. \A t \in Step : InGraph(p, t)' => InGraph(p, t)
    BY <2>3, <2>4 DEF InGraph, Executing
  <2>6. AttemptSafe(p)'
    BY <2>3, <2>4, <2>5 DEF AttemptSafe, Active, Step, Settled
  <2>7. HolderSafe(p)'
    BY <2>2, <2>3, <2>4, <2>5 DEF HolderSafe, Step
  <2> QED  BY <2>6, <2>7
<1> QED  BY <1>2, <1>3, <1>4, <1>5, <1>6

\* Every action of an attempt leaves that attempt safe.
LEMMA OwnSafe ==
  ASSUME IInv, NEW p \in Owners, Attempt(p)
  PROVE  AttemptSafe(p)' /\ HolderSafe(p)'
<1> DEFINE Goal == AttemptSafe(p)' /\ HolderSafe(p)'
<1> USE DEF IInv
<1>a. OutcomesKept
  BY AttemptEffects
<1>b. Holds(p)' => Holds(p) \/ ClaimNext(p)
  BY HeldByClaim DEF Next
<1>c. ASSUME GraphFails(p) \/ GraphStops(p), Executing(p) \/ pc[p] = "stopping"
      PROVE  Goal
  <2>1. Forget(p) /\ pc'[p] \in {"idle", "failing", "stopping"}
    BY <1>c DEF GraphFails, GraphStops, GraphEnds, Goto, Executing, TypeOK
  <2> QED  BY <2>1, GoneSafe
<1>d. ASSUME StepTo(p, "refused"), Executing(p), writeNodes' = writeNodes,
             Holds(p)' => Holds(p)
      PROVE  Goal
  BY <1>a, <1>d, RestingSafe
<1>e. ASSUME StepTo(p, "delivered"), Executing(p), writeNodes' \subseteq writeNodes,
             UNCHANGED job,
             at[p] \in results' \/ approval'[at[p]].status = "completed"
      PROVE  Goal
  <2>1. Holds(p)' => Holds(p)
    BY <1>e DEF Holds
  <2>2. Settled(at[p])'
    BY <1>e DEF StepTo, Settled
  <2> QED  BY <1>a, <1>e, <2>1, <2>2, RestingSafe
<1>1. CASE ClaimNext(p) \/ LoadDocument(p) \/ LoopStep(p)
  BY <1>1, LoopSafe
<1>2. CASE Killed(p) \/ FinishSuccess(p)
  <2>1. Forget(p) /\ pc'[p] = "idle"
    BY <1>2 DEF Killed, Crash, FinishSuccess, FinishAs, Goto, TypeOK
  <2> QED  BY <2>1, GoneSafe
<1>3. CASE Pause(p)
  <2>1. Forget(p) /\ pc'[p] \in {"idle", "cancelling", "failing"}
    BY <1>3 DEF Pause, InGraph, Executing, GraphEnds, Goto, TypeOK
  <2> QED  BY <2>1, GoneSafe
<1>4. CASE SendFails(p) \/ RunTimeout(p)
  BY <1>4, <1>c DEF SendFails, RunTimeout, InGraph
<1>5. CASE Restore(p)
  <2>1. at[p] \in results' \/ approval'[at[p]].status = "completed"
    BY <1>5 DEF Restore, AttemptSafe, RecordsSafe, Settled, runVars
  <2> QED  BY <1>5, <1>e, <2>1 DEF Restore, InGraph, runVars
<1>6. CASE LookupResult(p)
  <2>1. Executing(p) /\ UNCHANGED <<job, writeNodes, results>>
    BY <1>6 DEF LookupResult, InGraph, runVars
  <2>2. CASE at[p] \in results
    BY <1>6, <1>e, <2>1, <2>2 DEF LookupResult
  <2>3. CASE StepTo(p, "checked")
    BY <1>6, <2>3, CheckedSafe
  <2>4. CASE StepTo(p, "refused")
    BY <1>d, <2>1, <2>4 DEF Holds
  <2> QED  BY <1>6, <2>2, <2>3, <2>4 DEF LookupResult
<1>7. CASE MarkWrite(p)
  <2>1. CASE Fence(p)
    BY <1>7, <2>1, MarkedSafe
  <2>2. CASE ~Fence(p)
    BY <1>7, <1>d, <2>2 DEF MarkWrite, InGraph, Holds
  <2> QED  BY <2>1, <2>2
<1>8. CASE Send(p) \/ Response(p)
  BY <1>8, SentSafe
<1>9. CASE SettleWrite(p)
  <2>1. CASE Fence(p)
    BY <1>9, <1>e, <2>1 DEF SettleWrite, InGraph
  <2>2. CASE ~Fence(p)
    BY <1>9, <1>d, <2>2 DEF SettleWrite, InGraph, Holds
  <2> QED  BY <2>1, <2>2
<1>10. CASE Resolve(p)
  <2>1. /\ Executing(p) /\ step[p] = "next" /\ at[p] \in Gated
        /\ UNCHANGED <<job, writeNodes, approval, results>>
    BY <1>10 DEF Resolve, InGraph, runVars
  <2>2. CASE StepTo(p, "refused")
    BY <1>d, <2>1, <2>2 DEF Holds
  <2>3. CASE StepTo(p, "pausing")
    BY <1>a, <2>1, <2>3, RestingSafe DEF Holds
  <2>4. CASE StepTo(p, "resolved")
    BY <1>10, <2>4, CheckedSafe
  <2>5. CASE StepTo(p, "delivered") /\ approval[at[p]].status = "completed"
    BY <1>e, <2>1, <2>5
  <2> QED  BY <1>10, <2>2, <2>3, <2>4, <2>5 DEF Resolve
<1>11. CASE Begin(p)
  BY <1>11, BegunSafe
<1>12. CASE BeginRefused(p)
  <2>1. CASE GraphFails(p)
    BY <1>12, <1>c, <2>1 DEF BeginRefused, InGraph
  <2>2. CASE StepTo(p, "refused")
    <3>1. ~ClaimNext(p)
      BY <1>12 DEF BeginRefused, InGraph, Executing, ClaimNext, Claim
    <3> QED  BY <1>12, <1>b, <1>d, <2>2, <3>1 DEF BeginRefused, InGraph
  <2> QED  BY <1>12, <2>1, <2>2 DEF BeginRefused
<1>13. CASE CompleteApproval(p)
  <2>1. CASE GraphFails(p)
    BY <1>13, <1>c, <2>1 DEF CompleteApproval, InGraph
  <2>2. CASE StepTo(p, "delivered") /\ approval' = [approval EXCEPT ![at[p]].status = "completed"]
    <3>1. at[p] \in Writes /\ Executing(p) /\ UNCHANGED job /\ writeNodes' \subseteq writeNodes
      BY <1>13 DEF CompleteApproval, InGraph
    <3>2. approval'[at[p]].status = "completed"
      BY <2>2, <3>1 DEF TypeOK, Approvals
    <3> QED  BY <1>e, <2>2, <3>1, <3>2
  <2> QED  BY <1>13, <2>1, <2>2 DEF CompleteApproval
<1>14. CASE EmitSuccess(p) \/ NodeFailed(p)
  <2>1. CASE GraphFails(p) \/ GraphStops(p)
    BY <1>14, <1>c, <2>1 DEF EmitSuccess, NodeFailed, InGraph
  <2>2. CASE Advance(p) /\ UNCHANGED pc
    <3>1. at[p] \in Writes /\ UNCHANGED <<job, writeNodes>>
      BY <1>14 DEF EmitSuccess, NodeFailed, InGraph, runVars
    <3> QED  BY <1>a, <2>2, <3>1, AdvancedSafe
  <2> QED  BY <1>14, <2>1, <2>2 DEF EmitSuccess, NodeFailed
<1>15. CASE StoreError(p)
  <2>1. Executing(p) /\ UNCHANGED <<job, writeNodes>>
    BY <1>15 DEF StoreError, InGraph, runVars
  <2>2. CASE GraphFails(p)
    BY <1>c, <2>1, <2>2
  <2>3. CASE StepTo(p, "refused")
    BY <1>d, <2>1, <2>3 DEF Holds
  <2> QED  BY <1>15, <2>2, <2>3 DEF StoreError
<1> QED
  BY <1>1, <1>2, <1>3, <1>4, <1>5, <1>6, <1>7, <1>8, <1>9, <1>10, <1>11, <1>12, <1>13,
     <1>14, <1>15 DEF Attempt

\* Every action of an attempt leaves the other attempts safe.
LEMMA OthersSafe ==
  ASSUME IInv, NEW p \in Owners, Attempt(p), NEW o \in Owners, o # p
  PROVE  AttemptSafe(o)' /\ HolderSafe(o)'
<1>1. TypeOK /\ SameAttempt(o)
  BY OthersUnmoved DEF IInv
<1>2. Holds(o)' => Holds(o)
  BY <1>1, HeldByClaim DEF Next, SameAttempt, ClaimNext, Claim, Goto, TypeOK
<1>3. OutcomesKept /\ OwnWritesOnly(p) /\ AddsIfHolder(p)
  BY <1>1, AttemptEffects
<1>4. (writeNodes' \subseteq writeNodes /\ results' = results) \/ ~Holds(o)
  BY <1>3 DEF AddsIfHolder, Holds
<1> QED  BY <1>1, <1>2, <1>3, <1>4, UnmovedSafe

\* What users, the sweep and the clock do leaves every attempt safe.
LEMMA SafeBesideUsers ==
  ASSUME IInv, NEW o \in Owners,
         \/ \E w \in Writes : Decide(w) \/ ExpirePending(w)
         \/ RequestCancel \/ ResumeRun \/ Tick \/ UNCHANGED vars
  PROVE  AttemptSafe(o)' /\ HolderSafe(o)'
<1>1. TypeOK /\ UserUnchanged
  BY UserQuiet DEF IInv
<1>2. SameAttempt(o) /\ UNCHANGED <<checkpoints, writeNodes, results, sent>>
  BY <1>1 DEF UserUnchanged, SameAttempt, attemptVars
<1>3. OutcomesKept /\ OwnWritesOnly(o)
  BY <1>1, <1>2, UserQuiet, QuietEffects
<1>4. Holds(o)' => Holds(o)
  BY <1>1, <1>2, HeldByClaim DEF Next, SameAttempt, ClaimNext, Claim, Goto, TypeOK
<1> QED  BY <1>1, <1>2, <1>3, <1>4, UnmovedSafe

-----------------------------------------------------------------------------
(* The records stay safe.                                                  *)

\* The records of the run stay consistent with one another.
LEMMA RecordsStaySafe ==
  ASSUME IInv, [Next]_vars
  PROVE  RecordsSafe'
<1> USE DEF IInv, TypeOK
<1>1. ASSUME UNCHANGED <<checkpoints, writeNodes, results>>,
             \A w \in Writes :
               /\ approval[w].status = "completed" <=> approval'[w].status = "completed"
               /\ approval'[w].status # "none" => w \in Gated
               /\ approval'[w].status = "executing" => approval'[w].owns
      PROVE  RecordsSafe'
  BY <1>1 DEF RecordsSafe, Settled
<1>2. CASE \/ \E w \in Writes : Decide(w) \/ ExpirePending(w)
           \/ RequestCancel \/ ResumeRun \/ Tick \/ UNCHANGED vars
  <2>1. UserUnchanged
    BY <1>2, UserQuiet
  <2>2. \A w \in Writes :
          /\ approval[w].status = "completed" <=> approval'[w].status = "completed"
          /\ approval'[w].status # "none" => w \in Gated
          /\ approval'[w].status = "executing" => approval'[w].owns
    BY <1>2, UserQuiet DEF RecordsSafe
  <2> QED  BY <1>1, <2>1, <2>2 DEF UserUnchanged
<1>3. ASSUME NEW p \in Owners, UNCHANGED runVars PROVE RecordsSafe'
  BY <1>3 DEF RecordsSafe, Settled, runVars
<1>4. ASSUME NEW p \in Owners, BeginRefused(p) PROVE RecordsSafe'
  <2>1. UNCHANGED <<checkpoints, writeNodes, results>> /\ at[p] \in Writes
    BY <1>4 DEF BeginRefused, InGraph
  <2>2. \/ approval' = approval
        \/ /\ approval[at[p]].status = "approved"
           /\ approval' = [approval EXCEPT ![at[p]].status = "expired", ![at[p]].left = 0]
    BY <1>4 DEF BeginRefused, Close
  <2> QED  BY <1>1, <2>1, <2>2 DEF RecordsSafe, Approvals
<1>5. ASSUME NEW p \in Owners, Pause(p) PROVE RecordsSafe'
  <2>1. /\ UNCHANGED <<checkpoints, writeNodes, results>>
        /\ at[p] \in Writes /\ at[p] \in Gated
    BY <1>5 DEF Pause, InGraph, AttemptSafe
  <2>2. \/ approval' = approval
        \/ /\ approval[at[p]].status \in {"none", "pending"}
           /\ approval'[at[p]].status = "pending"
           /\ \A w \in Writes \ {at[p]} : approval'[w] = approval[w]
    BY <1>5, <2>1 DEF Pause
  <2> QED  BY <1>1, <2>1, <2>2 DEF RecordsSafe
<1>6. ASSUME NEW p \in Owners, MarkWrite(p) PROVE RecordsSafe'
  <2>1. CASE Fence(p)
    <3>1. ~Settled(at[p]) /\ writeNodes' = writeNodes \cup {at[p]}
      BY <1>6, <2>1, MarkedSafe DEF MarkWrite
    <3> QED  BY <1>6, <3>1 DEF MarkWrite, RecordsSafe, Settled
  <2>2. CASE ~Fence(p)
    BY <1>3, <1>6, <2>2 DEF MarkWrite, runVars
  <2> QED  BY <2>1, <2>2
<1>7. ASSUME NEW p \in Owners, SettleWrite(p) PROVE RecordsSafe'
  <2>1. CASE Fence(p)
    BY <1>7, <2>1 DEF SettleWrite, RecordsSafe, Settled
  <2>2. CASE ~Fence(p)
    BY <1>3, <1>7, <2>2 DEF SettleWrite, runVars
  <2> QED  BY <2>1, <2>2
<1>8. ASSUME NEW p \in Owners, Begin(p) PROVE RecordsSafe'
  <2>1. /\ at[p] \notin writeNodes /\ ~Settled(at[p])
        /\ at[p] \in Writes /\ at[p] \in Gated
    BY <1>8, BegunSafe DEF Begin, InGraph, AttemptSafe
  <2>2. /\ approval'[at[p]].status = "executing" /\ approval'[at[p]].owns
        /\ \A w \in Writes \ {at[p]} : approval'[w] = approval[w]
        /\ writeNodes' = writeNodes \cup {at[p]} /\ UNCHANGED <<checkpoints, results>>
    BY <1>8, <2>1 DEF Begin
  <2> QED  BY <2>1, <2>2 DEF RecordsSafe, Settled
<1>9. ASSUME NEW p \in Owners, CompleteApproval(p) PROVE RecordsSafe'
  <2>1. CASE approval[at[p]].status = "executing" /\ Fence(p)
    <3>1. /\ at[p] \in Writes /\ at[p] \in Gated /\ approval[at[p]].owns
          /\ UNCHANGED <<checkpoints, results>>
      BY <1>9, <2>1 DEF CompleteApproval, InGraph, RecordsSafe
    <3>2. /\ approval'[at[p]].status = "completed"
          /\ \A w \in Writes \ {at[p]} : approval'[w] = approval[w]
          /\ writeNodes' = writeNodes \ {at[p]}
      BY <1>9, <2>1, <3>1 DEF CompleteApproval, Approvals
    <3> QED  BY <3>1, <3>2 DEF RecordsSafe, Settled
  <2>2. CASE ~(approval[at[p]].status = "executing" /\ Fence(p))
    BY <1>3, <1>9, <2>2 DEF CompleteApproval, runVars
  <2> QED  BY <2>1, <2>2
<1>10. ASSUME NEW p \in Owners, EmitSuccess(p) PROVE RecordsSafe'
  BY <1>10 DEF EmitSuccess, RecordsSafe, AttemptSafe, Settled
<1> QED
  BY <1>2, <1>3, <1>4, <1>5, <1>6, <1>7, <1>8, <1>9, <1>10
     DEF Next, Attempt, ClaimNext, LoadDocument, LoopStep, Killed, Restore, LookupResult,
         Send, Response, SendFails, Resolve, NodeFailed, StoreError, RunTimeout,
         FinishSuccess

\* An attempt comes to have a write on its hands by marking it, and then
\* nobody had.
LEMMA ActiveOrigin ==
  ASSUME IInv, NEW p \in Owners, Attempt(p), Active(p)'
  PROVE  at'[p] = at[p] /\ (Active(p) \/ at[p] \notin writeNodes)
<1> USE DEF IInv, TypeOK
<1>1. CASE MarkWrite(p)
  <2>1. CASE Fence(p)
    BY <1>1, <2>1, MarkedSafe DEF MarkWrite, StepTo
  <2>2. CASE ~Fence(p)
    BY <1>1, <2>2 DEF MarkWrite, StepTo, Active, InGraph
  <2> QED  BY <2>1, <2>2
<1>2. CASE Begin(p)
  BY <1>2, BegunSafe DEF Begin, StepTo
<1>3. CASE Send(p) \/ Response(p)
  BY <1>3 DEF Send, Response, StepTo, Active, InGraph
<1>4. CASE LoopStep(p)
  <2>1. UNCHANGED attemptVars
    BY <1>4 DEF LoopStep, HandleCancel, Goto, Active, InGraph, Executing
  <2>2. step[p] # "next"
    BY <2>1 DEF Active, InGraph, attemptVars
  <2>3. Executing(p)
    BY <1>4, <2>2 DEF AttemptSafe, LoopStep, StartGraph, FinishCancelled, FinishFailed,
         FinishAs, Release, Heartbeat, PollCancel, PollError, Shutdown, HandleCancel,
         Executing, Active, InGraph, Goto
  <2> QED  BY <2>1, <2>3 DEF Active, InGraph, attemptVars
<1>5. CASE ClaimNext(p) \/ LoadDocument(p)
  <2>1. pc'[p] \notin {"graph", "orphan"}
    BY <1>5 DEF ClaimNext, Claim, LoadDocument, Goto
  <2> QED  BY <2>1 DEF Active, InGraph, Executing
<1>6. CASE step'[p] \notin {"marked", "begun", "sent", "answered"}
  BY <1>6 DEF Active, InGraph
<1>7. Forget(p) \/ Advance(p) => step'[p] = "next"
  BY DEF Forget, Advance
<1>8. ASSUME NEW s \in Step \ {"marked", "begun", "sent", "answered"}, StepTo(p, s)
      PROVE  FALSE
  BY <1>8 DEF StepTo, Active, InGraph
<1> QED
  BY <1>1, <1>2, <1>3, <1>4, <1>5, <1>6, <1>7, <1>8
     DEF Attempt, Step, Killed, FinishSuccess, Pause, SendFails, RunTimeout, GraphFails,
         GraphStops, Restore, LookupResult, SettleWrite, Resolve, BeginRefused,
         CompleteApproval, EmitSuccess, NodeFailed, StoreError

\* Two attempts never come to have the same write on their hands.
LEMMA AttemptsStayApart ==
  ASSUME IInv, [Next]_vars
  PROVE  OneAttemptPerWrite'
<1> USE DEF IInv, TypeOK
<1>1. ASSUME NEW o \in Owners, SameAttempt(o)
      PROVE  at'[o] = at[o] /\ (Active(o)' <=> Active(o))
  BY <1>1 DEF SameAttempt, Active, InGraph, Executing
<1>2. ASSUME NEW p \in Owners, Attempt(p) PROVE OneAttemptPerWrite'
  <2>1. \A o \in Owners : o # p => at'[o] = at[o] /\ (Active(o)' <=> Active(o))
    BY <1>1, <1>2, OthersUnmoved
  <2>2. Active(p)' => at'[p] = at[p] /\ (Active(p) \/ at[p] \notin writeNodes)
    BY <1>2, ActiveOrigin
  <2>3. \A o \in Owners : Active(o) => at[o] \in writeNodes
    BY DEF AttemptSafe
  <2> QED  BY <2>1, <2>2, <2>3 DEF OneAttemptPerWrite
<1>3. CASE \/ \E w \in Writes : Decide(w) \/ ExpirePending(w)
           \/ RequestCancel \/ ResumeRun \/ Tick \/ UNCHANGED vars
  <2>1. \A o \in Owners : SameAttempt(o)
    BY <1>3, UserQuiet DEF UserUnchanged, SameAttempt, attemptVars
  <2> QED  BY <1>1, <2>1 DEF OneAttemptPerWrite
<1> QED  BY <1>2, <1>3 DEF Next

\* Requests leave one at a time, for a write that none had left for.
LEMMA OnlySendSends ==
  ASSUME IInv, [Next]_vars
  PROVE  \/ sent' = sent
         \/ \E p \in Owners : /\ Send(p) /\ at[p] \in Writes
                              /\ sent[at[p]] = 0 /\ at[p] \in writeNodes
<1>1. ASSUME NEW p \in Owners, Send(p)
      PROVE  at[p] \in Writes /\ sent[at[p]] = 0 /\ at[p] \in writeNodes
  BY <1>1, SentSafe DEF Send, InGraph
<1>2. ASSUME NEW p \in Owners, Attempt(p), ~Send(p) PROVE sent' = sent
  BY <1>2 DEF Attempt, ClaimNext, LoadDocument, LoopStep, Killed, Restore, LookupResult,
       MarkWrite, Response, SendFails, SettleWrite, Resolve, Begin, BeginRefused,
       CompleteApproval, Pause, EmitSuccess, NodeFailed, StoreError, RunTimeout,
       FinishSuccess
<1>3. CASE \/ \E w \in Writes : Decide(w) \/ ExpirePending(w)
           \/ RequestCancel \/ ResumeRun \/ Tick \/ UNCHANGED vars
  BY <1>3, UserQuiet DEF UserUnchanged, IInv
<1> QED  BY <1>1, <1>2, <1>3 DEF Next

\* A marker goes only together with a recorded outcome.
LEMMA MarkersKept ==
  ASSUME IInv, [Next]_vars, NEW w \in writeNodes
  PROVE  w \in writeNodes' \/ Settled(w)'
<1>a. TypeOK
  BY DEF IInv
<1>1. ASSUME NEW p \in Owners, Attempt(p), ~SettleWrite(p), ~CompleteApproval(p)
      PROVE  writeNodes \subseteq writeNodes'
  BY <1>1 DEF Attempt, ClaimNext, LoadDocument, LoopStep, Killed, Restore, LookupResult,
       MarkWrite, Send, Response, SendFails, Resolve, Begin, BeginRefused, Pause,
       EmitSuccess, NodeFailed, StoreError, RunTimeout, FinishSuccess, runVars
<1>2. ASSUME NEW p \in Owners, SettleWrite(p) PROVE w \in writeNodes' \/ w \in results'
  BY <1>2 DEF SettleWrite
<1>3. ASSUME NEW p \in Owners, CompleteApproval(p)
      PROVE  w \in writeNodes' \/ approval'[w].status = "completed"
  <2>1. at[p] \in Writes
    BY <1>3 DEF CompleteApproval, InGraph
  <2>2. CASE approval' = [approval EXCEPT ![at[p]].status = "completed"]
    <3>1. approval'[at[p]].status = "completed"
      BY <1>a, <2>1, <2>2 DEF TypeOK, Approvals
    <3>2. writeNodes' = writeNodes \/ writeNodes' = writeNodes \ {at[p]}
      BY <1>3 DEF CompleteApproval
    <3> QED  BY <3>1, <3>2
  <2>3. CASE UNCHANGED writeNodes
    BY <2>3
  <2> QED  BY <1>3, <2>2, <2>3 DEF CompleteApproval
<1>4. CASE \/ \E x \in Writes : Decide(x) \/ ExpirePending(x)
           \/ RequestCancel \/ ResumeRun \/ Tick \/ UNCHANGED vars
  BY <1>a, <1>4, UserQuiet DEF UserUnchanged
<1>5. ASSUME NEW p \in Owners, Attempt(p) PROVE w \in writeNodes' \/ Settled(w)'
  BY <1>1, <1>2, <1>3, <1>5 DEF Settled
<1> QED  BY <1>4, <1>5 DEF Next

\* Outcomes are kept by every step.
LEMMA SettledStays ==
  ASSUME IInv, [Next]_vars, NEW w \in Writes, Settled(w)
  PROVE  Settled(w)'
<1>1. ASSUME NEW p \in Owners, Attempt(p) PROVE Settled(w)'
  BY <1>1, AttemptEffects DEF OutcomesKept, IInv
<1>2. CASE \/ \E v \in Writes : Decide(v) \/ ExpirePending(v)
           \/ RequestCancel \/ ResumeRun \/ Tick \/ UNCHANGED vars
  BY <1>2, UserQuiet DEF UserUnchanged, Settled, IInv
<1> QED  BY <1>1, <1>2 DEF Next

\* The invariant is inductive.
LEMMA InductiveStep == IInv /\ [Next]_vars => IInv'
<1> SUFFICES ASSUME IInv, [Next]_vars PROVE IInv'
  OBVIOUS
<1>1. TypeOK'
  BY TypeStep DEF IInv
<1>2. ASSUME NEW o \in Owners PROVE AttemptSafe(o)' /\ HolderSafe(o)'
  BY OwnSafe, OthersSafe, SafeBesideUsers DEF Next
<1>3. SentAtMostOnce'
  BY OnlySendSends DEF SentAtMostOnce, Send, IInv, TypeOK
<1>4. OutcomeOnRecord'
  <2>1. ASSUME NEW w \in Writes, sent'[w] > 0 PROVE Settled(w)' \/ w \in writeNodes'
    <3>1. Settled(w) \/ w \in writeNodes
      BY <2>1, OnlySendSends DEF IInv, OutcomeOnRecord, Send, TypeOK
    <3> QED  BY <3>1, MarkersKept, SettledStays
  <2> QED  BY <2>1 DEF OutcomeOnRecord, Settled
<1> QED  BY <1>1, <1>2, <1>3, <1>4, RecordsStaySafe, AttemptsStayApart DEF IInv

-----------------------------------------------------------------------------
(* The theorems.                                                           *)

\* The inductive invariant holds in every reachable state.
THEOREM InvariantHolds == Spec => []IInv
BY InductiveInit, InductiveStep, PTL DEF Spec

\* No request leaves twice, for any number of workers, crashes and resumes.
THEOREM NoDoubleRequest == Spec => []SentAtMostOnce
<1>1. IInv => SentAtMostOnce
  BY DEF IInv
<1> QED  BY <1>1, InvariantHolds, PTL

\* A request that left keeps its marker until its outcome is recorded.
THEOREM NothingForgotten == Spec => []OutcomeOnRecord
<1>1. IInv => OutcomeOnRecord
  BY DEF IInv
<1> QED  BY <1>1, InvariantHolds, PTL

-----------------------------------------------------------------------------
(* The abstract promise.                                                   *)

SamePhase(w) ==
  /\ sent'[w] = sent[w] /\ (w \in writeNodes' <=> w \in writeNodes)
  /\ Settled(w)' <=> Settled(w)

\* The steps of the promise, seen in the records.
MarkedNow(w) == Phase(w) = "idle" /\ Phase(w)' = "marked" /\ UNCHANGED sent
SentNow(w) == /\ Phase(w) = "marked" /\ Phase(w)' = "sent"
              /\ sent' = [sent EXCEPT ![w] = @ + 1]
SettledNow(w) == Phase(w) = "sent" /\ Phase(w)' = "settled" /\ UNCHANGED sent

\* A step of the system touches the phase of one write at most.
LEMMA OnePhaseMoves ==
  ASSUME IInv, [Next]_vars
  PROVE  \/ (\A w \in Writes : SamePhase(w)) /\ UNCHANGED sent
         \/ \E w \in Writes : /\ \A v \in Writes \ {w} : SamePhase(v)
                              /\ MarkedNow(w) \/ SentNow(w) \/ SettledNow(w)
<1> DEFINE Moves(w) == /\ \A v \in Writes \ {w} : SamePhase(v)
                       /\ MarkedNow(w) \/ SentNow(w) \/ SettledNow(w)
           Rests == (\A w \in Writes : SamePhase(w)) /\ UNCHANGED sent
<1> USE DEF IInv, TypeOK
<1>1. ASSUME UNCHANGED <<writeNodes, results, sent>>,
             \A w \in Writes :
               approval[w].status = "completed" <=> approval'[w].status = "completed"
      PROVE  Rests
  BY <1>1 DEF SamePhase, Settled
<1>2. ASSUME NEW p \in Owners, NEW w \in Writes, at[p] = w,
             w \notin writeNodes, ~Settled(w), sent[w] = 0,
             writeNodes' = writeNodes \cup {w}, UNCHANGED <<results, sent>>,
             \A v \in Writes :
               approval[v].status = "completed" <=> approval'[v].status = "completed"
      PROVE  Moves(w)
  <2>1. \A v \in Writes : Settled(v)' <=> Settled(v)
    BY <1>2 DEF Settled
  <2> QED  BY <1>2, <2>1 DEF SamePhase, MarkedNow, Phase
<1>3. ASSUME NEW p \in Owners, NEW w \in Writes, at[p] = w,
             w \in writeNodes, sent[w] > 0,
             writeNodes' = writeNodes \ {w}, UNCHANGED sent,
             w \in results' \/ approval'[w].status = "completed",
             \A v \in Writes \ {w} :
               /\ v \in results <=> v \in results'
               /\ approval[v].status = "completed" <=> approval'[v].status = "completed"
      PROVE  Moves(w)
  <2>1. \A v \in Writes \ {w} : Settled(v)' <=> Settled(v)
    BY <1>3 DEF Settled
  <2>2. ~Settled(w) /\ Settled(w)'
    BY <1>3 DEF Settled, RecordsSafe
  <2> QED  BY <1>3, <2>1, <2>2 DEF SamePhase, SettledNow, Phase
<1>4. ASSUME NEW p \in Owners, NEW w \in Writes, at[p] = w, Attempt(p)
      PROVE  Rests \/ Moves(w)
  <2>1. CASE MarkWrite(p) /\ Fence(p)
    <3>1. writeNodes' = writeNodes \cup {w} /\ UNCHANGED <<results, approval, sent>>
      BY <1>4, <2>1 DEF MarkWrite
    <3> QED  BY <1>2, <1>4, <2>1, <3>1, MarkedSafe
  <2>2. CASE Begin(p)
    <3>1. /\ writeNodes' = writeNodes \cup {w} /\ UNCHANGED <<results, sent>>
          /\ approval[w].status = "approved" /\ approval'[w].status = "executing"
          /\ \A v \in Writes \ {w} : approval'[v] = approval[v]
      BY <1>4, <2>2 DEF Begin
    <3> QED  BY <1>2, <1>4, <2>2, <3>1, BegunSafe
  <2>3. CASE Send(p)
    <3>1. /\ w \in writeNodes /\ sent[w] = 0 /\ ~Settled(w)
      BY <1>4, <2>3, SentSafe DEF RecordsSafe
    <3>2. sent' = [sent EXCEPT ![w] = @ + 1] /\ UNCHANGED <<writeNodes, results, approval>>
      BY <1>4, <2>3 DEF Send, runVars
    <3>3. \A v \in Writes : Settled(v)' <=> Settled(v)
      BY <3>2 DEF Settled
    <3> QED  BY <3>1, <3>2, <3>3 DEF SamePhase, SentNow, Phase
  <2>4. CASE SettleWrite(p) /\ Fence(p)
    <3>1. w \in writeNodes /\ sent[w] > 0
      BY <1>4, <2>4 DEF SettleWrite, AttemptSafe, Active
    <3>2. /\ writeNodes' = writeNodes \ {w} /\ results' = results \cup {w}
          /\ UNCHANGED <<approval, sent>>
      BY <1>4, <2>4 DEF SettleWrite
    <3> QED  BY <1>3, <1>4, <3>1, <3>2
  <2>5. CASE CompleteApproval(p) /\ Fence(p) /\ approval[w].status = "executing"
    <3>1. w \in writeNodes /\ sent[w] > 0 /\ approval[w].owns
      BY <1>4, <2>5 DEF CompleteApproval, AttemptSafe, Active, RecordsSafe
    <3>2. /\ writeNodes' = writeNodes \ {w} /\ UNCHANGED <<results, sent>>
          /\ approval' = [approval EXCEPT ![w].status = "completed"]
      BY <1>4, <2>5, <3>1 DEF CompleteApproval
    <3>3. /\ approval'[w].status = "completed"
          /\ \A v \in Writes \ {w} : approval'[v] = approval[v]
      BY <3>2 DEF Approvals
    <3> QED  BY <1>3, <1>4, <3>1, <3>2, <3>3
  <2>6. CASE BeginRefused(p) \/ Pause(p)
    <3>1. \/ approval' = approval
          \/ Close(w, "expired") /\ approval[w].status = "approved"
          \/ /\ approval[w].status \in {"none", "pending"}
             /\ approval'[w].status = "pending"
             /\ \A v \in Writes \ {w} : approval'[v] = approval[v]
      BY <1>4, <2>6 DEF BeginRefused, Pause, InGraph
    <3>2. \A v \in Writes :
            approval[v].status = "completed" <=> approval'[v].status = "completed"
      BY <3>1 DEF Close, Approvals
    <3> QED  BY <1>1, <2>6, <3>2 DEF BeginRefused, Pause
  <2>7. CASE UNCHANGED <<writeNodes, results, approval, sent>>
    BY <1>1, <2>7
  <2> QED
    BY <1>4, <2>1, <2>2, <2>3, <2>4, <2>5, <2>6, <2>7
       DEF Attempt, MarkWrite, SettleWrite, CompleteApproval, EmitSuccess, ClaimNext,
           LoadDocument, LoopStep, Killed, Restore, LookupResult, Response, SendFails,
           Resolve, NodeFailed, StoreError, RunTimeout, FinishSuccess, runVars
<1>5. ASSUME NEW p \in Owners, Attempt(p), at[p] \notin Writes PROVE Rests
  <2>1. UNCHANGED <<writeNodes, results, approval, sent>>
    BY <1>5 DEF Attempt, ClaimNext, LoadDocument, LoopStep, Killed, Restore, LookupResult,
         MarkWrite, Send, Response, SendFails, SettleWrite, Resolve, Begin, BeginRefused,
         CompleteApproval, Pause, EmitSuccess, NodeFailed, StoreError, RunTimeout,
         FinishSuccess, InGraph, runVars
  <2> QED  BY <1>1, <2>1
<1>6. CASE \/ \E v \in Writes : Decide(v) \/ ExpirePending(v)
           \/ RequestCancel \/ ResumeRun \/ Tick \/ UNCHANGED vars
  BY <1>1, <1>6, UserQuiet DEF UserUnchanged
<1>7. ASSUME NEW p \in Owners, Attempt(p) PROVE Rests \/ \E w \in Writes : Moves(w)
  BY <1>4, <1>5, <1>7
<1> QED  BY <1>6, <1>7 DEF Next

\* The initial states map to those of the promise.
LEMMA PromiseInit == Init => Promise!Init
BY DEF Init, Promise!Init, Phase, Settled, NoApproval

\* Every step is one of the promise, or changes nothing it speaks of.
LEMMA PromiseStep == IInv /\ [Next]_vars => [Promise!Next]_(Promise!vars)
<1> SUFFICES ASSUME IInv, [Next]_vars PROVE [Promise!Next]_(Promise!vars)
  OBVIOUS
<1> DEFINE phase == [w \in Writes |-> Phase(w)]
<1>1. \A w \in Writes : SamePhase(w) => Phase(w)' = Phase(w)
  BY DEF SamePhase, Phase
<1>2. CASE (\A w \in Writes : SamePhase(w)) /\ UNCHANGED sent
  <2>1. phase' = phase
    BY <1>1, <1>2
  <2> QED  BY <1>2, <2>1 DEF Promise!vars
<1>3. ASSUME NEW w \in Writes, \A v \in Writes \ {w} : SamePhase(v),
             MarkedNow(w) \/ SentNow(w) \/ SettledNow(w)
      PROVE  Promise!Next
  <2>1. phase' = [phase EXCEPT ![w] = Phase(w)']
    BY <1>1, <1>3
  <2>2. CASE MarkedNow(w)
    BY <2>1, <2>2 DEF MarkedNow, Promise!Next, Promise!Mark
  <2>3. CASE SentNow(w)
    BY <2>1, <2>3 DEF SentNow, Promise!Next, Promise!Send
  <2>4. CASE SettledNow(w)
    BY <2>1, <2>4 DEF SettledNow, Promise!Next, Promise!Settle
  <2> QED  BY <1>3, <2>2, <2>3, <2>4
<1> QED  BY <1>2, <1>3, OnePhaseMoves

\* Every write is marked before it is sent, sent once, settled after it.
THEOREM PromiseKept == Spec => ImplementsWriteOnce
BY PromiseInit, PromiseStep, InvariantHolds, PTL DEF Spec, ImplementsWriteOnce, Promise!Spec

-----------------------------------------------------------------------------
(***************************************************************************)
(* Approvals.  A gated write is begun with its approval executing, and     *)
(* from there its row only goes on to completed.                           *)
(***************************************************************************)

\* A person has approved the write, and the run has acted on it.
ActedOn(w) == approval[w].status \in {"executing", "completed"}

BegunApproved ==
  \A o \in Owners : /\ InGraph(o, "marked") => at[o] \notin Gated
                    /\ InGraph(o, "begun") => ActedOn(at[o])

\* An approval that was acted on stays so.
LEMMA ActedOnStays ==
  ASSUME TypeOK, [Next]_vars, NEW w \in Writes, ActedOn(w)
  PROVE  ActedOn(w)'
<1> USE DEF TypeOK, ActedOn
<1>1. CASE \/ \E v \in Writes : Decide(v) \/ ExpirePending(v)
           \/ RequestCancel \/ ResumeRun \/ Tick \/ UNCHANGED vars
  BY <1>1, UserQuiet
<1>2. ASSUME NEW p \in Owners, Attempt(p) PROVE ActedOn(w)'
  <2>1. CASE Begin(p)
    BY <2>1 DEF Begin, InGraph
  <2>2. CASE BeginRefused(p)
    BY <2>2 DEF BeginRefused, InGraph, Close
  <2>3. CASE CompleteApproval(p)
    BY <2>3 DEF CompleteApproval, InGraph, Approvals
  <2>4. CASE Pause(p)
    BY <2>4 DEF Pause, InGraph
  <2>5. CASE UNCHANGED approval
    BY <2>5
  <2> QED
    BY <1>2, <2>1, <2>2, <2>3, <2>4, <2>5
       DEF Attempt, ClaimNext, LoadDocument, LoopStep, Killed, Restore, LookupResult,
           MarkWrite, Send, Response, SendFails, SettleWrite, Resolve, EmitSuccess,
           NodeFailed, StoreError, RunTimeout, FinishSuccess, runVars
<1> QED  BY <1>1, <1>2 DEF Next

\* An attempt comes to these two steps from the checks that precede them.
LEMMA BegunStep ==
  ASSUME IInv, BegunApproved, [Next]_vars
  PROVE  BegunApproved'
<1> USE DEF IInv, TypeOK
<1>1. ASSUME NEW o \in Owners, SameAttempt(o)
      PROVE  /\ InGraph(o, "marked")' => at'[o] \notin Gated
             /\ InGraph(o, "begun")' => ActedOn(at[o])'
  <2>1. /\ InGraph(o, "marked")' <=> InGraph(o, "marked")
        /\ InGraph(o, "begun")' <=> InGraph(o, "begun")
        /\ at'[o] = at[o]
    BY <1>1 DEF SameAttempt, InGraph, Executing
  <2> QED  BY <2>1, ActedOnStays DEF BegunApproved, InGraph
<1>2. ASSUME NEW p \in Owners, Attempt(p)
      PROVE  /\ InGraph(p, "marked")' => at'[p] \notin Gated
             /\ InGraph(p, "begun")' => ActedOn(at[p])'
  <2>1. CASE MarkWrite(p)
    BY <2>1 DEF MarkWrite, AttemptSafe, StepTo, InGraph
  <2>2. CASE Begin(p)
    <3>1. at'[p] = at[p] /\ at[p] \in Writes /\ step'[p] = "begun"
          /\ approval'[at[p]].status = "executing"
      BY <2>2 DEF Begin, StepTo, InGraph
    <3> QED  BY <3>1 DEF InGraph, ActedOn
  <2>3. CASE LoopStep(p)
    <3>1. /\ InGraph(p, "marked")' => InGraph(p, "marked")
          /\ InGraph(p, "begun")' => InGraph(p, "begun")
          /\ at'[p] = at[p] \/ step'[p] = "next"
      <4>1. CASE Forget(p)
        BY <4>1 DEF Forget, InGraph
      <4>2. CASE UNCHANGED attemptVars
        <5>1. CASE StartGraph(p)
          BY <5>1, <4>2 DEF StartGraph, AttemptSafe, InGraph, attemptVars
        <5>2. CASE ~StartGraph(p)
          <6>1. Executing(p)' => Executing(p)
            BY <2>3, <5>2 DEF LoopStep, FinishCancelled, FinishFailed, FinishAs, Release,
                 Heartbeat, PollCancel, PollError, Shutdown, HandleCancel, Executing, Goto
          <6> QED  BY <4>2, <6>1 DEF InGraph, attemptVars
        <5> QED  BY <5>1, <5>2
      <4> QED  BY <2>3, <4>1, <4>2 DEF LoopStep
    <3> QED  BY <1>2, <3>1, ActedOnStays DEF BegunApproved, InGraph, Next
  <2>4. CASE ClaimNext(p) \/ LoadDocument(p)
    BY <2>4 DEF ClaimNext, Claim, LoadDocument, Goto, InGraph, Executing
  <2>5. CASE Send(p) \/ Response(p)
    BY <2>5 DEF Send, Response, StepTo, InGraph
  <2>6. CASE step'[p] \notin {"marked", "begun"}
    BY <2>6 DEF InGraph
  <2>7. Forget(p) \/ Advance(p) => step'[p] = "next"
    BY DEF Forget, Advance
  <2>8. ASSUME NEW s \in Step \ {"marked", "begun"}, StepTo(p, s) PROVE step'[p] \notin {"marked", "begun"}
    BY <2>8 DEF StepTo
  <2> QED
    BY <1>2, <2>1, <2>2, <2>3, <2>4, <2>5, <2>6, <2>7, <2>8
       DEF Attempt, Step, Killed, FinishSuccess, Pause, SendFails, RunTimeout, GraphFails,
           GraphStops, Restore, LookupResult, SettleWrite, Resolve, BeginRefused,
           CompleteApproval, EmitSuccess, NodeFailed, StoreError
<1>3. ASSUME NEW p \in Owners, Attempt(p) PROVE BegunApproved'
  BY <1>1, <1>2, <1>3, OthersUnmoved DEF BegunApproved, ActedOn
<1>4. CASE \/ \E w \in Writes : Decide(w) \/ ExpirePending(w)
           \/ RequestCancel \/ ResumeRun \/ Tick \/ UNCHANGED vars
  <2>1. \A o \in Owners : SameAttempt(o)
    BY <1>4, UserQuiet DEF UserUnchanged, SameAttempt, attemptVars
  <2> QED  BY <1>1, <2>1 DEF BegunApproved, ActedOn, SameAttempt
<1> QED  BY <1>3, <1>4 DEF Next

\* A gated write leaves only after a person approved it.
THEOREM SentOnlyAfterApproval == Spec => []SentOnlyApproved
<1> DEFINE Inv == BegunApproved /\ SentOnlyApproved
<1>1. Init => Inv
  BY ExternalWriteAssumption
     DEF Init, LoopInit, BegunApproved, SentOnlyApproved, InGraph, Executing
<1>2. IInv /\ Inv /\ [Next]_vars => Inv'
  <2> SUFFICES ASSUME IInv, Inv, [Next]_vars PROVE Inv'
    OBVIOUS
  <2>1. BegunApproved'
    BY BegunStep
  <2>2. ASSUME NEW w \in Gated, sent'[w] > 0 PROVE ActedOn(w)'
    <3>1. w \in Writes /\ TypeOK
      BY ExternalWriteAssumption DEF IInv
    <3>2. CASE sent[w] > 0
      BY <3>1, <3>2, ActedOnStays DEF SentOnlyApproved, ActedOn
    <3>3. CASE ~(sent[w] > 0)
      <4>1. PICK p \in Owners : Send(p)
        BY <2>2, <3>3, OnlySendSends
      <4>2. at[p] = w
        BY <2>2, <3>1, <3>3, <4>1 DEF Send, TypeOK
      <4>3. ActedOn(w)
        BY <4>1, <4>2 DEF Send, BegunApproved
      <4> QED  BY <3>1, <4>3, ActedOnStays
    <3> QED  BY <3>2, <3>3
  <2> QED  BY <2>1, <2>2 DEF SentOnlyApproved, ActedOn
<1> QED  BY <1>1, <1>2, InvariantHolds, PTL DEF Spec

-----------------------------------------------------------------------------
(***************************************************************************)
(* Waiting.  An approval that is decided leaves no other one open, as only *)
(* one is while the run may still go on.                                   *)
(***************************************************************************)

Open(w) == approval[w].status = "pending"

OneOpen == terminal \/ \A v, w \in Writes : Open(v) /\ Open(w) => v = w

\* Outside of pause nothing starts to wait, and what ends the run's waiting
\* ends that of its approval.
LEMMA WaitingStep ==
  ASSUME TypeOK, WaitsForADecision, OneOpen, [Next]_vars
  PROVE  WaitsForADecision' /\ OneOpen'
<1> USE DEF TypeOK
<1> DEFINE Goal == WaitsForADecision' /\ OneOpen'
<1>1. ASSUME \A w \in Writes : Open(w)' <=> Open(w), terminal' = terminal,
             (job.status = "awaiting_approval") <=> (job'.status = "awaiting_approval")
      PROVE  Goal
  BY <1>1 DEF WaitsForADecision, OneOpen, Open
<1>2. ASSUME terminal', job'.status # "awaiting_approval" PROVE Goal
  BY <1>2 DEF WaitsForADecision, OneOpen
<1>3. ASSUME NEW p \in Owners, Attempt(p), ~Pause(p), ~BeginRefused(p) PROVE Goal
  <2>1. terminal' = terminal /\ \A w \in Writes : Open(w)' <=> Open(w)
    <3>1. CASE Begin(p)
      BY <3>1 DEF Begin, InGraph, Open
    <3>2. CASE CompleteApproval(p)
      BY <3>2 DEF CompleteApproval, InGraph, Open, Approvals
    <3>3. CASE UNCHANGED <<approval, terminal>>
      BY <3>3 DEF Open
    <3> QED
      BY <1>3, <3>1, <3>2, <3>3
         DEF Attempt, ClaimNext, LoadDocument, LoopStep, Killed, Restore, LookupResult,
             MarkWrite, Send, Response, SendFails, SettleWrite, Resolve, EmitSuccess,
             NodeFailed, StoreError, RunTimeout, FinishSuccess, runVars
  <2>2. (job.status = "awaiting_approval") <=> (job'.status = "awaiting_approval")
    <3>1. CASE ClaimNext(p)
      BY <3>1 DEF ClaimNext, Claim, Eligible, ClaimJob, Jobs
    <3>2. CASE LoopStep(p) \/ FinishSuccess(p)
      BY <3>2 DEF LoopStep, StartGraph, FinishCancelled, FinishFailed, FinishAs, Release,
           ReleaseJob, Heartbeat, RenewLease, PollCancel, PollError, Shutdown,
           HandleCancel, FinishSuccess, FinishJob, Fence, Jobs
    <3>3. CASE UNCHANGED job
      BY <3>3
    <3> QED
      BY <1>3, <3>1, <3>2, <3>3
         DEF Attempt, LoadDocument, Killed, Crash, Restore, LookupResult, MarkWrite, Send,
             Response, SendFails, SettleWrite, Resolve, Begin, CompleteApproval,
             EmitSuccess, NodeFailed, StoreError, RunTimeout
  <2> QED  BY <1>1, <2>1, <2>2
<1>4. ASSUME NEW p \in Owners, BeginRefused(p) PROVE Goal
  <2>1. CASE Close(at[p], "expired")
    BY <1>2, <2>1 DEF Close, CloseJob, Jobs
  <2>2. CASE UNCHANGED <<job, approval, terminal>>
    BY <1>1, <2>2 DEF Open
  <2> QED  BY <1>4, <2>1, <2>2 DEF BeginRefused
<1>5. ASSUME NEW p \in Owners, Pause(p) PROVE Goal
  <2>1. CASE UNCHANGED <<job, approval>>
    BY <1>1, <1>5, <2>1 DEF Pause, Open
  <2>2. CASE ~UNCHANGED <<job, approval>>
    <3>1. /\ job.status = "running" /\ job'.status = "awaiting_approval"
          /\ at[p] \in Writes /\ terminal' = terminal
          /\ approval'[at[p]].status = "pending"
          /\ \A w \in Writes \ {at[p]} : approval'[w] = approval[w]
      <4>1. /\ Fence(p) /\ PauseJob /\ at[p] \in Writes /\ terminal' = terminal
            /\ approval' = [approval EXCEPT
                 ![at[p]] = IF @.status = "pending" THEN @
                   ELSE [status |-> "pending", left |-> ApprovalTime, owns |-> FALSE]]
        BY <1>5, <2>2 DEF Pause, InGraph
      <4>2. approval'[at[p]].status = "pending"
        BY <4>1
      <4> QED  BY <4>1, <4>2 DEF Fence, PauseJob, Jobs
    <3>2. terminal \/ \A w \in Writes : ~Open(w)
      BY <3>1 DEF WaitsForADecision, Open
    <3> QED  BY <3>1, <3>2 DEF WaitsForADecision, OneOpen, Open
  <2> QED  BY <2>1, <2>2
<1>6. ASSUME NEW w \in Writes, Decide(w) PROVE Goal
  <2>1. CASE Close(w, "expired") \/ Close(w, "rejected")
    BY <1>2, <2>1 DEF Close, CloseJob, Jobs
  <2>2. CASE /\ approval' = [approval EXCEPT ![w].status = "approved"]
             /\ RequeueJob /\ UNCHANGED terminal
             /\ ~terminal /\ Open(w)
    <3>1. job'.status = "queued" /\ terminal' = terminal
      BY <2>2 DEF RequeueJob, Jobs
    <3>2. \A v \in Writes : ~Open(v)'
      BY <2>2 DEF OneOpen, Open, Approvals
    <3> QED  BY <3>1, <3>2 DEF WaitsForADecision, OneOpen, Open
  <2> QED  BY <1>6, <2>1, <2>2 DEF Decide, Open
<1>7. ASSUME NEW w \in Writes, ExpirePending(w) PROVE Goal
  BY <1>2, <1>7 DEF ExpirePending, Close, CloseJob, Jobs
<1>8. CASE RequestCancel
  <2>1. CASE job.status = "running"
    BY <1>1, <1>8, <2>1 DEF RequestCancel, CancelRequested, Open, Jobs
  <2>2. CASE job.status # "running"
    <3>1. job'.status = "cancelled" /\ (terminal => terminal')
      BY <1>8, <2>2 DEF RequestCancel, CancelRequested, Jobs
    <3>2. ASSUME NEW v \in Writes PROVE ~Open(v)'
      <4>1. approval'[v] = IF Waiting(v)
              THEN [approval[v] EXCEPT !.status = "cancelled", !.left = 0]
              ELSE approval[v]
        BY <1>8, <2>2 DEF RequestCancel
      <4> QED  BY <4>1 DEF Waiting, Open, Approvals
    <3> QED  BY <3>1, <3>2 DEF WaitsForADecision, OneOpen, Open
  <2> QED  BY <2>1, <2>2
<1>9. CASE ResumeRun
  BY <1>1, <1>9 DEF ResumeRun, ResumeJob, CreatedJob, Open
<1>10. CASE Tick
  <2>1. \A w \in Writes : Open(w)' <=> Open(w)
    BY <1>10 DEF Tick, Open
  <2>2. job'.status = job.status /\ terminal' = terminal
    BY <1>10 DEF Tick, JobTick, Jobs
  <2> QED  BY <1>1, <2>1, <2>2
<1>11. CASE UNCHANGED vars
  BY <1>1, <1>11 DEF vars, Open
<1> QED
  BY <1>3, <1>4, <1>5, <1>6, <1>7, <1>8, <1>9, <1>10, <1>11 DEF Next

\* A run waits for a person only while there is something to decide, and an open
\* approval has a run that waits for it, or one that has ended for good.
THEOREM DecisionsAwaited == Spec => []WaitsForADecision
<1>1. Init => WaitsForADecision /\ OneOpen
  BY DEF Init, LoopInit, CreatedJob, NoApproval, WaitsForADecision, OneOpen, Open
<1>2. IInv /\ WaitsForADecision /\ OneOpen /\ [Next]_vars => WaitsForADecision' /\ OneOpen'
  BY WaitingStep DEF IInv
<1> QED  BY <1>1, <1>2, InvariantHolds, PTL DEF Spec

-----------------------------------------------------------------------------
(***************************************************************************)
(* Uncertainty.  Where only gated writes may be recovered by on_error, the *)
(* holder of the run has no marker but that of the node it is at: it gets  *)
(* past a marked write only with its outcome.                              *)
(***************************************************************************)

MarkedOnlyAt(o) ==
  \A w \in writeNodes :
    w = at[o] /\ step[o] \notin Unmarked /\ (step[o] = "refused" => w \notin Gated)

InHand ==
  /\ job.status = "success" => writeNodes = {}
  /\ \A o \in Owners :
       Holds(o) /\ pc[o] \in {"loaded", "graph", "orphan"} => MarkedOnlyAt(o)

\* A gated write has no marker any more when its handler refuses to go on.
LEMMA HolderGetsPast ==
  ASSUME IInv, InHand, Recoverable \subseteq Gated, NEW o \in Owners, Attempt(o),
         Holds(o)', pc'[o] \in {"loaded", "graph", "orphan"}
  PROVE  MarkedOnlyAt(o)'
<1> USE DEF IInv, TypeOK
<1>a. ~ClaimNext(o) /\ Holds(o)
  <2>1. ~ClaimNext(o)
    BY DEF ClaimNext, Claim, Goto
  <2> QED  BY <2>1, HeldByClaim DEF Next
<1>1. CASE LoadDocument(o)
  <2>1. writeNodes' = {}
    BY <1>1 DEF LoadDocument, WritesSettled, Goto, RecordsSafe, runVars
  <2> QED  BY <2>1 DEF MarkedOnlyAt
<1>2. CASE ~LoadDocument(o)
  <2>1. pc[o] \in {"loaded", "graph", "orphan"}
    <3>1. ASSUME LoopStep(o) PROVE pc[o] \in {"loaded", "graph", "orphan"}
      BY <3>1 DEF LoopStep, StartGraph, FinishCancelled, FinishFailed, FinishAs, Release,
           Heartbeat, PollCancel, PollError, Shutdown, HandleCancel, Goto
    <3>2. ASSUME EmitSuccess(o) PROVE pc[o] \in {"loaded", "graph", "orphan"}
      BY <3>2 DEF EmitSuccess, GraphStops, GraphEnds, Goto, Executing
    <3> QED
      BY <1>a, <1>2, <3>1, <3>2
         DEF Attempt, Killed, Crash, Goto, Restore, LookupResult, MarkWrite, Send, Response,
             SendFails, SettleWrite, Resolve, Begin, BeginRefused, CompleteApproval, Pause,
             NodeFailed, StoreError, RunTimeout, FinishSuccess, FinishAs, InGraph, Executing
  <2>2. MarkedOnlyAt(o)
    BY <1>a, <2>1 DEF InHand
  <2>3. ASSUME writeNodes = {}, UNCHANGED writeNodes PROVE MarkedOnlyAt(o)'
    BY <2>3 DEF MarkedOnlyAt
  <2>4. step[o] \in Unmarked => writeNodes = {}
    BY <2>2 DEF MarkedOnlyAt
  <2>5. step[o] = "delivered" /\ at[o] \in Writes => writeNodes = {}
    BY <2>2 DEF MarkedOnlyAt, AttemptSafe, RecordsSafe
  <2>6. CASE LoopStep(o)
    <3>1. CASE UNCHANGED attemptVars
      BY <2>2, <2>6, <3>1 DEF MarkedOnlyAt, LoopStep, runVars, attemptVars
    <3>2. CASE HandleCancel(o)
      BY <3>2 DEF HandleCancel, Goto
    <3> QED  BY <2>6, <3>1, <3>2 DEF LoopStep
  <2>7. CASE Restore(o) \/ LookupResult(o) \/ Resolve(o)
    <3>1. step[o] = "next" /\ UNCHANGED writeNodes
      BY <2>7 DEF Restore, LookupResult, Resolve, InGraph, runVars
    <3> QED  BY <2>3, <2>4, <3>1 DEF Unmarked
  <2>8. CASE BeginRefused(o)
    <3>1. step[o] = "resolved" /\ UNCHANGED writeNodes
      BY <2>8 DEF BeginRefused, InGraph
    <3> QED  BY <2>3, <2>4, <3>1 DEF Unmarked
  <2>9. CASE MarkWrite(o)
    <3>1. /\ step[o] = "checked" /\ at[o] \notin Gated
          /\ step'[o] \in {"marked", "refused"} /\ at'[o] = at[o]
          /\ writeNodes' \subseteq writeNodes \cup {at[o]}
      BY <2>9 DEF MarkWrite, InGraph, StepTo, AttemptSafe
    <3> QED  BY <2>4, <3>1 DEF MarkedOnlyAt, Unmarked
  <2>10. CASE Begin(o)
    <3>1. /\ step[o] = "resolved" /\ step'[o] = "begun" /\ at'[o] = at[o]
          /\ writeNodes' = writeNodes \cup {at[o]}
      BY <2>10 DEF Begin, InGraph, StepTo
    <3> QED  BY <2>4, <3>1 DEF MarkedOnlyAt, Unmarked
  <2>11. CASE Send(o) \/ Response(o)
    <3>1. /\ step'[o] \in {"sent", "answered"} /\ at'[o] = at[o]
          /\ UNCHANGED writeNodes
      BY <2>11 DEF Send, Response, InGraph, StepTo, runVars
    <3> QED  BY <2>2, <3>1 DEF MarkedOnlyAt, Unmarked
  <2>12. CASE SettleWrite(o)
    <3>1. /\ at[o] \notin Gated /\ step'[o] \in {"delivered", "refused"} /\ at'[o] = at[o]
          /\ writeNodes' \subseteq writeNodes
      BY <2>12 DEF SettleWrite, InGraph, StepTo
    <3> QED  BY <2>2, <3>1 DEF MarkedOnlyAt, Unmarked
  <2>13. ASSUME GraphFails(o) \/ GraphStops(o), Executing(o) \/ pc[o] = "stopping" PROVE FALSE
    BY <2>1, <2>13 DEF GraphFails, GraphStops, GraphEnds, Goto, Executing
  <2>14. CASE CompleteApproval(o)
    <3>1. ~GraphFails(o)
      BY <2>13, <2>14 DEF CompleteApproval, InGraph
    <3>2. /\ step'[o] = "delivered" /\ at'[o] = at[o] /\ writeNodes' \subseteq writeNodes
      BY <2>14, <3>1 DEF CompleteApproval, StepTo
    <3> QED  BY <2>2, <3>2 DEF MarkedOnlyAt, Unmarked
  <2>15. CASE EmitSuccess(o)
    <3>1. step[o] = "delivered" /\ at[o] \in Writes /\ UNCHANGED writeNodes
      BY <2>15 DEF EmitSuccess
    <3> QED  BY <2>3, <2>5, <3>1
  <2>16. CASE NodeFailed(o)
    <3>1. step[o] = "refused" /\ at[o] \in Recoverable /\ UNCHANGED writeNodes
      BY <2>13, <2>16 DEF NodeFailed, InGraph, runVars
    <3>2. writeNodes = {}
      BY <2>2, <3>1 DEF MarkedOnlyAt
    <3> QED  BY <2>3, <3>1, <3>2
  <2>17. CASE StoreError(o)
    <3>1. /\ StepTo(o, "refused") /\ UNCHANGED writeNodes
          /\ step[o] \in Unmarked \/ at[o] \notin Gated
      BY <2>13, <2>17 DEF StoreError, InGraph, runVars, Unmarked
    <3>2. step'[o] = "refused" /\ at'[o] = at[o]
      BY <3>1 DEF StepTo
    <3> QED  BY <2>2, <2>3, <2>4, <3>1, <3>2 DEF MarkedOnlyAt, Unmarked
  <2>18. CASE SendFails(o) \/ RunTimeout(o)
    BY <2>13, <2>18 DEF SendFails, RunTimeout, InGraph
  <2>19. CASE Killed(o) \/ FinishSuccess(o) \/ Pause(o)
    BY <2>19 DEF Killed, Crash, FinishSuccess, FinishAs, Pause, GraphEnds, InGraph,
         Executing, Goto
  <2> QED
    BY <1>a, <1>2, <2>6, <2>7, <2>8, <2>9, <2>10, <2>11, <2>12, <2>14, <2>15, <2>16,
       <2>17, <2>18, <2>19 DEF Attempt
<1> QED  BY <1>1, <1>2

\* A run becomes successful in one way.
LEMMA SuccessByFinish ==
  ASSUME TypeOK, [Next]_vars, job'.status = "success", job.status # "success"
  PROVE  \E p \in Owners : FinishSuccess(p) /\ Fence(p)
<1> USE DEF TypeOK
<1>1. ASSUME NEW p \in Owners, Attempt(p) PROVE FinishSuccess(p) /\ Fence(p)
  BY <1>1
     DEF Attempt, ClaimNext, Claim, ClaimJob, LoadDocument, LoopStep, StartGraph,
         FinishCancelled, FinishFailed, FinishAs, FinishJob, Release, ReleaseJob,
         Heartbeat, RenewLease, PollCancel, PollError, Shutdown, HandleCancel, Killed,
         Crash, Restore, LookupResult, MarkWrite, Send, Response, SendFails,
         SettleWrite, Resolve, Begin, BeginRefused, Close, CloseJob, CompleteApproval,
         Pause, PauseJob, EmitSuccess, NodeFailed, StoreError, RunTimeout,
         FinishSuccess, Jobs
<1>2. ASSUME NEW w \in Writes, Decide(w) \/ ExpirePending(w) PROVE FALSE
  BY <1>2 DEF Decide, ExpirePending, Close, CloseJob, RequeueJob, Jobs
<1>3. ASSUME RequestCancel PROVE FALSE
  <2>1. job'.status \in {"running", "cancelled"}
    BY <1>3 DEF RequestCancel, CancelRequested, Jobs
  <2> QED  BY <2>1
<1>4. ASSUME ResumeRun PROVE FALSE
  BY <1>4 DEF ResumeRun, ResumeJob, CreatedJob
<1>5. ASSUME Tick \/ UNCHANGED vars PROVE FALSE
  BY <1>5 DEF Tick, JobTick, Jobs, vars
<1> QED  BY <1>1, <1>2, <1>3, <1>4, <1>5 DEF Next

\* Nobody but the holder adds a marker, and a success has none.
LEMMA InHandStep ==
  ASSUME IInv, InHand, Recoverable \subseteq Gated, [Next]_vars
  PROVE  InHand'
<1> USE DEF IInv, TypeOK
<1>1. ASSUME NEW o \in Owners, SameAttempt(o), Holds(o)', writeNodes' \subseteq writeNodes,
             Holds(o), pc'[o] \in {"loaded", "graph", "orphan"}
      PROVE  MarkedOnlyAt(o)'
  BY <1>1 DEF InHand, MarkedOnlyAt, SameAttempt
<1>2. ASSUME NEW p \in Owners, Attempt(p), NEW o \in Owners, Holds(o)',
             pc'[o] \in {"loaded", "graph", "orphan"}
      PROVE  MarkedOnlyAt(o)'
  <2>1. CASE o = p
    BY <1>2, <2>1, HolderGetsPast
  <2>2. CASE o # p
    <3>1. SameAttempt(o)
      BY <1>2, <2>2, OthersUnmoved
    <3>2. Holds(o)
      BY <1>2, <3>1, HeldByClaim DEF Next, SameAttempt, ClaimNext, Claim, Goto
    <3>3. writeNodes' \subseteq writeNodes
      BY <1>2, <2>2, <3>2, AttemptEffects DEF AddsIfHolder, Holds
    <3> QED  BY <1>1, <1>2, <3>1, <3>2, <3>3
  <2> QED  BY <2>1, <2>2
<1>3. ASSUME job'.status = "success" PROVE writeNodes' = {}
  <2>1. CASE job.status = "success"
    <3>1. ASSUME NEW p \in Owners, Attempt(p) PROVE writeNodes' \subseteq writeNodes
      BY <2>1, <3>1, AttemptEffects DEF AddsIfHolder, Holds
    <3>2. CASE \/ \E w \in Writes : Decide(w) \/ ExpirePending(w)
               \/ RequestCancel \/ ResumeRun \/ Tick \/ UNCHANGED vars
      BY <2>1, <3>2, UserQuiet DEF UserUnchanged, InHand
    <3> QED  BY <2>1, <3>1, <3>2 DEF InHand, Next
  <2>2. CASE job.status # "success"
    <3>1. PICK p \in Owners : FinishSuccess(p) /\ Fence(p)
      BY <1>3, <2>2, SuccessByFinish
    <3>2. Holds(p) /\ pc[p] = "graph" /\ at[p] = NumWrites + 1 /\ UNCHANGED writeNodes
      BY <3>1 DEF FinishSuccess, FinishAs, Fence, Holds, runVars
    <3>3. NumWrites + 1 \notin Writes
      BY ExternalWriteAssumption DEF Writes
    <3> QED  BY <3>2, <3>3 DEF InHand, MarkedOnlyAt
  <2> QED  BY <2>1, <2>2
<1>4. ASSUME \/ \E w \in Writes : Decide(w) \/ ExpirePending(w)
             \/ RequestCancel \/ ResumeRun \/ Tick \/ UNCHANGED vars
      PROVE  \A o \in Owners : Holds(o)' /\ pc'[o] \in {"loaded", "graph", "orphan"}
                                 => MarkedOnlyAt(o)'
  <2>1. UNCHANGED writeNodes /\ \A o \in Owners : SameAttempt(o)
    BY <1>4, UserQuiet DEF UserUnchanged, SameAttempt, attemptVars
  <2>2. ASSUME NEW o \in Owners, Holds(o)', pc'[o] \in {"loaded", "graph", "orphan"}
        PROVE  MarkedOnlyAt(o)'
    <3>1. Holds(o)
      BY <2>1, <2>2, HeldByClaim DEF SameAttempt, ClaimNext, Claim, Goto
    <3> QED  BY <1>1, <2>1, <2>2, <3>1
  <2> QED  BY <2>2
<1> QED  BY <1>2, <1>3, <1>4 DEF InHand, Next

\* Where on_error continue is only on gated writes, no run that left a write
\* uncertain is shown as successful.
THEOREM UncertaintyShown ==
  ASSUME Recoverable \subseteq Gated
  PROVE  Spec => []UncertainNeverSucceeds
<1>1. Init => InHand
  BY DEF Init, LoopInit, CreatedJob, InHand, MarkedOnlyAt
<1>2. IInv /\ InHand /\ [Next]_vars => InHand'
  BY InHandStep
<1>3. IInv /\ InHand => UncertainNeverSucceeds
  BY DEF IInv, InHand, OutcomeOnRecord, UncertainNeverSucceeds
<1> QED  BY <1>1, <1>2, <1>3, InvariantHolds, PTL DEF Spec

-----------------------------------------------------------------------------
(***************************************************************************)
(* Ends.                                                                   *)
(***************************************************************************)

\* An attempt touches the row of a run that has ended in no way at all.
LEMMA EndedUntouched ==
  ASSUME TypeOK, NEW p \in Owners, Attempt(p), job.status \in EndedStatus
  PROVE  job' = job
<1> USE DEF TypeOK, Jobs, EndedStatus
<1>1. ~Fence(p) /\ ~Eligible
  BY DEF Fence, Eligible
<1>2. CASE ClaimNext(p) \/ LoadDocument(p) \/ Killed(p)
  BY <1>1, <1>2 DEF ClaimNext, Claim, LoadDocument, Killed, Crash
<1>3. CASE LoopStep(p) \/ FinishSuccess(p)
  BY <1>1, <1>3 DEF LoopStep, StartGraph, FinishCancelled, FinishFailed, FinishAs, Release,
       Heartbeat, PollCancel, PollError, Shutdown, HandleCancel, FinishSuccess
<1>4. CASE BeginRefused(p) \/ Pause(p)
  BY <1>1, <1>4 DEF BeginRefused, Pause
<1> QED
  BY <1>2, <1>3, <1>4
     DEF Attempt, Restore, LookupResult, MarkWrite, Send, Response, SendFails, SettleWrite,
         Resolve, Begin, CompleteApproval, EmitSuccess, NodeFailed, StoreError, RunTimeout

\* What a run that has ended may still see.
LEMMA EndsStep ==
  ASSUME TypeOK, [Next]_vars, job.status \in EndedStatus
  PROVE  \/ job'.status = job.status
         \/ job'.status = "cancelled" /\ \E w \in Writes : Waiting(w)
         \/ ResumeRun
<1> USE DEF TypeOK, Jobs, EndedStatus
<1>1. ASSUME NEW p \in Owners, Attempt(p) PROVE job'.status = job.status
  BY <1>1, EndedUntouched
<1>2. ASSUME NEW w \in Writes, Decide(w) \/ ExpirePending(w)
      PROVE  job'.status = "cancelled" /\ Waiting(w)
  BY <1>2 DEF Decide, ExpirePending, Close, CloseJob
<1>3. ASSUME RequestCancel \/ Tick \/ UNCHANGED vars PROVE job'.status = job.status
  BY <1>3 DEF RequestCancel, CancelRequested, Tick, JobTick, vars
<1> QED  BY <1>1, <1>2, <1>3 DEF Next

\* A run that ended with an uncertain write never runs again: the marker that is left
\* keeps resume_run out, and no decision requeues a run that has ended.
THEOREM UncertainStays == Spec => UncertainStaysEnded
<1> DEFINE Uncertain(w) == sent[w] > 0 /\ ~Settled(w)
           Stays == (\E w \in Writes : Uncertain(w)) /\ job.status \in EndedStatus
                      => job'.status \in EndedStatus
<1>1. IInv /\ [Next]_vars => Stays
  <2> SUFFICES ASSUME IInv, [Next]_vars, NEW w \in Writes, Uncertain(w),
                      job.status \in EndedStatus
               PROVE  job'.status \in EndedStatus
    OBVIOUS
  <2>1. w \in writeNodes /\ w \notin checkpoints
    BY DEF IInv, OutcomeOnRecord, RecordsSafe
  <2>2. ~ResumeRun
    BY <2>1 DEF ResumeRun, WritesSettled
  <2> QED  BY <2>2, EndsStep DEF IInv, EndedStatus
<1> QED  BY <1>1, InvariantHolds, PTL DEF UncertainStaysEnded, Spec

\* Every gated write an attempt has passed has its outcome, and so has every gated
\* write of a run that was successful.
GatedPassed ==
  /\ \A o \in Owners : \A w \in Gated : w < at[o] => Settled(w)
  /\ job.status = "success" => \A w \in Gated : Settled(w)

\* An attempt gets past a gated write with its outcome only, where none is recovered.
LEMMA GatedPassedStep ==
  ASSUME IInv, GatedPassed, Recoverable \cap Gated = {}, [Next]_vars
  PROVE  GatedPassed'
<1> USE DEF IInv, TypeOK
<1>a. \A w \in Gated : w \in Writes /\ (Settled(w) => Settled(w)')
  BY SettledStays, ExternalWriteAssumption
<1>1. ASSUME NEW o \in Owners PROVE at'[o] = at[o] \/ at'[o] = 1 \/ (Advance(o) /\ Attempt(o))
  <2>1. ASSUME NEW p \in Owners, Attempt(p)
        PROVE  at'[o] = at[o] \/ at'[o] = 1 \/ (Advance(o) /\ Attempt(o))
    <3>1. CASE o # p
      BY <2>1, <3>1, OthersUnmoved DEF SameAttempt
    <3>2. CASE o = p
      <4>1. UNCHANGED at \/ Forget(p) \/ Advance(p)
        BY <2>1 DEF Attempt, ClaimNext, LoadDocument, LoopStep, Killed, Restore,
             LookupResult, MarkWrite, Send, Response, SendFails, SettleWrite, Resolve,
             Begin, BeginRefused, CompleteApproval, Pause, EmitSuccess, NodeFailed,
             StoreError, RunTimeout, FinishSuccess, attemptVars, StepTo, GraphFails,
             GraphStops
      <4> QED  BY <2>1, <3>2, <4>1 DEF Forget
    <3> QED  BY <3>1, <3>2
  <2>2. CASE \/ \E w \in Writes : Decide(w) \/ ExpirePending(w)
             \/ RequestCancel \/ ResumeRun \/ Tick \/ UNCHANGED vars
    BY <2>2, UserQuiet DEF UserUnchanged, attemptVars
  <2> QED  BY <2>1, <2>2 DEF Next
<1>2. ASSUME NEW o \in Owners, Advance(o), Attempt(o), at'[o] # 1, at'[o] # at[o]
      PROVE  at'[o] = at[o] + 1 /\ (at[o] \in Gated => Settled(at[o]))
  <2>1. at'[o] = at[o] + 1 /\ step'[o] = "next" /\ UNCHANGED restored
    BY <1>2 DEF Advance
  <2>2. CASE EmitSuccess(o)
    BY <2>1, <2>2 DEF EmitSuccess, AttemptSafe
  <2>3. CASE NodeFailed(o)
    <3>1. at[o] \in Recoverable
      BY <1>2, <2>3 DEF NodeFailed, GraphFails, GraphStops, Forget
    <3> QED  BY <2>1, <3>1
  <2>4. CASE ~EmitSuccess(o) /\ ~NodeFailed(o)
    BY <1>2, <2>4 DEF Attempt, ClaimNext, LoadDocument, LoopStep, Killed, Restore,
         LookupResult, MarkWrite, Send, Response, SendFails, SettleWrite, Resolve, Begin,
         BeginRefused, CompleteApproval, Pause, StoreError, RunTimeout, FinishSuccess,
         attemptVars, StepTo, GraphFails, Forget
  <2> QED  BY <2>2, <2>3, <2>4
<1>3. ASSUME NEW o \in Owners, NEW w \in Gated, w < at'[o] PROVE Settled(w)'
  <2>1. at[o] \in 1 .. NumWrites + 1 /\ w \in 1 .. NumWrites /\ NumWrites \in Nat
    BY <1>a, ExternalWriteAssumption DEF Writes
  <2>2. CASE at'[o] = at[o]
    BY <1>a, <1>3, <2>2 DEF GatedPassed
  <2>3. CASE at'[o] = 1
    BY <1>3, <2>1, <2>3
  <2>4. CASE at'[o] = at[o] + 1 /\ (at[o] \in Gated => Settled(at[o]))
    <3>1. w < at[o] \/ w = at[o]
      BY <1>3, <2>1, <2>4
    <3> QED  BY <1>a, <2>4, <3>1 DEF GatedPassed
  <2> QED  BY <1>1, <1>2, <2>2, <2>3, <2>4
<1>4. ASSUME job'.status = "success", NEW w \in Gated PROVE Settled(w)'
  <2>1. CASE job.status = "success"
    BY <1>a, <2>1 DEF GatedPassed
  <2>2. CASE job.status # "success"
    <3>1. PICK p \in Owners : FinishSuccess(p)
      BY <1>4, <2>2, SuccessByFinish
    <3>2. at[p] = NumWrites + 1 /\ w \in 1 .. NumWrites /\ NumWrites \in Nat
      BY <1>a, <3>1, ExternalWriteAssumption DEF FinishSuccess, Writes
    <3>3. w < at[p]
      BY <3>2
    <3> QED  BY <1>a, <3>3 DEF GatedPassed
  <2> QED  BY <2>1, <2>2
<1> QED  BY <1>3, <1>4 DEF GatedPassed

\* Where no gated write is recovered by on_error, a run shown as successful stays so: none
\* of its approvals waits for a decision any more.
THEOREM SuccessLasts ==
  ASSUME Recoverable \cap Gated = {}
  PROVE  Spec => SuccessStands
<1>1. Init => GatedPassed
  BY ExternalWriteAssumption DEF Init, LoopInit, CreatedJob, GatedPassed, Writes
<1>2. IInv /\ GatedPassed /\ [Next]_vars => GatedPassed'
  BY GatedPassedStep
<1>3. IInv /\ GatedPassed /\ [Next]_vars
        => (job.status = "success" => job'.status = "success")
  <2> SUFFICES ASSUME IInv, GatedPassed, [Next]_vars, job.status = "success"
               PROVE  job'.status = "success"
    OBVIOUS
  <2>1. \A w \in Writes : ~Waiting(w)
    BY DEF GatedPassed, IInv, RecordsSafe, Settled, Waiting
  <2>2. ~ResumeRun
    BY DEF ResumeRun, ResumeJob
  <2> QED  BY <2>1, <2>2, EndsStep DEF IInv, EndedStatus
<1> QED  BY <1>1, <1>2, <1>3, InvariantHolds, PTL DEF SuccessStands, Spec
=============================================================================
