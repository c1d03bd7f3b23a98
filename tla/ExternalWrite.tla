--------------------------- MODULE ExternalWrite ----------------------------
(***************************************************************************)
(* External writes of one run: the marker, the request, its outcome, and   *)
(* the human approval some writes need, against the same job row and the   *)
(* same polling loop as in RunLease.                                       *)
(*                                                                         *)
(* The run's graph is a chain of write-capable tool nodes: validation      *)
(* keeps writes out of parallel branches.  The nodes are graph nodes, so   *)
(* that a write's invocation, its checkpoint owner and its marker are all  *)
(* the node's identifier, here its position in the chain.                  *)
(***************************************************************************)
EXTENDS WorkerLoop, FiniteSets

CONSTANTS
  NumWrites,    \* the length of the chain
  Gated,        \* the writes that need an approval
  Recoverable,  \* the nodes with on_error continue
  ApprovalTime  \* APPROVAL_TTL_SECONDS, in ticks

Writes == 1 .. NumWrites

ASSUME ExternalWriteAssumption ==
  /\ NumWrites \in Nat
  /\ Gated \subseteq Writes /\ Recoverable \subseteq Writes
  /\ ApprovalTime \in Nat \ {0}

VARIABLES
  checkpoints,   \* the nodes with a checkpoint
  writeNodes,    \* write_nodes: the markers of writes whose outcome is open
  results,       \* the writes with a row in action_results
  approval,      \* the row of run_approvals of each write
  terminal,      \* approval_terminal
  step,          \* per attempt: how far the current node's handler is
  at,            \* per attempt: the current node
  restored,      \* per attempt: the checkpoints of the document it was given
  sent           \* requests handed to the transport, ever

runVars == <<checkpoints, writeNodes, results, approval, terminal>>
attemptVars == <<step, at, restored>>
vars == <<job, pc, checkpoints, writeNodes, results, approval, terminal,
          step, at, restored, sent>>

(***************************************************************************)
(* next       the node's handler is entered                                *)
(* checked    an ungated write: no stored result, the request is valid     *)
(* marked     mark_write has committed                                     *)
(* resolved   a gated write: its approval row was read, the request is     *)
(*            the reviewed one                                             *)
(* begun      approvals.begin has committed                                *)
(* sent       the request is with the transport                            *)
(* answered   the response has arrived                                     *)
(* delivered  the node has its output and emits its success                *)
(* refused    the node failed with an ordinary error                       *)
(* pausing    ApprovalPause unwinds the graph                              *)
(***************************************************************************)
Step == {"next", "checked", "marked", "resolved", "begun", "sent",
         "answered", "delivered", "refused", "pausing"}

\* At these steps the handler awaits something, and the event loop of the
\* worker can run the polling loop or deliver a cancellation.
Awaiting == {"next", "marked", "begun", "sent", "delivered", "refused", "pausing"}

ApprovalStatus == {"none", "pending", "approved", "executing", "completed",
                   "rejected", "expired", "cancelled"}

\* "none": no row.  "left" is expires_at - time.time(); "owns" is owns_marker.
Approvals == [status: ApprovalStatus, left: 0 .. ApprovalTime, owns: BOOLEAN]

NoApproval == [status |-> "none", left |-> 0, owns |-> FALSE]

Init ==
  /\ LoopInit
  /\ checkpoints = {} /\ writeNodes = {} /\ results = {}
  /\ approval = [w \in Writes |-> NoApproval]
  /\ terminal = FALSE
  /\ step = [o \in Owners |-> "next"]
  /\ at = [o \in Owners |-> 1]
  /\ restored = [o \in Owners |-> {}]
  /\ sent = [w \in Writes |-> 0]

-----------------------------------------------------------------------------
(* Claiming and loading.                                                   *)

\* check_resume_writes: a marker is settled by its owner's checkpoint.
WritesSettled == writeNodes \subseteq checkpoints

\* The task and its local variables are gone.
Forget(o) ==
  /\ step' = [step EXCEPT ![o] = "next"]
  /\ at' = [at EXCEPT ![o] = 1]
  /\ restored' = [restored EXCEPT ![o] = {}]

ClaimNext(o) == Claim(o) /\ UNCHANGED <<runVars, attemptVars, sent>>

\* Mutant of LoadDocument: only resume_run looks at the markers.
LoadUnchecked(o) ==
  /\ pc[o] = "claimed"
  /\ Goto(o, "loaded") /\ restored' = [restored EXCEPT ![o] = checkpoints]
  /\ UNCHANGED <<job, runVars, step, at, sent>>

\* The document is read after the claim has committed; graph_run then checks
\* the markers it shows before it runs any node.
LoadDocument(o) ==
  /\ pc[o] = "claimed"
  /\ IF WritesSettled
     THEN Goto(o, "loaded") /\ restored' = [restored EXCEPT ![o] = checkpoints]
     ELSE Goto(o, "failing") /\ UNCHANGED restored
  /\ UNCHANGED <<job, runVars, step, at, sent>>

-----------------------------------------------------------------------------
(* The handler of the current node.                                        *)

InGraph(o, s) == Executing(o) /\ at[o] \in Writes /\ step[o] = s

\* The handler goes on to step s; nothing else of the attempt changes.
StepTo(o, s) == step' = [step EXCEPT ![o] = s] /\ UNCHANGED <<pc, at, restored>>

\* The exception ends the graph: _execute will finish the run as failed.
GraphFails(o) == GraphEnds(o, "failing") /\ Forget(o)

\* CancelledError inside the graph.
GraphStops(o) == GraphEnds(o, "stopping") /\ Forget(o)

Advance(o) == /\ at' = [at EXCEPT ![o] = @ + 1]
              /\ step' = [step EXCEPT ![o] = "next"]
              /\ UNCHANGED restored

\* A completed node is not executed: its outputs are emitted again.
Restore(o) ==
  /\ InGraph(o, "next") /\ at[o] \in restored[o]
  /\ StepTo(o, "delivered")
  /\ UNCHANGED <<job, runVars, sent>>

\* Mutants of LookupResult: the stored result, or the gate, is overlooked.
LookupNothing(o) ==
  /\ InGraph(o, "next") /\ at[o] \notin restored[o] \cup Gated
  /\ StepTo(o, "checked") /\ UNCHANGED <<job, runVars, sent>>
LookupUngated(o) ==
  /\ InGraph(o, "next") /\ at[o] \notin restored[o]
  /\ StepTo(o, IF at[o] \in results THEN "delivered" ELSE "checked")
  /\ UNCHANGED <<job, runVars, sent>>

\* An ungated write: completed_action (not fenced), then prepare_write, which
\* may refuse the request.
LookupResult(o) ==
  /\ InGraph(o, "next") /\ at[o] \notin restored[o] \cup Gated
  /\ IF at[o] \in results THEN StepTo(o, "delivered")
     ELSE StepTo(o, "checked") \/ StepTo(o, "refused")
  /\ UNCHANGED <<job, runVars, sent>>

MarkWrite(o) ==
  /\ InGraph(o, "checked")
  /\ IF Fence(o)
     THEN writeNodes' = writeNodes \cup {at[o]} /\ StepTo(o, "marked")
     ELSE UNCHANGED writeNodes /\ StepTo(o, "refused")
  /\ UNCHANGED <<job, checkpoints, results, approval, terminal, sent>>

\* From here on the request may arrive, at once or later.
Send(o) ==
  /\ InGraph(o, "marked") \/ InGraph(o, "begun")
  /\ sent' = [sent EXCEPT ![at[o]] = @ + 1]
  /\ StepTo(o, "sent")
  /\ UNCHANGED <<job, runVars>>

Response(o) ==
  /\ InGraph(o, "sent")
  /\ StepTo(o, "answered")
  /\ UNCHANGED <<job, runVars, sent>>

\* Mutant of SendFails: an error is taken for a request that did not leave.
SendFailsUnmarked(o) ==
  /\ InGraph(o, "marked") \/ InGraph(o, "begun") \/ InGraph(o, "sent")
  /\ GraphFails(o)
  /\ writeNodes' = writeNodes \ {at[o]}
  /\ UNCHANGED <<job, checkpoints, results, approval, terminal, sent>>

\* No response, an error status, or no connection: UncertainWriteError.
SendFails(o) ==
  /\ InGraph(o, "marked") \/ InGraph(o, "begun") \/ InGraph(o, "sent")
  /\ GraphFails(o)
  /\ UNCHANGED <<job, runVars, sent>>

\* The result and the end of the marker are one transaction.  It is outside
\* the try block: what it raises is an ordinary error.
SettleWrite(o) ==
  /\ InGraph(o, "answered") /\ at[o] \notin Gated
  /\ IF Fence(o)
     THEN /\ results' = results \cup {at[o]}
          /\ writeNodes' = writeNodes \ {at[o]}
          /\ StepTo(o, "delivered")
     ELSE UNCHANGED <<results, writeNodes>> /\ StepTo(o, "refused")
  /\ UNCHANGED <<job, checkpoints, approval, terminal, sent>>

-----------------------------------------------------------------------------
(* The handler of a gated write.                                           *)

\* _close: the row ends, and with it the run.
Close(w, status) ==
  /\ approval' = [approval EXCEPT ![w].status = status, ![w].left = 0]
  /\ CloseJob
  /\ terminal' = TRUE

\* resolve, then prepare_write and the comparison with what was reviewed.
Resolve(o) ==
  /\ InGraph(o, "next") /\ at[o] \in Gated \ restored[o]
  /\ \/ StepTo(o, "refused")
     \/ /\ Fence(o)
        /\ StepTo(o, CASE approval[at[o]].status = "none" -> "pausing"
                       [] approval[at[o]].status = "completed" -> "delivered"
                       [] OTHER -> "resolved")
  /\ UNCHANGED <<job, runVars, sent>>

\* begin, when it allows the write to be sent.
Begin(o) ==
  LET w == at[o] IN
  /\ InGraph(o, "resolved") /\ Fence(o) /\ ~job.cancel
  /\ approval[w].status = "approved" /\ approval[w].left > 0
  /\ approval' = [approval EXCEPT
       ![w] = [status |-> "executing", left |-> 0, owns |-> w \notin writeNodes]]
  /\ writeNodes' = writeNodes \cup {w}
  /\ StepTo(o, "begun")
  /\ UNCHANGED <<job, checkpoints, results, terminal, sent>>

\* begin, when it does not: the approval is executing (and so uncertain), has
\* expired, is no longer approved, or the run was cancelled.
BeginRefused(o) ==
  LET row == approval[at[o]] IN
  /\ InGraph(o, "resolved")
  /\ \/ /\ Fence(o) /\ row.status = "executing"
        /\ GraphFails(o) /\ UNCHANGED <<job, approval, terminal>>
     \/ /\ Fence(o) /\ row.status = "approved" /\ row.left = 0
        /\ Close(at[o], "expired") /\ StepTo(o, "refused")
     \/ /\ \/ ~Fence(o)
           \/ row.status \notin {"executing", "approved"}
           \/ row.status = "approved" /\ row.left > 0 /\ job.cancel
        /\ StepTo(o, "refused") /\ UNCHANGED <<job, approval, terminal>>
  /\ UNCHANGED <<checkpoints, writeNodes, results, sent>>

\* complete, inside the try block: whatever it raises is uncertainty.
CompleteApproval(o) ==
  LET w == at[o] IN
  /\ InGraph(o, "answered") /\ w \in Gated
  /\ IF Fence(o) /\ approval[w].status = "executing"
     THEN /\ approval' = [approval EXCEPT ![w].status = "completed"]
          /\ writeNodes' = IF approval[w].owns THEN writeNodes \ {w}
                                               ELSE writeNodes
          /\ StepTo(o, "delivered")
     ELSE UNCHANGED <<approval, writeNodes>> /\ GraphFails(o)
  /\ UNCHANGED <<job, checkpoints, results, terminal, sent>>

\* approvals.pause, or the handler of its failure.
Pause(o) ==
  LET w == at[o] IN
  /\ InGraph(o, "pausing")
  /\ \/ /\ pc[o] = "graph" /\ Fence(o) /\ PauseJob
        /\ approval[w].status \in {"none", "pending"}
        /\ approval' = [approval EXCEPT
             ![w] = IF @.status = "pending" THEN @
                    ELSE [status |-> "pending", left |-> ApprovalTime, owns |-> FALSE]]
        /\ Goto(o, "idle")
     \/ /\ GraphEnds(o, IF CancelSeen(o) THEN "cancelling" ELSE "failing")
        /\ UNCHANGED <<job, approval>>
  /\ Forget(o)
  /\ UNCHANGED <<checkpoints, writeNodes, results, terminal, sent>>

-----------------------------------------------------------------------------
(* The end of a node, and of the graph.                                    *)

\* The success event and the checkpoint are one fenced transaction; a commit
\* that has begun lands even if the attempt is stopping.
EmitSuccess(o) ==
  /\ Executing(o) \/ pc[o] = "stopping"
  /\ at[o] \in Writes /\ step[o] = "delivered"
  /\ IF Fence(o)
     THEN /\ checkpoints' = checkpoints \cup {at[o]}
          /\ Advance(o) /\ UNCHANGED pc
     ELSE /\ UNCHANGED checkpoints
          /\ GraphStops(o)
  /\ UNCHANGED <<job, writeNodes, results, approval, terminal, sent>>

\* An ordinary failure: under on_error continue the run goes on without the
\* node, whose recovered event is fenced and leaves no checkpoint.
NodeFailed(o) ==
  /\ InGraph(o, "refused")
  /\ CASE at[o] \notin Recoverable -> GraphFails(o)
       [] at[o] \in Recoverable /\ Fence(o) -> Advance(o) /\ UNCHANGED pc
       [] OTHER -> GraphStops(o)
  /\ UNCHANGED <<job, runVars, sent>>

\* Mutant of StoreError: complete outside the try block, as settle_write is.
StoreErrorOrdinary(o) ==
  /\ \E s \in {"next", "checked", "resolved", "answered"} : InGraph(o, s)
  /\ StepTo(o, "refused") /\ UNCHANGED <<job, runVars, sent>>

\* A transaction of the handler fails in the database and is rolled back.
\* on_error covers the execution of the node, not its restoration or emit.
StoreError(o) ==
  /\ \/ /\ \E s \in {"next", "checked", "resolved"} : InGraph(o, s)
        /\ IF at[o] \in restored[o] THEN GraphFails(o) ELSE StepTo(o, "refused")
     \/ /\ InGraph(o, "answered") /\ at[o] \notin Gated
        /\ StepTo(o, "refused")
     \/ /\ InGraph(o, "answered") /\ at[o] \in Gated
        /\ GraphFails(o)
     \/ /\ InGraph(o, "delivered") \/ InGraph(o, "refused")
        /\ GraphFails(o)
  /\ UNCHANGED <<job, runVars, sent>>

\* RUN_TIMEOUT_SECONDS have passed; the graph is cancelled where it awaits.
RunTimeout(o) ==
  /\ Executing(o) /\ step[o] \in Awaiting
  /\ GraphFails(o)
  /\ UNCHANGED <<job, runVars, sent>>

FinishSuccess(o) ==
  /\ at[o] = NumWrites + 1
  /\ FinishAs(o, "graph", "success") /\ Forget(o)
  /\ UNCHANGED <<runVars, sent>>

\* The outer loop shares one thread with the handler.
LoopStep(o) ==
  /\ \/ /\ StartGraph(o) \/ FinishCancelled(o) \/ FinishFailed(o) \/ Release(o)
        /\ UNCHANGED attemptVars
     \/ /\ step[o] \in Awaiting
        /\ Heartbeat(o) \/ PollCancel(o) \/ PollError(o) \/ Shutdown(o)
        /\ UNCHANGED attemptVars
     \/ HandleCancel(o) /\ Forget(o)
  /\ UNCHANGED <<runVars, sent>>

Killed(o) == Crash(o) /\ Forget(o) /\ UNCHANGED <<runVars, sent>>

-----------------------------------------------------------------------------
(* The user, the sweep and the clock.                                      *)

UserUnchanged == UNCHANGED <<pc, checkpoints, writeNodes, results, attemptVars, sent>>

Waiting(w) == approval[w].status \in {"pending", "approved"}

\* decide, when it takes effect on a waiting row.
Decide(w) ==
  /\ ~job.cancel /\ ~terminal /\ Waiting(w)
  /\ \/ approval[w].left = 0 /\ Close(w, "expired")
     \/ /\ approval[w].left > 0 /\ approval[w].status = "pending"
        /\ job.status = "awaiting_approval"
        /\ \/ Close(w, "rejected")
           \/ /\ approval' = [approval EXCEPT ![w].status = "approved"]
              /\ RequeueJob
              /\ UNCHANGED terminal
  /\ UserUnchanged

\* expire_pending checks everything again under the job's lock.
ExpirePending(w) ==
  /\ Waiting(w) /\ approval[w].left = 0
  /\ job.status \in {"awaiting_approval", "queued"}
  /\ Close(w, "expired")
  /\ UserUnchanged

\* Mutants of the two actions below.
RequestCancelOnly == CancelRequested /\ UNCHANGED <<approval, terminal>> /\ UserUnchanged
ResumeUnsettled ==
  ~terminal /\ ResumeJob /\ UNCHANGED <<approval, terminal>> /\ UserUnchanged

\* request_cancel ends the waiting approvals of a run nobody is executing.
RequestCancel ==
  /\ CancelRequested
  /\ IF job.status = "running"
     THEN UNCHANGED <<approval, terminal>>
     ELSE /\ approval' = [w \in Writes |->
               IF Waiting(w) THEN [approval[w] EXCEPT !.status = "cancelled", !.left = 0]
                             ELSE approval[w]]
          /\ terminal' = (terminal \/ \E w \in Writes : Waiting(w))
  /\ UserUnchanged

ResumeRun ==
  /\ ~terminal /\ WritesSettled
  /\ ResumeJob
  /\ UNCHANGED <<approval, terminal>> /\ UserUnchanged

\* A tick for the lease and for every waiting approval.
Tick ==
  /\ \/ JobTick
     \/ /\ job.lease = NoLease /\ \E w \in Writes : Waiting(w) /\ approval[w].left > 0
        /\ UNCHANGED job
  /\ approval' = [w \in Writes |->
       IF approval[w].left > 0 THEN [approval[w] EXCEPT !.left = @ - 1]
                               ELSE approval[w]]
  /\ UNCHANGED terminal /\ UserUnchanged

Attempt(o) ==
  \/ ClaimNext(o) \/ LoadDocument(o) \/ LoopStep(o) \/ Killed(o)
  \/ Restore(o) \/ LookupResult(o) \/ MarkWrite(o) \/ Send(o) \/ Response(o)
  \/ SendFails(o) \/ SettleWrite(o) \/ Resolve(o) \/ Begin(o)
  \/ BeginRefused(o) \/ CompleteApproval(o) \/ Pause(o) \/ EmitSuccess(o)
  \/ NodeFailed(o) \/ StoreError(o) \/ RunTimeout(o) \/ FinishSuccess(o)

Next == \/ \E o \in Owners : Attempt(o)
        \/ \E w \in Writes : Decide(w) \/ ExpirePending(w)
        \/ RequestCancel \/ ResumeRun \/ Tick

Spec == Init /\ [][Next]_vars

-----------------------------------------------------------------------------
(* Properties.                                                             *)

\* The type invariant.
TypeOK ==
  /\ job \in Jobs /\ pc \in [Owners -> LoopState]
  /\ checkpoints \subseteq Writes /\ writeNodes \subseteq Writes
  /\ results \subseteq Writes
  /\ approval \in [Writes -> Approvals] /\ terminal \in BOOLEAN
  /\ step \in [Owners -> Step] /\ at \in [Owners -> 1 .. NumWrites + 1]
  /\ restored \in [Owners -> SUBSET Writes]
  /\ sent \in [Writes -> Nat]

Settled(w) == w \in results \/ approval[w].status = "completed"

Phase(w) == IF Settled(w) THEN "settled"
            ELSE IF sent[w] > 0 THEN "sent"
            ELSE IF w \in writeNodes THEN "marked"
            ELSE "idle"

\* Whatever workers, users and the clock do, a write is marked before it is
\* sent, leaves at most once and is settled after it was sent.
Promise == INSTANCE WriteOnce WITH
  phase <- [w \in Writes |-> Phase(w)], requests <- sent

ImplementsWriteOnce == Promise!Spec

\* No request leaves twice: not after a lost lease, not after a crash on
\* either side of the request, not after resume.
SentAtMostOnce == \A w \in Writes : sent[w] <= 1

\* A request that left is never forgotten: its marker stays until its outcome
\* is recorded, so that resume can refuse or return the outcome.
OutcomeOnRecord ==
  \A w \in Writes : sent[w] > 0 => Settled(w) \/ w \in writeNodes

\* A gated write leaves only after a person approved it.  "No external request was
\* sent", which the run says when an approval was rejected, expired or cancelled,
\* is therefore true, and stays true (approvals._close, request_cancel).
SentOnlyApproved ==
  \A w \in Gated : sent[w] > 0 => approval[w].status \in {"executing", "completed"}

\* A run waits for a person only while there is an approval to decide on, and
\* an approval waits for a decision only while its run does.
WaitsForADecision ==
  LET open == \E w \in Writes : approval[w].status = "pending" IN
  /\ job.status = "awaiting_approval" => open
  /\ open => job.status = "awaiting_approval" \/ terminal

\* README 2.3: on_error continue cannot hide uncertainty.
UncertainNeverSucceeds ==
  job.status = "success" => \A w \in Writes : sent[w] > 0 => Settled(w)

\* A run that ended with an uncertain write never runs again (check_resume_writes,
\* resume_run, decide).
UncertainStaysEnded ==
  [][(\E w \in Writes : sent[w] > 0 /\ ~Settled(w)) /\ job.status \in EndedStatus
       => job'.status \in EndedStatus]_vars

\* What docs/operations.md says of a repeated approval: it is idempotent, so that a run
\* shown as successful stays successful.
SuccessStands == [][job.status = "success" => job'.status = "success"]_vars
=============================================================================
