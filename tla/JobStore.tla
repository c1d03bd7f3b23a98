------------------------------ MODULE JobStore ------------------------------
(***************************************************************************)
(* The row of execution_jobs that belongs to one run, and the transactions *)
(* of storage.py and approvals.py that change it.  A transaction begins by *)
(* locking this row (the fence UPDATE, or UPDATE ... SET run_id = run_id), *)
(* so each one is a single action here.                                    *)
(*                                                                         *)
(* The status column of the run itself is assigned the job's status in     *)
(* every one of these transactions, so one field stands for both.          *)
(*                                                                         *)
(* Time is relative: "lease" is what lease_until - time.time() amounts to, *)
(* in ticks.  A positive lease is held, a negative one has expired and the *)
(* value 0 is the instant at which lease_until equals the clock, when the  *)
(* owner may not act any more and nobody else may claim the run yet.       *)
(***************************************************************************)
EXTENDS Integers

CONSTANTS
  Owners,     \* claim_owner identifiers: one is made for every claim
  NoOwner,    \* the empty string in the owner column
  LeaseTime   \* lease_seconds, in ticks

ASSUME JobStoreAssumption ==
  /\ NoOwner \notin Owners
  /\ LeaseTime \in Nat \ {0}

VARIABLE job

-----------------------------------------------------------------------------

EndedStatus == {"success", "failed", "cancelled"}
JobStatus == {"queued", "running", "awaiting_approval"} \cup EndedStatus

\* lease_until = 0: long past.
NoLease == -1

Jobs == [status: JobStatus, owner: Owners \cup {NoOwner},
         lease: NoLease .. LeaseTime, cancel: BOOLEAN]

\* create_run: the run and its job row are committed together, queued.
CreatedJob ==
  [status |-> "queued", owner |-> NoOwner, lease |-> NoLease, cancel |-> FALSE]

-----------------------------------------------------------------------------
(* What a transaction reads.                                               *)

\* Mutants of the reads below.
EligibleQueuedOnly == job.status = "queued"
FenceIgnoringOwner(o) == job.status = "running" /\ job.lease > 0

\* o is the owner in the row of a running run, its lease expired or not.
Holds(o) == job.owner = o /\ job.status = "running"

\* The condition of claim_next's conditional UPDATE.
Eligible ==
  \/ job.status = "queued"
  \/ job.status = "running" /\ job.lease < 0

\* _fence: the UPDATE matches a row only while o holds an unexpired lease.
Fence(o) ==
  /\ job.owner = o
  /\ job.status = "running"
  /\ job.lease > 0

\* cancel_requested: also true for a worker that is no longer the owner.
CancelSeen(o) == job.owner # o \/ job.status # "running" \/ job.cancel

-----------------------------------------------------------------------------
(* What a transaction writes.  Every one but the claim by an owner is      *)
(* fenced by its caller.                                                   *)

\* Mutant of finish_run below.
FinishIgnoringCancel(status) ==
  job' = [job EXCEPT !.status = status, !.lease = NoLease]

ClaimJob(o) ==
  job' = [job EXCEPT !.status = "running", !.owner = o, !.lease = LeaseTime]

RenewLease == job' = [job EXCEPT !.lease = LeaseTime]

\* finish_run: a requested cancellation wins over the worker's own outcome.
FinishJob(status) ==
  job' = [job EXCEPT !.status = IF job.cancel THEN "cancelled" ELSE status,
                     !.lease = NoLease]

\* release leaves cancel_requested as it is.
ReleaseJob ==
  job' = [job EXCEPT !.status = "queued", !.owner = NoOwner, !.lease = NoLease]

\* The status half of approvals.pause.
PauseJob ==
  /\ ~job.cancel
  /\ job' = [job EXCEPT !.status = "awaiting_approval", !.owner = NoOwner,
                        !.lease = NoLease]

\* The status half of approvals.decide, when it approves.
RequeueJob ==
  job' = [job EXCEPT !.status = "queued", !.owner = NoOwner, !.lease = NoLease]

\* The status half of approvals._close.
CloseJob ==
  job' = [job EXCEPT !.status = "cancelled", !.owner = NoOwner, !.lease = NoLease]

\* request_cancel: a run nobody is executing is cancelled at once, a running
\* one is only flagged.
CancelRequested ==
  /\ job.status \notin EndedStatus
  /\ job' = [job EXCEPT
       !.status = IF job.status = "running" THEN "running" ELSE "cancelled",
       !.cancel = TRUE]

\* resume_run, once its checks have passed.
ResumeJob ==
  /\ job.status \in {"failed", "cancelled"}
  /\ job' = CreatedJob

\* One tick of the clock, as far as this row can tell.
JobTick ==
  /\ job.lease > NoLease
  /\ job' = [job EXCEPT !.lease = @ - 1]
=============================================================================
