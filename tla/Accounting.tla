----------------------------- MODULE Accounting -----------------------------
(***************************************************************************)
(* What a run has spent: the snapshot kept in memory by each attempt, the  *)
(* copy on record, and how the two are kept together while the branches of *)
(* a fork commit concurrently and attempts crash, stall and are resumed.   *)
(*                                                                         *)
(* The run is a fork of "query" nodes, each an action (the retrieval) and  *)
(* a model call, and of "llm" nodes, a model call only, joined before one  *)
(* external write that needs an approval.  A lease is reduced to its       *)
(* holder: it may pass to a new attempt at any time, and a write of any    *)
(* other attempt is refused.                                               *)
(***************************************************************************)
EXTENDS Integers, FiniteSets, Sequences

CONSTANTS
  Owners,      \* claim owners; each serves one attempt
  Queries,     \* branches of the fork with a query node
  Models,      \* branches of the fork with an llm node
  Gated,       \* the approved write after the join
  Ceiling,     \* AGENT_RUN_BUDGET
  Limit,       \* RELAY_RUN_TOKEN_LIMIT; 0: none
  Retried      \* the branches whose node has retry.attempts = 1

Branches == Queries \cup Models
Tasks == Branches \cup {Gated}

ASSUME AccountingAssumption ==
  /\ Gated \notin Branches /\ Queries \cap Models = {} /\ IsFiniteSet(Branches)
  /\ Ceiling \in Nat /\ Limit \in Nat /\ Retried \subseteq Branches

VARIABLES
  holder,      \* the owner whose lease the fence accepts; {} if nobody's
  fresh,       \* the owners that have not claimed yet
  accounting,  \* the accounting column of the run
  checkpoints, \* the tasks with a checkpoint
  approval,    \* the row of run_approvals
  mem,         \* per attempt: run_state, its durability and its publications
  stage,       \* per attempt and task: where the handler stands
  try,         \* per attempt and task: the current try of its policy
  lock,        \* per attempt: the task whose commit is running, if any
  taken,       \* per attempt: the publication that commit saves
  ran,         \* per task: executions of its action, ever
  void         \* per task: charged tries that ended without an execution

durable == <<accounting, checkpoints, approval>>
vars == <<holder, fresh, durable, mem, stage, try, lock, taken, ran, void>>

(***************************************************************************)
(* Stages whose handler waits for a commit, and what the commit is for:    *)
(*   starting    the running event        reserving   a charged action     *)
(*   readying    spend, before a request  recording   spend, after one     *)
(*   rejecting   spend, after an answer that was rejected                  *)
(*   retrying    a retrying event         publishing  result + checkpoint  *)
(*   failing     a failed event           pausing     a paused event       *)
(*   cancelling  a cancelled event                                         *)
(***************************************************************************)
Committing == {"starting", "reserving", "readying", "recording", "rejecting",
               "retrying", "publishing", "failing", "pausing", "cancelling"}
Over == {"idle", "done", "ended"}
Stages == Committing \cup Over \cup
          {"acting", "calling", "paused"}

\* The debits of a task.  The list "charged" has one key per debit; counter and
\* remaining go with its length.
Charges(charged, t) == Cardinality({i \in DOMAIN charged : charged[i] = t})

\* accounting_snapshot
Snapshot(m) == [spent |-> m.baseline + m.used, charged |-> m.charged,
                deferred |-> m.deferred]

\* Mutant: ordered by generation alone, which an action debit does not change.
PublishedByGeneration(m) ==
  IF m.gen > m.latest.gen
  THEN [m EXCEPT !.latest = [gen |-> m.gen, snap |-> Snapshot(m)]] ELSE m

\* AccountingPublications.update: the newest snapshot and its generation.
Published(m) == [m EXCEPT !.latest = [gen |-> m.gen, snap |-> Snapshot(m)]]

Pending(m) == m.ack < m.gen

\* Mutants: the ceiling forgets earlier attempts; a generation is acknowledged
\* that the committed snapshot does not contain.
ExhaustedThisAttempt(m) == Limit # 0 /\ m.used >= Limit
AcknowledgedNow(m, gen) == [m EXCEPT !.ack = m.gen]

\* token_budget.exhausted
Exhausted(m) == Limit # 0 /\ m.baseline + m.used >= Limit

Acknowledged(m, gen) == [m EXCEPT !.ack = IF gen > @ THEN gen ELSE @]

\* run_state of an attempt, from the document it claimed.
Restored(snap) ==
  [baseline |-> snap.spent, used |-> 0, charged |-> snap.charged,
   deferred |-> snap.deferred, gen |-> 0, ack |-> 0,
   latest |-> [gen |-> 0, snap |-> snap], dying |-> FALSE]

Zero == [spent |-> 0, charged |-> <<>>, deferred |-> FALSE]
Nothing == [gen |-> 0, snap |-> Zero]
Gone == [Restored(Zero) EXCEPT !.dying = TRUE]

Init ==
  /\ holder = {} /\ fresh = Owners
  /\ accounting = Zero /\ checkpoints = {} /\ approval = "none"
  /\ mem = [o \in Owners |-> Restored(Zero)]
  /\ stage = [o \in Owners |-> [t \in Tasks |-> "idle"]]
  /\ try = [o \in Owners |-> [t \in Tasks |-> 0]]
  /\ lock = [o \in Owners |-> {}]
  /\ taken = [o \in Owners |-> Nothing]
  /\ ran = [t \in Tasks |-> 0] /\ void = [t \in Tasks |-> 0]

-----------------------------------------------------------------------------
(* What a handler does without awaiting anything: the stage it gets to and *)
(* what its attempt then remembers.                                        *)

Gets(s, m) == [stage |-> s, mem |-> m]
Emits(s, m) == Gets(s, Published(m))

\* ensure_accounting_ready: the known spend is made durable, again and again
\* while other branches report more, before the request is sent.
Readied(m) == IF Pending(m) THEN Emits("readying", m) ELSE Gets("calling", m)

\* llm_node refuses an exhausted run; otherwise call_model.
Admitted(m) == IF Exhausted(m) THEN Emits("failing", m) ELSE Readied(m)

\* The operation of a try: an llm node goes straight to its model.
Operates(t, m) == IF t \in Models THEN Admitted(m) ELSE Gets("acting", m)

\* charge_first_attempt or attempt > 0: a model call is not an action, but
\* trying its node again is.
IsCharged(t, n) == t \notin Models \/ n > 0

\* execute_with_policy before the operation of try n: a reservation deferred
\* by a pause is used, or an action is charged and persisted first.
Reserves(t, n, m) ==
  IF ~IsCharged(t, n) THEN Operates(t, m)
  ELSE IF t = Gated /\ m.deferred /\ n = 0
  THEN Operates(t, [m EXCEPT !.deferred = FALSE])
  ELSE IF Len(m.charged) < Ceiling
  THEN Emits("reserving", [m EXCEPT !.charged = Append(@, t)])
  ELSE Emits("failing", m)

\* A transient error is tried again, while there are tries.
Errs(t, n, m) ==
  Emits(IF t \in Retried /\ n = 0 THEN "retrying" ELSE "failing", m)

\* The commit of stage s is over.
Continues(t, n, s, m) ==
  CASE s = "starting"  -> Reserves(t, n, m)
    [] s = "retrying"  -> Reserves(t, n + 1, m)
    [] s = "reserving" -> Operates(t, m)
    [] s = "readying"  -> Readied(m)
    [] s = "recording" -> Emits("publishing", m)
    [] s = "rejecting" -> Errs(t, n, m)
    [] s = "pausing"   -> Gets("paused", m)
    [] s = "publishing" -> Gets("done", m)
    [] OTHER           -> Gets("ended", [m EXCEPT !.dying = TRUE])

-----------------------------------------------------------------------------
(* The steps of an attempt.                                                *)

Alive(o) == o \notin fresh
At(o, t, s) == Alive(o) /\ stage[o][t] = s
Sets(o, t, s) == stage' = [stage EXCEPT ![o][t] = s]
Remembers(o, m) == mem' = [mem EXCEPT ![o] = m]
\* An attempt whose last task ends is gone, with everything it knew.
Steps(o, t, s, m) ==
  /\ Sets(o, t, s)
  /\ Remembers(o, IF m.dying /\ \A u \in Tasks : stage'[o][u] \in Over
                  THEN Gone ELSE m)
Goes(o, t, next) == Steps(o, t, next.stage, next.mem)
Running(o) == Alive(o) /\ ~mem[o].dying

\* The run may be claimed: queued, or running with a lease that has expired.
\* An attempt that crashed, failed or was released leaves the same choice.  One
\* whose write is executing left its marker: check_resume_writes lets no node run.
Claim(o) ==
  /\ o \in fresh /\ approval \in {"none", "approved", "completed"}
  /\ fresh' = fresh \ {o} /\ holder' = {o}
  /\ Remembers(o, Restored(accounting))
  /\ stage' = [stage EXCEPT ![o] = [t \in Tasks |->
                 IF t \in checkpoints THEN "done" ELSE "idle"]]
  /\ UNCHANGED <<durable, try, lock, taken, ran, void>>

\* A node starts when those before it are done, and emits its running event.
Start(o, t) ==
  /\ Running(o) /\ At(o, t, "idle")
  /\ t = Gated => \A b \in Branches : stage[o][b] = "done"
  /\ Steps(o, t, "starting", Published(mem[o]))
  /\ UNCHANGED <<holder, fresh, durable, try, lock, taken, ran, void>>

\* Mutant: the pause does not defer the reservation.
Undeferred(snap) == snap

\* approvals.pause adds the deferral to the snapshot it saves.
Deferred(snap) == [snap EXCEPT !.deferred = TRUE]

\* A retrieval is over; it may fail transiently.
Retrieve(o, t) ==
  /\ Running(o) /\ At(o, t, "acting") /\ t \in Queries
  /\ \/ Goes(o, t, Admitted(mem[o]))
     \/ Goes(o, t, Errs(t, try[o][t], mem[o]))
  /\ UNCHANGED <<holder, fresh, durable, try, lock, taken, ran, void>>

\* The operation of the write: refuse without the lease, pause for the
\* decision, find the request no longer valid, send it, with or without an
\* outcome, or answer with the stored result.
Write(o) ==
  /\ Running(o) /\ At(o, Gated, "acting")
  /\ \/ /\ approval = "none" /\ holder = {o}
        /\ Steps(o, Gated, "pausing", Published(mem[o]))
        /\ UNCHANGED <<approval, ran, void>>
     \/ /\ approval = "approved" /\ holder = {o}
        /\ ran' = [ran EXCEPT ![Gated] = @ + 1]
        /\ \/ /\ approval' = "completed"
              /\ Steps(o, Gated, "publishing", Published(mem[o]))
           \/ /\ approval' = "executing"
              /\ Steps(o, Gated, "failing", Published(mem[o]))
        /\ UNCHANGED void
     \/ /\ void' = [void EXCEPT ![Gated] = @ + 1]
        /\ \/ Steps(o, Gated, "failing", Published(mem[o]))
           \/ /\ approval = "completed" /\ holder = {o}
              /\ Steps(o, Gated, "publishing", Published(mem[o]))
        /\ UNCHANGED <<approval, ran>>
  /\ UNCHANGED <<holder, fresh, accounting, checkpoints, try, lock, taken>>

\* The provider answers, or its answer is rejected: account_usage, then
\* record_spend.  A call that sent nothing adds nothing.  (One token stands
\* for the usage of a call.)
Respond(o, t) ==
  LET paid == [mem[o] EXCEPT !.used = @ + 1, !.gen = @ + 1] IN
  /\ Running(o) /\ At(o, t, "calling")
  /\ \/ Steps(o, t, "recording", Published(paid))
     \/ Steps(o, t, "rejecting", Published(paid))
     \/ Goes(o, t, Errs(t, try[o][t], mem[o]))
  /\ UNCHANGED <<holder, fresh, durable, try, lock, taken, ran, void>>

-----------------------------------------------------------------------------
(* Commits.                                                                *)

\* commit: under the lock, the newest publication is taken.
TakeLock(o, t) ==
  /\ Alive(o) /\ stage[o][t] \in Committing /\ lock[o] = {}
  /\ lock' = [lock EXCEPT ![o] = {t}]
  /\ taken' = [taken EXCEPT ![o] = mem[o].latest]
  /\ UNCHANGED <<holder, fresh, durable, mem, stage, try, ran, void>>

Unlocks(o) ==
  lock' = [lock EXCEPT ![o] = {}] /\ taken' = [taken EXCEPT ![o] = Nothing]

\* _set_accounting refuses a lower total, and the transaction with it.
Lowers(snap) == snap.spent < accounting.spent

\* What the transaction of task t does to the run, if it goes through.
Saves(o, t) ==
  /\ holder = {o} /\ ~Lowers(taken[o].snap)
  /\ accounting' = taken[o].snap
  /\ checkpoints' = IF stage[o][t] = "publishing" THEN checkpoints \cup {t}
                    ELSE checkpoints

\* The commit returns to a cancelled caller: its node reports that it was
\* cancelled, except after the event that told its outcome.
Interrupted(s) ==
  IF s = "publishing" THEN "done"
  ELSE IF s \in {"failing", "pausing", "cancelling"} THEN "ended"
  ELSE "cancelling"

\* A charged try whose action has not run; it may still wait for a decision.
UnderWay(o, t) ==
  \/ stage[o][t] = "reserving"
  \/ t = Gated /\ stage[o][t] \in {"acting", "pausing", "paused"}
Voided(o, T) ==
  void' = [t \in Tasks |-> IF t \in T /\ UnderWay(o, t) THEN void[t] + 1 ELSE void[t]]

\* The graph fails at task t: the attempt is ending, its siblings cancelled.
EndsAt(o, t) ==
  /\ Steps(o, t, "ended", [mem[o] EXCEPT !.dying = TRUE])
  /\ Voided(o, {t})

Commits(o, t) ==
  LET s == stage[o][t]
      known == Acknowledged(mem[o], taken[o].gen) IN
  /\ Alive(o) /\ lock[o] = {t} /\ Saves(o, t)
  /\ Unlocks(o)
  /\ IF mem[o].dying
     THEN Steps(o, t, Interrupted(s), Published(known)) /\ Voided(o, {t})
     ELSE Goes(o, t, Continues(t, try[o][t], s, known)) /\ UNCHANGED void
  /\ ran' = IF s = "reserving" /\ t \in Branches /\ ~mem[o].dying
            THEN [ran EXCEPT ![t] = @ + 1] ELSE ran
  /\ try' = IF s = "retrying" THEN [try EXCEPT ![o][t] = @ + 1] ELSE try
  /\ UNCHANGED <<holder, fresh, approval>>

\* The transaction is refused or fails, or its success is never learnt of.
\* Only record_spend goes on; a reservation that fails to be saved for
\* another reason than the lease is an ordinary failure of its node.
CommitLost(o, t) ==
  LET s == stage[o][t] IN
  /\ Alive(o) /\ lock[o] = {t}
  /\ Unlocks(o)
  /\ \/ UNCHANGED <<accounting, checkpoints>>
     \/ Saves(o, t)
  /\ IF mem[o].dying
     THEN EndsAt(o, t)
     ELSE CASE s \in {"recording", "rejecting"} ->
                 Goes(o, t, Continues(t, try[o][t], s, mem[o])) /\ UNCHANGED void
            [] s = "reserving" /\ holder = {o} ->
                 Goes(o, t, Emits("failing", mem[o])) /\ Voided(o, {t})
            [] OTHER -> EndsAt(o, t)
  /\ UNCHANGED <<holder, fresh, approval, try, ran>>

\* A sibling of a failed node is cancelled where it waits, and reports it.
Cancelled(o, t) ==
  /\ Alive(o) /\ mem[o].dying /\ lock[o] # {t}
  /\ stage[o][t] \notin Over \cup {"cancelling"}
  /\ Steps(o, t, "cancelling", Published(mem[o]))
  /\ Voided(o, {t})
  /\ UNCHANGED <<holder, fresh, durable, try, lock, taken, ran>>

\* The ApprovalPause handler: the frame and the frozen accounting, with the
\* reservation deferred, in the transaction that gives up the lease.
Pause(o) ==
  LET frozen == mem[o].latest.snap IN
  /\ At(o, Gated, "paused") /\ lock[o] = {}
  /\ Steps(o, Gated, "ended", [mem[o] EXCEPT !.dying = TRUE])
  /\ IF holder = {o} /\ ~Lowers(frozen)
     THEN /\ accounting' = Deferred(frozen)
          /\ approval' = "pending" /\ holder' = {}
          /\ UNCHANGED void
     ELSE UNCHANGED <<accounting, approval, holder>> /\ Voided(o, {Gated})
  /\ UNCHANGED <<fresh, checkpoints, try, lock, taken, ran>>

Decide ==
  /\ approval = "pending"
  /\ approval' \in {"approved", "rejected"}
  /\ UNCHANGED <<holder, fresh, accounting, checkpoints, mem, stage, try, lock,
                 taken, ran, void>>

\* The process dies with everything its attempt knew.
Crash(o) ==
  /\ Alive(o) /\ \E t \in Tasks : stage[o][t] \notin Over
  /\ stage' = [stage EXCEPT ![o] = [t \in Tasks |-> "ended"]]
  /\ Remembers(o, Gone)
  /\ try' = [try EXCEPT ![o] = [t \in Tasks |-> 0]]
  /\ Unlocks(o)
  /\ Voided(o, Tasks)
  /\ UNCHANGED <<holder, fresh, durable, ran>>

Next ==
  \/ \E o \in Owners : Claim(o) \/ Write(o) \/ Pause(o) \/ Crash(o)
  \/ \E o \in Owners, t \in Tasks :
       \/ Start(o, t) \/ Retrieve(o, t) \/ Respond(o, t) \/ TakeLock(o, t)
       \/ Commits(o, t) \/ CommitLost(o, t) \/ Cancelled(o, t)
  \/ Decide

Spec == Init /\ [][Next]_vars

-----------------------------------------------------------------------------
(* No action is executed that was not charged on record before, whatever   *)
(* crashes, concurrent commits and resumes lie in between; and the charges *)
(* stay under the ceiling of the run (execution_policy.py: reserve before  *)
(* spending).                                                              *)
ActionsPaidFirst ==
  /\ \A t \in Tasks : ran[t] <= Charges(accounting.charged, t)
  /\ Len(accounting.charged) <= Ceiling

(* The converse: a charge belongs to an execution, to a try that ended     *)
(* without one, to a try under way, or to the approval being waited for.   *)
(* An approved write is not charged a second time (approvals.pause).       *)
ChargedOnce ==
  \A t \in Tasks :
    Charges(accounting.charged, t) <=
      ran[t] + void[t] + Cardinality({o \in Owners : UnderWay(o, t)})
      + (IF t = Gated /\ accounting.deferred THEN 1 ELSE 0)

(* A model request starts only when everything its attempt knows to be     *)
(* spent is on record (ensure_accounting_ready), although another branch   *)
(* may report more while a save is in flight.                              *)
RequestsOnRecord ==
  [][\A o \in Owners, t \in Tasks :
       stage[o][t] # "calling" /\ stage'[o][t] = "calling" =>
         Snapshot(mem[o]).spent <= accounting'.spent]_vars

(* The token limit is an admission limit: over all attempts of the run the *)
(* total on record passes it by no more than the calls that were in flight *)
(* together (token_budget.py states it for one branch).                    *)
OvershootBounded ==
  Limit # 0 => accounting.spent < Limit + Cardinality(Branches)
=============================================================================
