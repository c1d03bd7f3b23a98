---------------------------- MODULE AccountingProofs -------------------------
(***************************************************************************)
(* What holds of Accounting for every number of attempts, branches, tries, *)
(* every ceiling and every limit.                                          *)
(***************************************************************************)
EXTENDS Accounting, FiniteSetTheorems, TLAPS

-----------------------------------------------------------------------------
(* Counting the debits of a task.                                          *)

\* The ledger is finite, so its entries can be counted.
LEMMA ChargesCounted ==
  ASSUME NEW s \in Seq(Tasks), NEW t
  PROVE  /\ IsFiniteSet({i \in DOMAIN s : s[i] = t})
         /\ Charges(s, t) \in Nat
<1>1. IsFiniteSet(1 .. Len(s)) /\ DOMAIN s = 1 .. Len(s)
  BY FS_Interval
<1>2. IsFiniteSet({i \in DOMAIN s : s[i] = t})
  BY <1>1, FS_Subset
<1> QED  BY <1>2, FS_CardinalityType DEF Charges

\* An empty ledger has no debits.
LEMMA ChargesEmpty == \A t : Charges(<<>>, t) = 0
<1> TAKE t
<1>1. {i \in DOMAIN <<>> : <<>>[i] = t} = {}
  OBVIOUS
<1> QED  BY <1>1, FS_EmptySet DEF Charges

\* One more debit of u, and no other task's count changes.
LEMMA ChargesAppend ==
  ASSUME NEW s \in Seq(Tasks), NEW u \in Tasks, NEW t
  PROVE  Charges(Append(s, u), t) = Charges(s, t) + (IF t = u THEN 1 ELSE 0)
<1> DEFINE entries(l) == {i \in DOMAIN l : l[i] = t}
<1>1. IsFiniteSet(entries(s)) /\ Charges(s, t) \in Nat
  BY ChargesCounted
<1>2. Len(s) + 1 \notin entries(s)
  OBVIOUS
<1>3. CASE t = u
  <2>1. entries(Append(s, u)) = entries(s) \cup {Len(s) + 1}
    BY <1>3
  <2>2. Cardinality(entries(s) \cup {Len(s) + 1}) = Cardinality(entries(s)) + 1
    BY <1>1, <1>2, FS_AddElement
  <2> QED  BY <1>3, <2>1, <2>2 DEF Charges
<1>4. CASE t # u
  <2>1. entries(Append(s, u)) = entries(s)
    BY <1>4
  <2>2. Charges(Append(s, u), t) = Charges(s, t)
    BY <2>1 DEF Charges
  <2> QED  BY <1>1, <1>4, <2>2
<1> QED  BY <1>3, <1>4

-----------------------------------------------------------------------------
(* Types.                                                                  *)

Snapshots == [spent: Nat, charged: Seq(Tasks), deferred: BOOLEAN]
Publications == [gen: Nat, snap: Snapshots]
Memories == [baseline: Nat, used: Nat, charged: Seq(Tasks), deferred: BOOLEAN,
             gen: Nat, ack: Nat, latest: Publications, dying: BOOLEAN]
Approvals == {"none", "pending", "approved", "rejected", "executing", "completed"}

\* The type invariant.
TypeOK ==
  /\ holder \subseteq Owners /\ fresh \subseteq Owners
  /\ \A o, p \in holder : o = p
  /\ accounting \in Snapshots /\ checkpoints \subseteq Tasks /\ approval \in Approvals
  /\ mem \in [Owners -> Memories]
  /\ stage \in [Owners -> [Tasks -> Stages]]
  /\ try \in [Owners -> [Tasks -> Nat]]
  /\ lock \in [Owners -> SUBSET Tasks]
  /\ taken \in [Owners -> Publications]
  /\ ran \in [Tasks -> Nat] /\ void \in [Tasks -> Nat]

-----------------------------------------------------------------------------
(***************************************************************************)
(* What a handler gets to.  The operators of the model from Readied to     *)
(* Continues nest; Outcome says what all of them do to an attempt's        *)
(* memory, for one that was at stage s with task t.                        *)
(***************************************************************************)

\* The stages of the write after the join.
GatedStages == {"starting", "reserving", "acting", "publishing", "failing", "pausing",
                "cancelling", "paused"} \cup Over

\* Where the write with a reservation comes from.
From(r, s) ==
  /\ r = "acting" => s = "reserving"
  /\ r \in {"pausing", "paused"} => s \in {"acting", "pausing"}

SameLedger(m, n) == n.charged = m.charged /\ n.deferred = m.deferred

SameSpend(m, n) ==
  /\ n.baseline = m.baseline /\ n.used = m.used
  /\ n.gen = m.gen /\ n.ack = m.ack

\* Nothing published, or everything known.
Publishes(m, n) == n.latest = m.latest \/ n.latest = [gen |-> n.gen, snap |-> Snapshot(n)]

Outcome(t, s, m, next) ==
  LET n == next.mem IN
  /\ n \in Memories /\ next.stage \in Stages
  /\ t = Gated => next.stage \in GatedStages
  /\ SameSpend(m, n) /\ Publishes(m, n)
  /\ n.dying = m.dying \/ next.stage \in Over
  /\ next.stage \in {"readying", "calling"} => s = "readying" \/ ~Exhausted(m)
  /\ next.stage = "calling" => ~Pending(m)
  /\ \/ /\ SameLedger(m, n) /\ next.stage # "reserving"
        /\ t = Gated => From(next.stage, s)
     \/ /\ next.stage = "reserving" /\ Len(m.charged) < Ceiling
        /\ s \in {"starting", "retrying"}
        /\ n.charged = Append(m.charged, t) /\ n.deferred = m.deferred
        /\ n.latest.snap.charged = n.charged
        /\ t = Gated => ~m.deferred
     \/ /\ next.stage = "acting" /\ t = Gated /\ s \in {"starting", "retrying"}
        /\ n.charged = m.charged /\ n.latest = m.latest
        /\ m.deferred /\ ~n.deferred

\* A snapshot of a typed memory is typed, and so is the memory that publishes it.
LEMMA PublishedTyped ==
  ASSUME NEW m \in Memories
  PROVE  /\ Snapshot(m) \in Snapshots /\ Published(m) \in Memories
         /\ Published(m) = [m EXCEPT !.latest = [gen |-> m.gen, snap |-> Snapshot(m)]]
         /\ Snapshot(Published(m)) = Snapshot(m)
         /\ SameLedger(m, Published(m)) /\ SameSpend(m, Published(m))
         /\ Published(m).dying = m.dying
         /\ Published(m).latest = [gen |-> m.gen, snap |-> Snapshot(m)]
         /\ Published(m).latest.snap.charged = m.charged
<1>1. Snapshot(m) \in Snapshots
  BY DEF Snapshot, Snapshots, Memories
<1>2. [gen |-> m.gen, snap |-> Snapshot(m)] \in Publications
  BY <1>1 DEF Publications, Memories
<1>3. Published(m) \in Memories
  BY <1>2 DEF Published, Memories
<1> QED
  BY <1>1, <1>3 DEF Published, Snapshot, SameLedger, SameSpend, Memories

\* An event or a save that goes with the newest publication.
LEMMA EmitsOutcome ==
  ASSUME NEW m \in Memories, NEW t, NEW s, NEW r \in Stages,
         t = Gated => r \in GatedStages,
         r \notin {"reserving", "calling"},
         r = "readying" => s = "readying" \/ ~Exhausted(m),
         t = Gated => From(r, s)
  PROVE  Outcome(t, s, m, Emits(r, m))
BY PublishedTyped DEF Outcome, Emits, Gets, Publishes, SameSpend

\* The request goes out when nothing is pending.
LEMMA ReadiedOutcome ==
  ASSUME NEW m \in Memories, NEW t \in Branches, NEW s,
         s = "readying" \/ ~Exhausted(m)
  PROVE  Outcome(t, s, m, Readied(m))
<1> USE AccountingAssumption
<1>1. CASE Pending(m)
  BY <1>1, EmitsOutcome DEF Readied, Stages, Committing, GatedStages, From
<1>2. CASE ~Pending(m)
  BY <1>2 DEF Readied, Outcome, Gets, SameLedger, SameSpend, Publishes, Stages
<1> QED  BY <1>1, <1>2

\* The admission of a model call.
LEMMA AdmittedOutcome ==
  ASSUME NEW m \in Memories, NEW t \in Branches, NEW s
  PROVE  Outcome(t, s, m, Admitted(m))
<1> USE AccountingAssumption
<1>1. CASE Exhausted(m)
  BY <1>1, EmitsOutcome DEF Admitted, Stages, Committing, GatedStages, From
<1>2. CASE ~Exhausted(m)
  BY <1>2, ReadiedOutcome DEF Admitted
<1> QED  BY <1>1, <1>2

\* An error, whether it is tried again or not.
LEMMA ErrsOutcome ==
  ASSUME NEW m \in Memories, NEW t \in Branches, NEW s, NEW n \in Nat
  PROVE  Outcome(t, s, m, Errs(t, n, m))
BY EmitsOutcome, AccountingAssumption
   DEF Errs, Stages, Committing, GatedStages, From

\* The operation of a try that costs nothing more.
LEMMA OperatesOutcome ==
  ASSUME NEW m \in Memories, NEW t \in Tasks, NEW s, t = Gated => s = "reserving"
  PROVE  Outcome(t, s, m, Operates(t, m))
<1> USE AccountingAssumption DEF Tasks, Branches
<1>1. CASE t \in Models
  BY <1>1, AdmittedOutcome DEF Operates
<1>2. CASE t \notin Models
  BY <1>2 DEF Operates, Outcome, Gets, SameLedger, SameSpend, Publishes, Stages, GatedStages,
       From
<1> QED  BY <1>1, <1>2

\* A try is free, has its reservation, is charged, or is refused.
LEMMA ReservesOutcome ==
  ASSUME NEW m \in Memories, NEW t \in Tasks, NEW n \in Nat, t = Gated => n = 0,
         NEW s \in {"starting", "retrying"}
  PROVE  Outcome(t, s, m, Reserves(t, n, m))
<1> USE AccountingAssumption DEF Tasks, Branches
<1>1. CASE ~IsCharged(t, n)
  BY <1>1, OperatesOutcome DEF Reserves, IsCharged
<1>2. CASE IsCharged(t, n) /\ t = Gated /\ m.deferred
  BY <1>2 DEF Reserves, Operates, Gets, Outcome, SameSpend, Publishes, Memories, Stages,
       GatedStages
<1>3. CASE IsCharged(t, n) /\ ~(t = Gated /\ m.deferred) /\ Len(m.charged) < Ceiling
  <2> DEFINE c == [m EXCEPT !.charged = Append(@, t)]
  <2>1. c \in Memories
    BY DEF Memories
  <2>2. Reserves(t, n, m) = Emits("reserving", c)
    BY <1>3 DEF Reserves
  <2>3. /\ c.charged = Append(m.charged, t) /\ c.deferred = m.deferred
        /\ SameSpend(m, c) /\ c.dying = m.dying
    BY DEF Memories, SameSpend
  <2> HIDE DEF c
  <2>4. Reserves(t, n, m).stage = "reserving" /\ Reserves(t, n, m).mem = Published(c)
    BY <2>2 DEF Emits, Gets
  <2> DEFINE p == Published(c)
  <2>5. /\ p \in Memories /\ SameSpend(m, p) /\ Publishes(m, p) /\ p.dying = m.dying
        /\ p.charged = Append(m.charged, t) /\ p.deferred = m.deferred
        /\ p.latest.snap.charged = p.charged
    BY <2>1, <2>3, PublishedTyped DEF SameSpend, SameLedger, Publishes
  <2> HIDE DEF p
  <2> QED
    BY <1>3, <2>4, <2>5 DEF p, Outcome, Stages, Committing, GatedStages
<1>4. CASE IsCharged(t, n) /\ ~(t = Gated /\ m.deferred) /\ ~(Len(m.charged) < Ceiling)
  <2>1. Reserves(t, n, m) = Emits("failing", m)
    BY <1>4 DEF Reserves
  <2> QED
    BY <2>1, EmitsOutcome DEF Stages, Committing, GatedStages, From
<1> QED  BY <1>1, <1>2, <1>3, <1>4

\* What follows the commit of any stage.
LEMMA ContinuesOutcome ==
  ASSUME NEW m \in Memories, NEW t \in Tasks, NEW n \in Nat, NEW s \in Committing,
         t = Gated => n = 0 /\ s \in GatedStages
  PROVE  Outcome(t, s, m, Continues(t, n, s, m))
<1> USE AccountingAssumption
<1>a. t # Gated => t \in Branches
  BY DEF Tasks
<1>1. CASE s = "starting"
  BY <1>1, ReservesOutcome DEF Continues
<1>2. CASE s = "retrying"
  BY <1>2, ReservesOutcome DEF Continues, GatedStages, Over
<1>3. CASE s = "reserving"
  BY <1>3, OperatesOutcome DEF Continues
<1>4. CASE s = "readying"
  BY <1>4, <1>a, ReadiedOutcome DEF Continues, GatedStages, Over
<1>5. CASE s = "recording"
  BY <1>5, EmitsOutcome DEF Continues, Stages, Committing, GatedStages, From
<1>6. CASE s = "rejecting"
  BY <1>6, <1>a, ErrsOutcome DEF Continues, GatedStages, Over
<1>7. CASE s = "pausing"
  BY <1>7 DEF Continues, Outcome, Gets, SameLedger, SameSpend, Publishes, Stages,
       GatedStages, From
<1>8. CASE s = "publishing"
  BY <1>8 DEF Continues, Outcome, Gets, SameLedger, SameSpend, Publishes, Stages, Over,
       GatedStages, From
<1>9. CASE s \in {"failing", "cancelling"}
  BY <1>9 DEF Continues, Outcome, Gets, SameLedger, SameSpend, Publishes, Stages, Over,
       GatedStages, From, Memories
<1> QED  BY <1>1, <1>2, <1>3, <1>4, <1>5, <1>6, <1>7, <1>8, <1>9 DEF Committing

-----------------------------------------------------------------------------
(* What holds of the handlers and of the lock of one attempt.              *)

Shape(o) ==
  /\ lock[o] = {} \/ \E t \in Tasks : lock[o] = {t} /\ stage[o][t] \in Committing
  /\ stage[o][Gated] \in GatedStages /\ try[o][Gated] = 0
  /\ o \in fresh => /\ lock[o] = {}
                    /\ \A t \in Tasks : stage[o][t] = "idle"

\* Nothing of the attempt is left.
Finished(o) == mem[o].dying /\ \A t \in Tasks : stage[o][t] \in Over

\* An attempt that goes on with task t, whose memory was b by then.
GoesOn(o, t, b) ==
  \E next : Outcome(t, stage[o][t], b, next) /\ Goes(o, t, next)

Acts(o, t) ==
  \/ Start(o, t) \/ Retrieve(o, t) \/ Respond(o, t) \/ Commits(o, t)
  \/ CommitLost(o, t) \/ Cancelled(o, t)
  \/ t = Gated /\ (Write(o) \/ Pause(o))

Paid(m) == [m EXCEPT !.used = @ + 1, !.gen = @ + 1]

LEMMA GoneTyped == Gone \in Memories /\ Gone = [Restored(Zero) EXCEPT !.dying = TRUE]
<1>1. Zero \in Snapshots
  BY DEF Zero, Snapshots
<1>2. Restored(Zero) \in Memories
  BY <1>1 DEF Restored, Memories, Publications, Snapshots
<1> QED  BY <1>2 DEF Gone, Memories

\* What a transition of one task leaves alone, and what it makes of its attempt.
LEMMA WentOn ==
  ASSUME TypeOK, NEW o \in Owners, NEW t \in Tasks, NEW b, GoesOn(o, t, b)
  PROVE  /\ mem' \in [Owners -> Memories] /\ stage' \in [Owners -> [Tasks -> Stages]]
         /\ \A p \in Owners \ {o} : mem'[p] = mem[p] /\ stage'[p] = stage[p]
         /\ \A u \in Tasks \ {t} : stage'[o][u] = stage[o][u]
         /\ t = Gated => stage'[o][t] \in GatedStages
         /\ \/ Outcome(t, stage[o][t], b, Gets(stage'[o][t], mem'[o]))
            \/ mem'[o] = Gone /\ Finished(o)'
<1> USE DEF TypeOK
<1>1. PICK next : Outcome(t, stage[o][t], b, next) /\ Goes(o, t, next)
  BY DEF GoesOn
<1>2. /\ next.mem \in Memories /\ next.stage \in Stages
      /\ t = Gated => next.stage \in GatedStages
  BY <1>1 DEF Outcome
<1>3. /\ stage' = [stage EXCEPT ![o][t] = next.stage]
      /\ mem' = [mem EXCEPT ![o] =
                   IF next.mem.dying /\ \A u \in Tasks : stage'[o][u] \in Over
                   THEN Gone ELSE next.mem]
  BY <1>1 DEF Goes, Steps, Sets, Remembers
<1>4. /\ stage' \in [Owners -> [Tasks -> Stages]] /\ stage'[o][t] = next.stage
      /\ \A p \in Owners \ {o} : stage'[p] = stage[p]
      /\ \A u \in Tasks \ {t} : stage'[o][u] = stage[o][u]
  BY <1>2, <1>3
<1>5. /\ mem' \in [Owners -> Memories]
      /\ \A p \in Owners \ {o} : mem'[p] = mem[p]
      /\ \/ mem'[o] = next.mem
         \/ mem'[o] = Gone /\ \A u \in Tasks : stage'[o][u] \in Over
  BY <1>2, <1>3, GoneTyped
<1>6. CASE mem'[o] = next.mem
  <2>1. Outcome(t, stage[o][t], b, Gets(stage'[o][t], mem'[o]))
    BY <1>1, <1>4, <1>6 DEF Outcome, Gets
  <2> QED  BY <1>2, <1>4, <1>5, <2>1
<1>7. CASE mem'[o] = Gone /\ \A u \in Tasks : stage'[o][u] \in Over
  <2>1. Gone.dying
    BY GoneTyped DEF Restored, Zero
  <2> QED  BY <1>2, <1>4, <1>5, <1>7, <2>1 DEF Finished
<1> QED  BY <1>5, <1>6, <1>7

\* The end of a handler that fails in its commit.
LEMMA EndsOutcome ==
  ASSUME NEW m \in Memories, NEW t, NEW s
  PROVE  Outcome(t, s, m, Gets("ended", [m EXCEPT !.dying = TRUE]))
BY DEF Outcome, Gets, SameLedger, SameSpend, Publishes, Memories, Stages, Over, GatedStages,
       From

\* A memory that has acknowledged a generation, or paid for an answer.
LEMMA MemoryTyped ==
  ASSUME NEW m \in Memories, NEW g \in Nat
  PROVE  /\ Acknowledged(m, g) \in Memories /\ SameLedger(m, Acknowledged(m, g))
         /\ Paid(m) \in Memories /\ SameLedger(m, Paid(m))
<1>1. Acknowledged(m, g) = [m EXCEPT !.ack = IF g > m.ack THEN g ELSE m.ack]
  BY DEF Acknowledged
<1>2. (IF g > m.ack THEN g ELSE m.ack) \in Nat
  BY DEF Memories
<1>3. Acknowledged(m, g) \in Memories /\ SameLedger(m, Acknowledged(m, g))
  BY <1>1, <1>2 DEF Memories, SameLedger
<1>4. Paid(m) \in Memories /\ SameLedger(m, Paid(m))
  <2>1. m.used + 1 \in Nat /\ m.gen + 1 \in Nat
    BY DEF Memories
  <2> QED  BY <2>1 DEF Paid, Memories, SameLedger
<1> QED  BY <1>3, <1>4

\* Every step of an attempt that is about one task.
LEMMA ActsGoOn ==
  ASSUME TypeOK, NEW o \in Owners, Shape(o), NEW t \in Tasks, Acts(o, t)
  PROVE  \/ GoesOn(o, t, mem[o])
         \/ Respond(o, t) /\ GoesOn(o, t, Paid(mem[o]))
         \/ Commits(o, t) /\ GoesOn(o, t, Acknowledged(mem[o], taken[o].gen))
<1> USE AccountingAssumption DEF TypeOK
<1> DEFINE m == mem[o]
           s == stage[o][t]
           k == Acknowledged(m, taken[o].gen)
<1>a. m \in Memories /\ s \in Stages /\ (t = Gated => s \in GatedStages)
  BY DEF Shape
<1>b. t # Gated => t \in Branches
  BY DEF Tasks
<1>c. ASSUME NEW b \in Memories, NEW r \in Stages, Steps(o, t, r, Published(b)),
             t = Gated => r \in GatedStages, r \notin {"reserving", "readying", "calling"},
             t = Gated => From(r, s)
      PROVE  GoesOn(o, t, b)
  <2>1. Outcome(t, s, b, Emits(r, b)) /\ Goes(o, t, Emits(r, b))
    BY <1>c, EmitsOutcome DEF Goes, Emits, Gets
  <2> QED  BY <2>1 DEF GoesOn
<1>d. taken[o].gen \in Nat /\ k \in Memories /\ Paid(m) \in Memories
  BY <1>a, MemoryTyped DEF Publications
<1>e. ASSUME Steps(o, t, "ended", [m EXCEPT !.dying = TRUE]) PROVE GoesOn(o, t, m)
  <2> DEFINE next == Gets("ended", [m EXCEPT !.dying = TRUE])
  <2>1. Outcome(t, s, m, next)
    BY <1>a, EndsOutcome
  <2>2. next.stage = "ended" /\ next.mem = [m EXCEPT !.dying = TRUE]
    BY DEF Gets
  <2> HIDE DEF next
  <2>3. Goes(o, t, next)
    BY <1>e, <2>2 DEF Goes
  <2> QED  BY <2>1, <2>3 DEF GoesOn
<1> USE DEF Stages, Committing, Over, GatedStages, From
<1>f. Commits(o, t) \/ CommitLost(o, t) => lock[o] = {t} /\ s \in Committing
  BY DEF Commits, CommitLost, Shape
<1>1. CASE Start(o, t)
  BY <1>1, <1>a, <1>c DEF Start, At
<1>2. CASE Retrieve(o, t)
  <2>1. t \in Branches /\ try[o][t] \in Nat
    BY <1>2 DEF Retrieve, Branches
  <2>2. Outcome(t, s, m, Admitted(m)) /\ Outcome(t, s, m, Errs(t, try[o][t], m))
    BY <1>a, <2>1, AdmittedOutcome, ErrsOutcome
  <2> QED  BY <1>2, <2>2 DEF Retrieve, GoesOn
<1>3. CASE Respond(o, t)
  <2>1. CASE Goes(o, t, Errs(t, try[o][t], m))
    <3>1. t \in Branches
      BY <1>3, <1>a, <1>b DEF Respond, At
    <3>2. Outcome(t, s, m, Errs(t, try[o][t], m))
      BY <1>a, <3>1, ErrsOutcome
    <3> QED  BY <2>1, <3>2 DEF GoesOn
  <2>2. CASE \E r \in {"recording", "rejecting"} : Steps(o, t, r, Published(Paid(m)))
    <3>1. t # Gated
      BY <1>3, <1>a DEF Respond, At
    <3>2. GoesOn(o, t, Paid(m))
      BY <1>c, <1>d, <2>2, <3>1
    <3> QED  BY <1>3, <3>2
  <2> QED  BY <1>3, <2>1, <2>2 DEF Respond, Paid
<1>4. CASE Commits(o, t)
  <2>1. CASE m.dying
    <3>1. Steps(o, t, Interrupted(s), Published(k))
      BY <1>4, <2>1 DEF Commits
    <3>2. Interrupted(s) \in {"done", "ended", "cancelling"}
      BY DEF Interrupted
    <3>3. GoesOn(o, t, k)
      BY <1>c, <1>d, <3>1, <3>2
    <3> QED  BY <1>4, <3>3
  <2>2. CASE ~m.dying
    <3>1. Goes(o, t, Continues(t, try[o][t], s, k))
      BY <1>4, <2>2 DEF Commits
    <3>2. try[o][t] \in Nat /\ (t = Gated => try[o][t] = 0)
      BY DEF Shape
    <3>3. Outcome(t, s, k, Continues(t, try[o][t], s, k))
      BY <1>4, <1>a, <1>d, <1>f, <3>2, ContinuesOutcome
    <3> QED  BY <1>4, <3>1, <3>3 DEF GoesOn
  <2> QED  BY <2>1, <2>2
<1>5. CASE CommitLost(o, t)
  <2>1. CASE EndsAt(o, t)
    BY <1>e, <2>1 DEF EndsAt
  <2>2. CASE s \in {"recording", "rejecting"} /\ Goes(o, t, Continues(t, try[o][t], s, m))
    <3>1. Outcome(t, s, m, Continues(t, try[o][t], s, m))
      BY <1>a, <1>f, <1>5, <2>2, ContinuesOutcome DEF Shape
    <3> QED  BY <2>2, <3>1 DEF GoesOn
  <2>3. CASE s = "reserving" /\ Goes(o, t, Emits("failing", m))
    BY <1>a, <2>3, EmitsOutcome DEF GoesOn
  <2> QED  BY <1>5, <2>1, <2>2, <2>3 DEF CommitLost
<1>6. CASE Cancelled(o, t)
  BY <1>6, <1>a, <1>c DEF Cancelled
<1>7. CASE t = Gated /\ Write(o)
  <2>1. s = "acting"
    BY <1>7 DEF Write, At
  <2> QED  BY <1>7, <1>a, <1>c, <2>1 DEF Write
<1>8. CASE t = Gated /\ Pause(o)
  BY <1>8, <1>e DEF Pause
<1> QED  BY <1>1, <1>2, <1>3, <1>4, <1>5, <1>6, <1>7, <1>8 DEF Acts

\* What such a step does to the lock, to the record and to the lease.
LEMMA ActsRecords ==
  ASSUME TypeOK, NEW o \in Owners, Shape(o), NEW t \in Tasks, Acts(o, t)
  PROVE  /\ fresh' = fresh /\ o \notin fresh
         /\ \A p \in Owners \ {o} :
              try'[p] = try[p] /\ lock'[p] = lock[p] /\ taken'[p] = taken[p]
         /\ \/ lock'[o] = {} /\ taken'[o] = Nothing
            \/ lock'[o] = lock[o] /\ taken'[o] = taken[o] /\ lock[o] # {t}
         /\ try' \in [Owners -> [Tasks -> Nat]] /\ try'[o][Gated] = 0
         /\ lock' \in [Owners -> SUBSET Tasks]
         /\ \/ holder' = holder /\ accounting' = accounting
            \/ /\ holder' = holder /\ holder = {o} /\ lock[o] = {t}
               /\ accounting' = taken[o].snap /\ ~Lowers(taken[o].snap)
            \/ /\ Pause(o) /\ holder' = {} /\ holder = {o}
               /\ accounting' = Deferred(mem[o].latest.snap) /\ ~Lowers(mem[o].latest.snap)
         /\ checkpoints' \subseteq Tasks
         /\ approval' \in Approvals
<1> USE AccountingAssumption DEF TypeOK
<1>a. Gated \in Tasks
  BY DEF Tasks
<1>b. lock[o] # {t} \/ stage[o][t] \in Committing
  BY DEF Shape
<1>c. /\ "reserving" \in Committing /\ "acting" \notin Committing /\ "calling" \notin Committing
      /\ "idle" \notin Committing
  BY DEF Committing
<1>1. CASE Start(o, t) \/ Retrieve(o, t) \/ Respond(o, t) \/ Cancelled(o, t)
  BY <1>1, <1>b, <1>c DEF Start, Retrieve, Respond, Cancelled, durable, At, Running, Alive, Shape
<1>2. CASE Commits(o, t) \/ CommitLost(o, t)
  <2>1. /\ lock[o] = {t} /\ UNCHANGED <<holder, fresh, approval>> /\ Unlocks(o) /\ o \notin fresh
    BY <1>2 DEF Commits, CommitLost, Alive
  <2>2. /\ lock' \in [Owners -> SUBSET Tasks] /\ lock'[o] = {} /\ taken'[o] = Nothing
        /\ \A p \in Owners \ {o} : lock'[p] = lock[p] /\ taken'[p] = taken[p]
    BY <2>1 DEF Unlocks
  <2>3. UNCHANGED <<accounting, checkpoints>> \/ Saves(o, t)
    BY <1>2 DEF Commits, CommitLost
  <2>4. try' = try \/ (stage[o][t] = "retrying" /\ try' = [try EXCEPT ![o][t] = @ + 1])
    BY <1>2 DEF Commits, CommitLost
  <2>5. /\ try' \in [Owners -> [Tasks -> Nat]] /\ try'[o][Gated] = 0
        /\ \A p \in Owners \ {o} : try'[p] = try[p]
    <3>1. CASE try' = try
      BY <1>a, <3>1 DEF Shape
    <3>2. CASE stage[o][t] = "retrying" /\ try' = [try EXCEPT ![o][t] = @ + 1]
      <4>1. t # Gated
        BY <3>2 DEF Shape, GatedStages, Over
      <4> QED  BY <1>a, <3>2, <4>1 DEF Shape
    <3> QED  BY <2>4, <3>1, <3>2
  <2> QED  BY <2>1, <2>2, <2>3, <2>5 DEF Saves
<1>3. CASE t = Gated /\ Write(o)
  BY <1>3, <1>a, <1>b, <1>c DEF Write, At, Running, Alive, Approvals, Shape
<1>4. CASE t = Gated /\ Pause(o)
  BY <1>4, <1>a DEF Pause, At, Alive, Approvals, Shape
<1> QED  BY <1>1, <1>2, <1>3, <1>4 DEF Acts

\* A step is about its own attempt's task, lock and publication.
LEMMA ActsAlone ==
  ASSUME TypeOK, NEW o \in Owners, Shape(o), NEW t \in Tasks, Acts(o, t)
  PROVE  /\ lock'[o] = {} \/ (lock'[o] = lock[o] /\ taken'[o] = taken[o])
         /\ \A p \in Owners \ {o} :
              /\ mem'[p] = mem[p] /\ stage'[p] = stage[p]
              /\ lock'[p] = lock[p] /\ taken'[p] = taken[p]
         /\ \A u \in Tasks \ {t} : stage'[o][u] = stage[o][u]
<1>1. \E b : GoesOn(o, t, b)
  BY ActsGoOn
<1>2. /\ \A p \in Owners \ {o} : mem'[p] = mem[p] /\ stage'[p] = stage[p]
      /\ \A u \in Tasks \ {t} : stage'[o][u] = stage[o][u]
  BY <1>1, WentOn
<1>3. /\ lock'[o] = {} \/ (lock'[o] = lock[o] /\ taken'[o] = taken[o])
      /\ \A p \in Owners \ {o} : lock'[p] = lock[p] /\ taken'[p] = taken[p]
  BY ActsRecords
<1> QED  BY <1>2, <1>3

\* The ghost counters stay counters.
LEMMA ActsCounts ==
  ASSUME TypeOK, NEW o \in Owners, NEW t \in Tasks, Acts(o, t)
  PROVE  ran' \in [Tasks -> Nat] /\ void' \in [Tasks -> Nat]
<1> USE DEF TypeOK
<1>1. ASSUME NEW T, Voided(o, T) PROVE void' \in [Tasks -> Nat]
  BY <1>1 DEF Voided
<1>2. CASE Commits(o, t) \/ CommitLost(o, t)
  <2>1. ran' = ran \/ ran' = [ran EXCEPT ![t] = @ + 1]
    BY <1>2 DEF Commits, CommitLost
  <2>2. void' = void \/ Voided(o, {t})
    BY <1>2 DEF Commits, CommitLost, EndsAt
  <2>3. ran' \in [Tasks -> Nat]
    BY <2>1
  <2>4. void' \in [Tasks -> Nat]
    BY <1>1, <2>2
  <2> QED  BY <2>3, <2>4
<1>3. CASE t = Gated /\ Write(o)
  BY <1>3 DEF Write, Tasks
<1>4. CASE t = Gated /\ Pause(o)
  BY <1>1, <1>4 DEF Pause
<1>5. CASE Cancelled(o, t)
  BY <1>1, <1>5 DEF Cancelled
<1> QED  BY <1>2, <1>3, <1>4, <1>5 DEF Acts, Start, Retrieve, Respond

\* The initial state.
LEMMA TypeInit == Init => TypeOK /\ \A o \in Owners : Shape(o)
<1> SUFFICES ASSUME Init PROVE TypeOK /\ \A o \in Owners : Shape(o)
  OBVIOUS
<1> USE AccountingAssumption DEF Init
<1>1. Zero \in Snapshots /\ Nothing \in Publications
  BY DEF Zero, Nothing, Snapshots, Publications
<1>2. Restored(Zero) \in Memories
  BY <1>1 DEF Restored, Memories, Publications, Snapshots
<1>3. TypeOK
  BY <1>1, <1>2 DEF TypeOK, Stages, Over, Approvals
<1>4. \A o \in Owners : Shape(o)
  BY DEF Shape, GatedStages, Over, Tasks
<1> QED  BY <1>3, <1>4

\* A claim gives its attempt what is on record; a crash takes everything.
LEMMA RestoredTyped ==
  ASSUME TypeOK PROVE Restored(accounting) \in Memories /\ Nothing \in Publications
BY DEF TypeOK, Restored, Memories, Publications, Snapshots, Nothing, Zero

\* Every step keeps the types, and the handlers and locks in shape.
LEMMA TypeStep ==
  ASSUME TypeOK, \A o \in Owners : Shape(o), [Next]_vars
  PROVE  TypeOK' /\ \A o \in Owners : Shape(o)'
<1> USE AccountingAssumption DEF TypeOK
<1>a. Gated \in Tasks
  BY DEF Tasks
<1>1. ASSUME NEW o \in Owners, NEW t \in Tasks, Acts(o, t)
      PROVE  TypeOK' /\ \A p \in Owners : Shape(p)'
  <2>1. Shape(o)
    OBVIOUS
  <2>2. \E b : GoesOn(o, t, b)
    BY <1>1, <2>1, ActsGoOn
  <2>3. /\ mem' \in [Owners -> Memories] /\ stage' \in [Owners -> [Tasks -> Stages]]
        /\ \A p \in Owners \ {o} : mem'[p] = mem[p] /\ stage'[p] = stage[p]
        /\ \A u \in Tasks \ {t} : stage'[o][u] = stage[o][u]
        /\ t = Gated => stage'[o][t] \in GatedStages
    BY <2>2, WentOn
  <2>4. /\ fresh' = fresh /\ o \notin fresh
        /\ \A p \in Owners \ {o} :
             try'[p] = try[p] /\ lock'[p] = lock[p] /\ taken'[p] = taken[p]
        /\ \/ lock'[o] = {} /\ taken'[o] = Nothing
           \/ lock'[o] = lock[o] /\ taken'[o] = taken[o] /\ lock[o] # {t}
        /\ try' \in [Owners -> [Tasks -> Nat]] /\ try'[o][Gated] = 0
        /\ lock' \in [Owners -> SUBSET Tasks]
        /\ checkpoints' \subseteq Tasks /\ approval' \in Approvals
    BY <1>1, <2>1, ActsRecords
  <2>5. accounting' \in Snapshots /\ holder' \subseteq Owners /\ \A p, q \in holder' : p = q
    <3>1. \A s \in Snapshots : Deferred(s) \in Snapshots
      BY DEF Deferred, Snapshots
    <3>2. taken[o].snap \in Snapshots /\ mem[o].latest.snap \in Snapshots
      BY DEF Publications, Memories
    <3>3. \/ holder' = holder \/ holder' = {}
      BY <1>1, <2>1, ActsRecords
    <3>4. accounting' \in {accounting, taken[o].snap, Deferred(mem[o].latest.snap)}
      BY <1>1, <2>1, ActsRecords
    <3> QED  BY <3>1, <3>2, <3>3, <3>4
  <2>6. taken' \in [Owners -> Publications]
    <3>1. taken' = taken \/ taken' = [taken EXCEPT ![o] = Nothing]
      BY <1>1 DEF Acts, Start, Retrieve, Respond, Commits, CommitLost, Unlocks, Cancelled,
           Write, Pause
    <3> QED  BY <3>1, RestoredTyped
  <2>7. TypeOK'
    BY <1>1, <2>3, <2>4, <2>5, <2>6, ActsCounts
  <2>8. ASSUME NEW p \in Owners, p # o PROVE Shape(p)'
    <3>1. /\ stage'[p] = stage[p] /\ lock'[p] = lock[p] /\ try'[p] = try[p]
          /\ fresh' = fresh /\ Shape(p)
      BY <2>3, <2>4, <2>8
    <3> QED  BY <3>1 DEF Shape
  <2>9. Shape(o)'
    <3>1. lock'[o] = {} \/ \E u \in Tasks : lock'[o] = {u} /\ stage'[o][u] \in Committing
      BY <2>1, <2>3, <2>4 DEF Shape
    <3>2. stage'[o][Gated] \in GatedStages
      BY <1>a, <2>1, <2>3 DEF Shape
    <3> QED  BY <2>4, <3>1, <3>2 DEF Shape
  <2> QED  BY <2>7, <2>8, <2>9
<1>2. ASSUME NEW o \in Owners, Claim(o) PROVE TypeOK' /\ \A p \in Owners : Shape(p)'
  <2>1. /\ \A t \in Tasks : stage'[o][t] \in Over
        /\ stage' \in [Owners -> [Tasks -> Stages]]
        /\ \A p \in Owners \ {o} : stage'[p] = stage[p]
    BY <1>2 DEF Claim, Stages, Over
  <2>2. mem' \in [Owners -> Memories]
    BY <1>2, RestoredTyped DEF Claim, Remembers
  <2>3. TypeOK'
    BY <1>2, <2>1, <2>2 DEF Claim, durable
  <2>4. ASSUME NEW p \in Owners PROVE Shape(p)'
    BY <1>2, <1>a, <2>1 DEF Claim, Shape, GatedStages
  <2> QED  BY <2>3, <2>4
<1>3. ASSUME NEW o \in Owners, NEW t \in Tasks, TakeLock(o, t)
      PROVE  TypeOK' /\ \A p \in Owners : Shape(p)'
  <2>1. mem[o].latest \in Publications
    BY DEF Memories
  <2>2. TypeOK'
    BY <1>3, <2>1 DEF TakeLock, durable
  <2>3. ASSUME NEW p \in Owners PROVE Shape(p)'
    BY <1>3 DEF TakeLock, Shape, Alive
  <2> QED  BY <2>2, <2>3
<1>4. ASSUME NEW o \in Owners, Crash(o) PROVE TypeOK' /\ \A p \in Owners : Shape(p)'
  <2>1. /\ \A t \in Tasks : stage'[o][t] = "ended"
        /\ stage' \in [Owners -> [Tasks -> Stages]]
        /\ \A p \in Owners \ {o} : stage'[p] = stage[p]
    BY <1>4 DEF Crash, Stages, Over
  <2>2. mem' \in [Owners -> Memories] /\ taken' \in [Owners -> Publications]
    BY <1>4, GoneTyped, RestoredTyped DEF Crash, Remembers, Unlocks
  <2>3. void' \in [Tasks -> Nat]
    BY <1>4 DEF Crash, Voided
  <2>4. TypeOK'
    BY <1>4, <2>1, <2>2, <2>3 DEF Crash, durable, Unlocks
  <2>5. ASSUME NEW p \in Owners PROVE Shape(p)'
    BY <1>4, <1>a, <2>1 DEF Crash, Alive, Unlocks, Shape, GatedStages, Over
  <2> QED  BY <2>4, <2>5
<1>5. CASE Decide \/ UNCHANGED vars
  BY <1>5 DEF Decide, vars, durable, Shape, Approvals
<1> QED
  BY <1>1, <1>2, <1>3, <1>4, <1>5, <1>a DEF Next, Acts

\* The type invariant holds in every reachable state.
THEOREM TypeCorrect == Spec => []TypeOK
<1> DEFINE Inv == TypeOK /\ \A o \in Owners : Shape(o)
<1>1. Init => Inv
  BY TypeInit
<1>2. Inv /\ [Next]_vars => Inv'
  BY TypeStep
<1> QED  BY <1>1, <1>2, PTL DEF Spec

-----------------------------------------------------------------------------
(***************************************************************************)
(* Spend.  A generation is one unit of usage more than the baseline an     *)
(* attempt was given, and what it takes for acknowledged is on record,     *)
(* whoever holds the run by now: the total on record never goes down.      *)
(***************************************************************************)

SpendKnown(o) ==
  LET m == mem[o] IN
  /\ m.used = m.gen
  /\ m.latest.snap.spent = m.baseline + m.latest.gen /\ m.latest.gen <= m.gen
  /\ lock[o] # {} => /\ taken[o].snap.spent = m.baseline + taken[o].gen
                     /\ taken[o].gen <= m.gen
  /\ m.baseline + m.ack <= accounting.spent

Safe == TypeOK /\ \A o \in Owners : Shape(o)

\* The total on record never goes down.
LEMMA SpentGrows ==
  ASSUME Safe, [Next]_vars
  PROVE  accounting.spent <= accounting'.spent
<1> USE DEF Safe, TypeOK
<1>1. accounting.spent \in Nat
  BY DEF Snapshots
<1>2. ASSUME NEW o \in Owners, NEW t \in Tasks, Acts(o, t)
      PROVE  accounting.spent <= accounting'.spent
  <2>1. \/ accounting' = accounting
        \/ accounting' = taken[o].snap /\ ~Lowers(taken[o].snap)
        \/ /\ accounting' = Deferred(mem[o].latest.snap) /\ ~Lowers(mem[o].latest.snap)
    BY <1>2, ActsRecords
  <2>2. \A s \in Snapshots : s.spent \in Nat /\ Deferred(s).spent = s.spent
    BY DEF Snapshots, Deferred
  <2>3. taken[o].snap \in Snapshots /\ mem[o].latest.snap \in Snapshots
    BY DEF Publications, Memories
  <2>4. /\ taken[o].snap.spent \in Nat /\ mem[o].latest.snap.spent \in Nat
        /\ Deferred(mem[o].latest.snap).spent = mem[o].latest.snap.spent
    BY <2>2, <2>3
  <2> QED  BY <1>1, <2>1, <2>4 DEF Lowers
<1>3. ASSUME accounting' = accounting PROVE accounting.spent <= accounting'.spent
  BY <1>1, <1>3
<1>4. Gated \in Tasks
  BY DEF Tasks
<1> QED
  BY <1>2, <1>3, <1>4
     DEF Next, Acts, Claim, TakeLock, Crash, Decide, durable, vars

LEMMA SpendStep ==
  ASSUME Safe, \A o \in Owners : SpendKnown(o), [Next]_vars, NEW p \in Owners
  PROVE  SpendKnown(p)'
<1> USE DEF Safe, TypeOK
<1>a. accounting.spent <= accounting'.spent /\ accounting.spent \in Nat
      /\ accounting'.spent \in Nat
  BY SpentGrows, TypeStep DEF Snapshots
<1>b. Gated \in Tasks
  BY DEF Tasks
<1>c. mem[p] \in Memories /\ mem[p].latest \in Publications /\ mem[p].latest.snap \in Snapshots
      /\ taken[p] \in Publications /\ taken[p].snap \in Snapshots
  BY DEF Memories, Publications
<1>d. /\ mem[p].baseline \in Nat /\ mem[p].used \in Nat /\ mem[p].gen \in Nat
      /\ mem[p].ack \in Nat /\ mem[p].latest.gen \in Nat /\ taken[p].gen \in Nat
  BY <1>c DEF Memories, Publications
<1>e. SpendKnown(p)
  OBVIOUS
<1>1. ASSUME mem'[p] = mem[p], lock'[p] = {} \/ (lock'[p] = lock[p] /\ taken'[p] = taken[p])
      PROVE  SpendKnown(p)'
  BY <1>1, <1>a, <1>d, <1>e DEF SpendKnown
<1>2. ASSUME mem'[p] = Gone, lock'[p] = {} PROVE SpendKnown(p)'
  <2>1. /\ Gone.used = 0 /\ Gone.gen = 0 /\ Gone.baseline = 0 /\ Gone.ack = 0
        /\ Gone.latest.gen = 0 /\ Gone.latest.snap.spent = 0
    BY GoneTyped DEF Restored, Zero
  <2> QED  BY <1>2, <1>a, <2>1 DEF SpendKnown
<1>3. ASSUME NEW t \in Tasks, Acts(p, t) PROVE SpendKnown(p)'
  <2> DEFINE m == mem[p]
  <2>a. Shape(p)
    OBVIOUS
  <2>1. lock'[p] = {} \/ (lock'[p] = lock[p] /\ taken'[p] = taken[p])
    BY <1>3, <2>a, ActsAlone
  <2>2. ASSUME NEW b \in Memories, GoesOn(p, t, b), b.used = b.gen, b.latest = m.latest,
               b.baseline = m.baseline, b.gen >= m.gen,
               m.baseline + b.ack <= accounting'.spent
        PROVE  SpendKnown(p)'
    <3> DEFINE n == mem'[p]
    <3>1. CASE n = Gone /\ Finished(p)'
      <4>1. lock'[p] = {}
        <5>1. Shape(p)'
          BY TypeStep
        <5>2. \A u \in Tasks : stage'[p][u] \notin Committing
          BY <3>1 DEF Finished, Over, Committing
        <5> QED  BY <5>1, <5>2 DEF Shape
      <4> QED  BY <1>2, <3>1, <4>1
    <3>2. CASE Outcome(t, stage[p][t], b, Gets(stage'[p][t], n))
      <4>1. SameSpend(b, n) /\ Publishes(b, n)
        BY <3>2 DEF Outcome, Gets
      <4>2. b.gen \in Nat
        BY DEF Memories
      <4>3. /\ n.baseline = m.baseline /\ n.used = n.gen /\ n.gen = b.gen /\ n.ack = b.ack
        BY <2>2, <4>1 DEF SameSpend
      <4>4. n.latest.snap.spent = n.baseline + n.latest.gen /\ n.latest.gen <= n.gen
        <5>1. CASE n.latest = m.latest
          BY <1>d, <1>e, <2>2, <4>2, <4>3, <5>1 DEF SpendKnown
        <5>2. CASE n.latest = [gen |-> n.gen, snap |-> Snapshot(n)]
          BY <4>2, <4>3, <5>2 DEF Snapshot
        <5> QED  BY <2>2, <4>1, <5>1, <5>2 DEF Publishes
      <4>5. lock'[p] # {} => /\ taken'[p].snap.spent = n.baseline + taken'[p].gen
                             /\ taken'[p].gen <= n.gen
        BY <1>d, <1>e, <2>1, <2>2, <4>2, <4>3 DEF SpendKnown
      <4>6. n.baseline + n.ack <= accounting'.spent
        BY <2>2, <4>3
      <4> QED  BY <4>3, <4>4, <4>5, <4>6 DEF SpendKnown
    <3> QED  BY <2>2, <3>1, <3>2, WentOn
  <2>3. CASE GoesOn(p, t, m)
    BY <1>a, <1>c, <1>d, <1>e, <2>2, <2>3 DEF SpendKnown
  <2>4. CASE GoesOn(p, t, Paid(m))
    <3>1. /\ Paid(m) \in Memories /\ Paid(m).used = m.used + 1 /\ Paid(m).gen = m.gen + 1
          /\ Paid(m).latest = m.latest /\ Paid(m).baseline = m.baseline /\ Paid(m).ack = m.ack
      BY <1>c, MemoryTyped DEF Paid, Memories
    <3> HIDE DEF m
    <3>2. m = mem[p]
      BY DEF m
    <3> QED  BY <1>a, <1>d, <1>e, <2>2, <2>4, <3>1, <3>2 DEF SpendKnown
  <2>5. CASE Commits(p, t) /\ GoesOn(p, t, Acknowledged(m, taken[p].gen))
    <3> DEFINE k == Acknowledged(m, taken[p].gen)
    <3>1. /\ k \in Memories /\ k.used = m.used /\ k.gen = m.gen /\ k.latest = m.latest
          /\ k.baseline = m.baseline /\ (k.ack = m.ack \/ k.ack = taken[p].gen)
      BY <1>c, <1>d, MemoryTyped DEF Acknowledged, Memories
    <3>2. accounting'.spent = m.baseline + taken[p].gen
      BY <1>e, <2>5 DEF Commits, Saves, SpendKnown
    <3>3. m.baseline + k.ack <= accounting'.spent
      BY <1>a, <1>d, <1>e, <3>1, <3>2 DEF SpendKnown
    <3> HIDE DEF k
    <3> QED  BY <1>d, <1>e, <2>2, <2>5, <3>1, <3>3 DEF k, SpendKnown
  <2> QED  BY <1>3, <2>a, <2>3, <2>4, <2>5, ActsGoOn
<1>4. ASSUME NEW o \in Owners, NEW t \in Tasks, Acts(o, t), o # p PROVE SpendKnown(p)'
  BY <1>1, <1>4, ActsAlone
<1>5. ASSUME NEW o \in Owners, Claim(o) PROVE SpendKnown(p)'
  <2>1. CASE o = p
    <3>1. mem'[p] = Restored(accounting) /\ lock'[p] = {}
      BY <1>5, <2>1 DEF Claim, Remembers, Shape
    <3> QED  BY <1>a, <3>1 DEF Restored, SpendKnown
  <2>2. CASE o # p
    BY <1>1, <1>5, <2>2 DEF Claim, Remembers
  <2> QED  BY <2>1, <2>2
<1>6. ASSUME NEW o \in Owners, NEW t \in Tasks, TakeLock(o, t) PROVE SpendKnown(p)'
  <2>1. CASE o = p
    <3>1. taken'[p] = mem[p].latest /\ mem' = mem
      BY <1>6, <2>1 DEF TakeLock
    <3> QED  BY <1>a, <1>d, <1>e, <3>1 DEF SpendKnown
  <2>2. CASE o # p
    BY <1>1, <1>6, <2>2 DEF TakeLock
  <2> QED  BY <2>1, <2>2
<1>7. ASSUME NEW o \in Owners, Crash(o) PROVE SpendKnown(p)'
  <2>1. CASE o = p
    BY <1>2, <1>7, <2>1 DEF Crash, Remembers, Unlocks
  <2>2. CASE o # p
    BY <1>1, <1>7, <2>2 DEF Crash, Remembers, Unlocks
  <2> QED  BY <2>1, <2>2
<1>8. CASE Decide \/ UNCHANGED vars
  BY <1>1, <1>8 DEF Decide, vars
<1> QED
  BY <1>3, <1>4, <1>5, <1>6, <1>7, <1>8, <1>b DEF Next, Acts

SpendInvariant == Safe /\ \A o \in Owners : SpendKnown(o)

\* Holds throughout.
LEMMA SpendSafe == Spec => []SpendInvariant
<1>1. Init => SpendInvariant
  <2> SUFFICES ASSUME Init PROVE SpendInvariant
    OBVIOUS
  <2>1. Safe
    BY TypeInit DEF Safe
  <2>2. \A o \in Owners : SpendKnown(o)
    BY DEF Init, SpendKnown, Restored, Zero
  <2> QED  BY <2>1, <2>2 DEF SpendInvariant
<1>2. SpendInvariant /\ [Next]_vars => SpendInvariant'
  BY TypeStep, SpendStep DEF SpendInvariant, Safe
<1> QED  BY <1>1, <1>2, PTL DEF Spec

\* A model request starts only when all that its attempt knows to be spent is on
\* record (ensure_accounting_ready).
THEOREM RequestsAfterRecord == Spec => RequestsOnRecord
<1> DEFINE A == \A o \in Owners, t \in Tasks :
                  stage[o][t] # "calling" /\ stage'[o][t] = "calling" =>
                    Snapshot(mem[o]).spent <= accounting'.spent
<1>1. ASSUME SpendInvariant, Next, NEW p \in Owners, NEW u \in Tasks,
             stage[p][u] # "calling", stage'[p][u] = "calling"
      PROVE  Snapshot(mem[p]).spent <= accounting'.spent
  <2> USE DEF SpendInvariant, Safe, TypeOK
  <2>a. /\ mem[p].baseline \in Nat /\ mem[p].used \in Nat /\ mem[p].gen \in Nat
        /\ mem[p].ack \in Nat /\ taken[p].gen \in Nat /\ mem[p] \in Memories
    BY <1>1 DEF Memories, Publications
  <2>b. SpendKnown(p) /\ Shape(p) /\ accounting.spent <= accounting'.spent
        /\ accounting.spent \in Nat /\ accounting'.spent \in Nat
    BY <1>1, SpentGrows, TypeStep DEF Snapshots
  <2>1. Acts(p, u)
    <3>1. ASSUME NEW o \in Owners, NEW t \in Tasks, Acts(o, t), stage'[p][u] # stage[p][u]
          PROVE  o = p /\ t = u
      BY <1>1, <3>1, ActsAlone
    <3>2. Gated \in Tasks
      BY DEF Tasks
    <3>3. ASSUME NEW o \in Owners, Claim(o) \/ Crash(o) PROVE FALSE
      <4>1. \A v \in Tasks : stage'[o][v] \in Over
        BY <1>1, <3>3 DEF Claim, Crash, Over
      <4> QED  BY <1>1, <3>3, <4>1 DEF Over, Claim, Crash
    <3>4. (\E o \in Owners, t \in Tasks : Acts(o, t)) \/ stage' = stage
      BY <1>1, <3>2, <3>3 DEF Next, Acts, TakeLock, Decide
    <3> QED  BY <1>1, <3>1, <3>4
  <2>2. ASSUME NEW b \in Memories, GoesOn(p, u, b) PROVE b.ack >= b.gen
    <3>1. Outcome(u, stage[p][u], b, Gets(stage'[p][u], mem'[p]))
      BY <1>1, <2>2, WentOn DEF Finished, Over
    <3>2. ~Pending(b)
      BY <1>1, <3>1 DEF Outcome, Gets
    <3> QED  BY <3>2 DEF Pending, Memories
  <2>3. CASE GoesOn(p, u, mem[p])
    BY <2>a, <2>b, <2>2, <2>3 DEF SpendKnown, Snapshot
  <2>4. CASE Respond(p, u)
    BY <1>1, <2>4 DEF Respond, At
  <2>5. CASE Commits(p, u) /\ GoesOn(p, u, Acknowledged(mem[p], taken[p].gen))
    <3> DEFINE k == Acknowledged(mem[p], taken[p].gen)
    <3>1. /\ k \in Memories /\ k.gen = mem[p].gen
          /\ k.ack = mem[p].ack \/ k.ack = taken[p].gen
      BY <2>a, MemoryTyped DEF Acknowledged, Memories
    <3>2. accounting'.spent = mem[p].baseline + taken[p].gen
      BY <2>b, <2>5 DEF Commits, Saves, SpendKnown
    <3>3. mem[p].ack >= mem[p].gen \/ taken[p].gen >= mem[p].gen
      BY <2>2, <2>5, <3>1
    <3> QED  BY <2>a, <2>b, <3>2, <3>3 DEF SpendKnown, Snapshot
  <2> QED  BY <1>1, <2>b, <2>1, <2>3, <2>4, <2>5, ActsGoOn
<1>2. SpendInvariant /\ [Next]_vars => [A]_vars
  BY <1>1
<1> QED  BY <1>2, SpendSafe, PTL DEF Spec, RequestsOnRecord

-----------------------------------------------------------------------------
(***************************************************************************)
(* The token limit.  A call is admitted below the limit only, and each     *)
(* branch has one call in flight at most, so that what an attempt knows to *)
(* be spent and its calls in flight together stay below the bound.         *)
(***************************************************************************)

Known(m) == m.baseline + m.used

InFlight(o) == {t \in Branches : stage[o][t] \in {"readying", "calling"}}

Bound == Limit + Cardinality(Branches)

BelowBound(o) == Known(mem[o]) + Cardinality(InFlight(o)) < Bound

\* The calls of an attempt can be counted.
LEMMA FlightsCounted ==
  /\ Cardinality(Branches) \in Nat
  /\ \A S \in SUBSET Branches :
       /\ IsFiniteSet(S) /\ Cardinality(S) \in Nat
       /\ Cardinality(S) <= Cardinality(Branches)
BY AccountingAssumption, FS_Subset, FS_CardinalityType

\* What a memory knows to be spent: one more for an answer that is paid for, and
\* the same after an acknowledgement.
LEMMA KnownCounts ==
  ASSUME NEW m \in Memories
  PROVE  /\ m.baseline \in Nat /\ m.used \in Nat /\ m.gen \in Nat /\ Known(m) \in Nat
         /\ m.latest.gen \in Nat /\ m.latest.snap \in Snapshots
         /\ Known(Paid(m)) = Known(m) + 1
         /\ \A g : Known(Acknowledged(m, g)) = Known(m)
         /\ \A n \in Memories : SameSpend(m, n) => Known(n) = Known(m)
         /\ Limit # 0 /\ ~Exhausted(m) => Known(m) < Limit
<1>1. /\ m.baseline \in Nat /\ m.used \in Nat /\ m.gen \in Nat /\ m.latest.gen \in Nat
      /\ m.latest.snap \in Snapshots
  BY DEF Memories, Publications
<1>2. Paid(m).baseline = m.baseline /\ Paid(m).used = m.used + 1
  BY DEF Paid, Memories
<1>3. \A g : Acknowledged(m, g).baseline = m.baseline /\ Acknowledged(m, g).used = m.used
  BY DEF Acknowledged, Memories
<1>4. \A n \in Memories : SameSpend(m, n) => n.baseline = m.baseline /\ n.used = m.used
  BY DEF SameSpend
<1> QED
  BY <1>1, <1>2, <1>3, <1>4, AccountingAssumption DEF Known, Exhausted

\* No attempt gets past the bound.
LEMMA BoundStep ==
  ASSUME Limit # 0, SpendInvariant, \A o \in Owners : BelowBound(o),
         accounting.spent < Bound, [Next]_vars
  PROVE  accounting'.spent < Bound /\ \A o \in Owners : BelowBound(o)'
<1> USE DEF SpendInvariant, Safe, TypeOK
<1>a. Gated \in Tasks /\ Gated \notin Branches /\ Branches \subseteq Tasks /\ Limit \in Nat
      /\ Cardinality(Branches) \in Nat
  BY AccountingAssumption, FlightsCounted DEF Tasks
<1>b. ASSUME NEW o \in Owners
      PROVE  /\ Known(mem[o]) \in Nat /\ Cardinality(InFlight(o)) \in Nat
             /\ IsFiniteSet(InFlight(o)) /\ Known(mem[o]) < Bound
             /\ mem[o].latest.snap.spent <= Known(mem[o])
             /\ lock[o] # {} => taken[o].snap.spent <= Known(mem[o])
  <2>1. Known(mem[o]) \in Nat
    BY DEF Known, Memories
  <2>2. Cardinality(InFlight(o)) \in Nat /\ IsFiniteSet(InFlight(o))
    BY FlightsCounted DEF InFlight
  <2>3. SpendKnown(o) /\ BelowBound(o)
    OBVIOUS
  <2>4. /\ mem[o].baseline \in Nat /\ mem[o].used \in Nat /\ mem[o].gen \in Nat
        /\ mem[o].latest.gen \in Nat /\ taken[o].gen \in Nat
    BY KnownCounts DEF Publications
  <2> QED  BY <1>a, <2>1, <2>2, <2>3, <2>4 DEF BelowBound, SpendKnown, Known, Bound
<1>c. ASSUME NEW o \in Owners, mem'[o] = mem[o], InFlight(o)' \subseteq InFlight(o)
      PROVE  BelowBound(o)'
  <2>1. Cardinality(InFlight(o)') <= Cardinality(InFlight(o)) /\ Cardinality(InFlight(o)') \in Nat
    BY <1>b, <1>c, FS_Subset, FS_CardinalityType
  <2> QED  BY <1>a, <1>b, <1>c, <2>1 DEF BelowBound, Bound
<1>d. ASSUME NEW o \in Owners, InFlight(o)' = {}, Known(mem'[o]) < Bound, Known(mem'[o]) \in Nat
      PROVE  BelowBound(o)'
  BY <1>d, FS_EmptySet DEF BelowBound
<1>1. ASSUME NEW o \in Owners, NEW t \in Tasks, Acts(o, t)
      PROVE  accounting'.spent < Bound /\ \A p \in Owners : BelowBound(p)'
  <2> DEFINE m == mem[o]
  <2>1. accounting'.spent < Bound
    <3>1. \/ accounting' = accounting
          \/ lock[o] = {t} /\ accounting' = taken[o].snap
          \/ accounting' = Deferred(mem[o].latest.snap)
      BY <1>1, ActsRecords
    <3>2. taken[o].snap \in Snapshots /\ mem[o].latest.snap \in Snapshots
      BY DEF Publications, Memories
    <3>3. /\ taken[o].snap.spent \in Nat /\ mem[o].latest.snap.spent \in Nat
          /\ Deferred(mem[o].latest.snap).spent = mem[o].latest.snap.spent
      BY <3>2 DEF Snapshots, Deferred
    <3>4. Bound \in Nat /\ Known(m) \in Nat /\ Known(m) < Bound
      BY <1>a, <1>b DEF Bound
    <3>5. CASE lock[o] = {t} /\ accounting' = taken[o].snap
      <4>1. taken[o].snap.spent <= Known(mem[o])
        BY <1>b, <3>5
      <4> QED  BY <3>3, <3>4, <3>5, <4>1
    <3>6. CASE accounting' = Deferred(mem[o].latest.snap)
      BY <1>b, <3>3, <3>4, <3>6
    <3> QED  BY <3>1, <3>5, <3>6
  <2>2. ASSUME NEW p \in Owners \ {o} PROVE BelowBound(p)'
    <3>1. mem'[p] = mem[p] /\ stage'[p] = stage[p]
      BY <1>1, <2>2, ActsAlone
    <3>2. InFlight(p)' = InFlight(p)
      BY <3>1 DEF InFlight
    <3> QED  BY <1>c, <3>1, <3>2
  <2>3. ASSUME NEW b \in Memories, GoesOn(o, t, b),
               \/ Known(b) = Known(m)
               \/ Known(b) = Known(m) + 1 /\ t \in InFlight(o) /\ stage[o][t] # "readying"
        PROVE  BelowBound(o)'
    <3> DEFINE n == mem'[o]
    <3>1. \A u \in Tasks \ {t} : stage'[o][u] = stage[o][u]
      BY <2>3, WentOn
    <3>2. CASE n = Gone /\ Finished(o)'
      <4>1. InFlight(o)' = {}
        BY <1>a, <3>2 DEF InFlight, Finished, Over
      <4>2. Known(Gone) = 0
        BY GoneTyped DEF Restored, Zero, Known
      <4> QED  BY <1>a, <1>d, <3>2, <4>1, <4>2 DEF Bound
    <3>3. CASE Outcome(t, stage[o][t], b, Gets(stage'[o][t], n))
      <4>1. Known(n) = Known(b) /\ Known(n) \in Nat
        <5>1. n \in Memories /\ SameSpend(b, n)
          BY <3>3 DEF Outcome, Gets
        <5> QED  BY <5>1, <2>3, KnownCounts
      <4>2. IsFiniteSet(InFlight(o)') /\ Cardinality(InFlight(o)') \in Nat
            /\ Cardinality(InFlight(o)') <= Cardinality(Branches)
        BY FlightsCounted DEF InFlight
      <4>3. CASE stage'[o][t] \in {"readying", "calling"} /\ ~Exhausted(b)
        <5>1. Known(b) < Limit
          BY <2>3, <4>3, KnownCounts
        <5> QED  BY <1>a, <4>1, <4>2, <5>1 DEF BelowBound, Bound
      <4>4. CASE stage'[o][t] \in {"readying", "calling"} /\ Exhausted(b)
        <5>1. stage[o][t] = "readying"
          BY <3>3, <4>4 DEF Outcome, Gets
        <5>2. InFlight(o)' \subseteq InFlight(o)
          BY <1>a, <3>1, <5>1 DEF InFlight
        <5>3. Cardinality(InFlight(o)') <= Cardinality(InFlight(o))
          BY <1>b, <5>2, FS_Subset
        <5> QED  BY <1>a, <1>b, <2>3, <4>1, <4>2, <5>1, <5>3 DEF BelowBound, Bound
      <4>5. CASE stage'[o][t] \notin {"readying", "calling"}
        <5>1. InFlight(o)' = InFlight(o) \ {t}
          BY <1>a, <3>1, <4>5 DEF InFlight
        <5>2. Cardinality(InFlight(o)') = IF t \in InFlight(o)
                THEN Cardinality(InFlight(o)) - 1 ELSE Cardinality(InFlight(o))
          BY <1>b, <5>1, FS_RemoveElement
        <5> QED  BY <1>a, <1>b, <2>3, <4>1, <4>2, <5>2 DEF BelowBound, Bound
      <4> QED  BY <4>3, <4>4, <4>5
    <3> QED  BY <2>3, <3>2, <3>3, WentOn
  <2>m. m \in Memories
    OBVIOUS
  <2>4. ASSUME GoesOn(o, t, m) PROVE BelowBound(o)'
    BY <2>m, <2>3, <2>4
  <2>5. ASSUME Respond(o, t), GoesOn(o, t, Paid(m)) PROVE BelowBound(o)'
    <3>1. Paid(m) \in Memories /\ Known(Paid(m)) = Known(m) + 1
      BY <2>m, MemoryTyped, KnownCounts
    <3>2. stage[o][t] = "calling"
      BY <2>5 DEF Respond, At
    <3>3. t \in InFlight(o)
      BY <3>2 DEF InFlight, Tasks, Shape, GatedStages, Over
    <3> QED  BY <2>3, <2>5, <3>1, <3>2, <3>3
  <2>6. ASSUME GoesOn(o, t, Acknowledged(m, taken[o].gen)) PROVE BelowBound(o)'
    <3>1. taken[o].gen \in Nat
      BY DEF Publications
    <3>2. /\ Acknowledged(m, taken[o].gen) \in Memories
          /\ Known(Acknowledged(m, taken[o].gen)) = Known(m)
      BY <2>m, <3>1, MemoryTyped, KnownCounts
    <3> QED  BY <2>3, <2>6, <3>2
  <2>7. BelowBound(o)'
    BY <1>1, <2>4, <2>5, <2>6, ActsGoOn
  <2> QED  BY <2>1, <2>2, <2>7
<1>2. ASSUME NEW o \in Owners, Claim(o) \/ Crash(o)
      PROVE  accounting'.spent < Bound /\ \A p \in Owners : BelowBound(p)'
  <2>1. /\ accounting' = accounting
        /\ \A t \in Tasks : stage'[o][t] \in Over
        /\ \A p \in Owners \ {o} : stage'[p] = stage[p] /\ mem'[p] = mem[p]
        /\ mem'[o] \in {Gone, Restored(accounting)}
    BY <1>2 DEF Claim, Crash, durable, Remembers, Over
  <2>2. InFlight(o)' = {}
    BY <1>a, <2>1 DEF InFlight, Over
  <2>3. accounting.spent \in Nat /\ accounting.spent < Bound
    BY DEF Snapshots
  <2>4. Known(mem'[o]) \in Nat /\ Known(mem'[o]) < Bound
    <3>1. Known(Gone) = 0 /\ Known(Restored(accounting)) = accounting.spent
      BY <2>3, GoneTyped DEF Known, Restored, Zero
    <3> QED  BY <1>a, <2>1, <2>3, <3>1 DEF Bound
  <2>5. BelowBound(o)'
    BY <1>d, <2>2, <2>4
  <2>6. ASSUME NEW p \in Owners \ {o} PROVE BelowBound(p)'
    <3>1. InFlight(p)' = InFlight(p) /\ mem'[p] = mem[p]
      BY <2>1, <2>6 DEF InFlight
    <3> QED  BY <1>c, <3>1
  <2> QED  BY <2>1, <2>5, <2>6
<1>3. CASE Decide \/ UNCHANGED vars \/ \E o \in Owners, t \in Tasks : TakeLock(o, t)
  <2>1. accounting' = accounting /\ mem' = mem /\ stage' = stage
    BY <1>3 DEF Decide, vars, durable, TakeLock
  <2>2. ASSUME NEW p \in Owners PROVE BelowBound(p)'
    BY <1>c, <2>1 DEF InFlight
  <2> QED  BY <2>1, <2>2
<1> QED
  BY <1>1, <1>2, <1>3, <1>a DEF Next, Acts

\* Over all attempts of a run, the total on record passes the token limit by no more
\* than the calls that were in flight together.
THEOREM OvershootIsBounded == Spec => []OvershootBounded
<1> DEFINE Inv == Limit # 0 => accounting.spent < Bound /\ \A o \in Owners : BelowBound(o)
<1>1. Init => Inv
  <2> SUFFICES ASSUME Init, Limit # 0
               PROVE  accounting.spent < Bound /\ \A o \in Owners : BelowBound(o)
    OBVIOUS
  <2>1. Limit \in Nat /\ Cardinality(Branches) \in Nat
    BY AccountingAssumption, FlightsCounted
  <2>2. ASSUME NEW o \in Owners PROVE BelowBound(o)
    <3>1. InFlight(o) = {}
      BY DEF Init, InFlight, Tasks
    <3>2. Known(mem[o]) = 0
      BY DEF Init, Known, Restored, Zero
    <3> QED  BY <2>1, <3>1, <3>2, FS_EmptySet DEF BelowBound, Bound
  <2> QED  BY <2>1, <2>2 DEF Init, Zero, Bound
<1>2. SpendInvariant /\ Inv /\ [Next]_vars => Inv'
  BY BoundStep DEF Bound
<1>3. Inv => OvershootBounded
  BY DEF OvershootBounded, Bound
<1> QED  BY <1>1, <1>2, <1>3, SpendSafe, PTL DEF Spec


-----------------------------------------------------------------------------
(***************************************************************************)
(* The ledger of actions.  What the holder of the run knows is never       *)
(* behind the record, and an action that waits for its reservation has it  *)
(* in the publication its commit saves, one more than it was executed.     *)
(***************************************************************************)

\* The write has a reservation.
Reserved == {"reserving", "acting", "pausing", "paused"}

\* A deferred reservation is one that was made.
Backed(snap) == snap.deferred => Charges(snap.charged, Gated) > 0

LedgerOf(o) ==
  LET m == mem[o] IN
  /\ m.charged = m.latest.snap.charged
  /\ m.deferred => m.latest.snap.deferred
  /\ Len(m.charged) <= Ceiling /\ Len(taken[o].snap.charged) <= Ceiling
  /\ Backed(m.latest.snap) /\ Backed(taken[o].snap)
  /\ stage[o][Gated] \in Reserved => ~m.deferred /\ Charges(m.charged, Gated) > 0

OnRecord == Len(accounting.charged) <= Ceiling /\ Backed(accounting)

\* What a transition of task t from stage s to stage r does to the ledger.
Same(t, s, r, m, n) ==
  SameLedger(m, n) /\ r # "reserving" /\ (t = Gated => From(r, s))
Charged(t, s, r, m, n) ==
  /\ r = "reserving" /\ s \in {"starting", "retrying"} /\ Len(m.charged) < Ceiling
  /\ n.charged = Append(m.charged, t) /\ n.deferred = m.deferred
  /\ n.latest.snap.charged = n.charged
  /\ t = Gated => ~m.deferred
Redeemed(t, s, r, m, n) ==
  /\ r = "acting" /\ s \in {"starting", "retrying"} /\ t = Gated
  /\ n.charged = m.charged /\ n.latest = m.latest
  /\ m.deferred /\ ~n.deferred
Books(t, s, r, m, n) ==
  /\ \/ n.latest = m.latest
     \/ n.latest.snap.charged = n.charged /\ n.latest.snap.deferred = n.deferred
  /\ Same(t, s, r, m, n) \/ Charged(t, s, r, m, n) \/ Redeemed(t, s, r, m, n)

\* Every step keeps its attempt's books, unless it ends the attempt.
LEMMA BooksKept ==
  ASSUME TypeOK, NEW o \in Owners, Shape(o), NEW t \in Tasks, Acts(o, t)
  PROVE  \/ mem'[o] = Gone /\ Finished(o)'
         \/ /\ Books(t, stage[o][t], stage'[o][t], mem[o], mem'[o])
            /\ mem'[o].dying = mem[o].dying \/ stage'[o][t] \in Over
<1> USE DEF TypeOK
<1> DEFINE m == mem[o]
           n == mem'[o]
<1>1. \E b \in Memories : /\ SameLedger(m, b) /\ b.latest = m.latest /\ b.dying = m.dying
                          /\ GoesOn(o, t, b)
  <2>1. m \in Memories /\ taken[o].gen \in Nat
    BY DEF Publications
  <2>2. SameLedger(m, m)
    BY DEF SameLedger
  <2>3. Paid(m).latest = m.latest /\ Paid(m).dying = m.dying
    BY <2>1 DEF Paid, Memories
  <2>4. \A g \in Nat : /\ Acknowledged(m, g).latest = m.latest
                       /\ Acknowledged(m, g).dying = m.dying
    BY <2>1 DEF Acknowledged, Memories
  <2>5. /\ Paid(m) \in Memories /\ SameLedger(m, Paid(m))
        /\ Acknowledged(m, taken[o].gen) \in Memories
        /\ SameLedger(m, Acknowledged(m, taken[o].gen))
    BY <2>1, MemoryTyped
  <2> QED  BY <2>1, <2>2, <2>3, <2>4, <2>5, ActsGoOn
<1>2. PICK b \in Memories : /\ SameLedger(m, b) /\ b.latest = m.latest /\ b.dying = m.dying
                            /\ GoesOn(o, t, b)
  BY <1>1
<1>3. CASE Outcome(t, stage[o][t], b, Gets(stage'[o][t], n))
  <2> DEFINE s == stage[o][t]
             r == stage'[o][t]
  <2>1. /\ Publishes(b, n)
        /\ n.dying = b.dying \/ r \in Over
        /\ \/ SameLedger(b, n) /\ r # "reserving" /\ (t = Gated => From(r, s))
           \/ /\ r = "reserving" /\ Len(b.charged) < Ceiling /\ s \in {"starting", "retrying"}
              /\ n.charged = Append(b.charged, t) /\ n.deferred = b.deferred
              /\ n.latest.snap.charged = n.charged
              /\ t = Gated => ~b.deferred
           \/ /\ r = "acting" /\ t = Gated /\ s \in {"starting", "retrying"}
              /\ n.charged = b.charged /\ n.latest = b.latest
              /\ b.deferred /\ ~n.deferred
    BY <1>3 DEF Outcome, Gets
  <2>2. b.charged = m.charged /\ b.deferred = m.deferred /\ b.latest = m.latest
    BY <1>2 DEF SameLedger
  <2>3. Same(t, s, r, m, n) \/ Charged(t, s, r, m, n) \/ Redeemed(t, s, r, m, n)
    BY <2>1, <2>2 DEF SameLedger, Same, Charged, Redeemed
  <2>4. \/ n.latest = m.latest
        \/ n.latest.snap.charged = n.charged /\ n.latest.snap.deferred = n.deferred
    BY <2>1, <2>2 DEF Publishes, Snapshot
  <2> QED  BY <1>2, <2>1, <2>3, <2>4 DEF Books
<1> QED  BY <1>2, <1>3, WentOn

\* The count of a task's debits never goes back, and grows with its own debit.
LEMMA BooksGrow ==
  ASSUME NEW t \in Tasks, NEW s, NEW r, NEW m \in Memories, NEW n \in Memories,
         Books(t, s, r, m, n), NEW u
  PROVE  /\ Charges(m.charged, u) \in Nat /\ Charges(n.charged, u) \in Nat
         /\ Charges(n.charged, u) >= Charges(m.charged, u)
         /\ Charged(t, s, r, m, n) =>
              Charges(n.charged, u) = Charges(m.charged, u) + (IF u = t THEN 1 ELSE 0)
         /\ ~Charged(t, s, r, m, n) => n.charged = m.charged
<1>1. m.charged \in Seq(Tasks) /\ n.charged \in Seq(Tasks)
  BY DEF Memories
<1>2. Charges(m.charged, u) \in Nat /\ Charges(n.charged, u) \in Nat
  BY <1>1, ChargesCounted
<1>3. CASE Charged(t, s, r, m, n)
  <2>1. Charges(n.charged, u) = Charges(m.charged, u) + (IF u = t THEN 1 ELSE 0)
    BY <1>1, <1>3, ChargesAppend DEF Charged
  <2> QED  BY <1>2, <1>3, <2>1
<1>4. CASE ~Charged(t, s, r, m, n)
  <2>1. n.charged = m.charged
    BY <1>4 DEF Books, Same, Redeemed, SameLedger
  <2> QED  BY <1>2, <1>4, <2>1
<1> QED  BY <1>3, <1>4

\* What is remembered, published, taken and recorded stays under the ceiling, and a
\* deferred reservation is never without its debit.
LEMMA LedgerStep ==
  ASSUME Safe, \A o \in Owners : LedgerOf(o), OnRecord, [Next]_vars
  PROVE  OnRecord' /\ \A o \in Owners : LedgerOf(o)'
<1> USE AccountingAssumption DEF Safe, TypeOK
<1>a. Gated \in Tasks
  BY DEF Tasks
<1>b. Len(Nothing.snap.charged) <= Ceiling /\ Backed(Nothing.snap) /\ Len(<<>>) <= Ceiling
  BY DEF Nothing, Zero, Backed
<1>c. /\ Gone.charged = <<>> /\ Gone.deferred = FALSE /\ Gone.latest.snap.charged = <<>>
      /\ Gone.latest.snap.deferred = FALSE
  BY GoneTyped DEF Restored, Zero
<1>d. ASSUME NEW o \in Owners, mem'[o] = mem[o], stage'[o][Gated] = stage[o][Gated],
             taken'[o] = taken[o]
      PROVE  LedgerOf(o)'
  BY <1>d DEF LedgerOf
<1>1. ASSUME NEW o \in Owners, NEW t \in Tasks, Acts(o, t)
      PROVE  OnRecord' /\ \A p \in Owners : LedgerOf(p)'
  <2> DEFINE m == mem[o]
             n == mem'[o]
             s == stage[o][t]
             r == stage'[o][t]
  <2>a. Shape(o) /\ LedgerOf(o) /\ m \in Memories /\ n \in Memories
    BY <1>1, TypeStep DEF Next, Acts
  <2>1. OnRecord'
    <3>1. \/ accounting' = accounting
          \/ accounting' = taken[o].snap
          \/ Pause(o) /\ accounting' = Deferred(m.latest.snap)
      BY <1>1, <2>a, ActsRecords
    <3>2. CASE accounting' = accounting
      BY <3>2 DEF OnRecord
    <3>3. CASE accounting' = taken[o].snap
      BY <2>a, <3>3 DEF OnRecord, LedgerOf
    <3>4. CASE Pause(o) /\ accounting' = Deferred(m.latest.snap)
      <4>1. stage[o][Gated] \in Reserved
        BY <3>4 DEF Pause, At, Reserved
      <4>2. Deferred(m.latest.snap).charged = m.latest.snap.charged
        BY <2>a DEF Deferred, Memories, Publications, Snapshots
      <4>3. Len(m.latest.snap.charged) <= Ceiling /\ Charges(m.latest.snap.charged, Gated) > 0
        BY <2>a, <4>1 DEF LedgerOf
      <4> QED  BY <3>4, <4>2, <4>3 DEF OnRecord, Backed
    <3> QED  BY <3>1, <3>2, <3>3, <3>4
  <2>2. ASSUME NEW p \in Owners \ {o} PROVE LedgerOf(p)'
    <3>1. mem'[p] = mem[p] /\ stage'[p] = stage[p] /\ taken'[p] = taken[p]
      BY <1>1, <2>a, <2>2, ActsAlone
    <3> QED  BY <1>d, <2>2, <3>1
  <2>3. Len(taken'[o].snap.charged) <= Ceiling /\ Backed(taken'[o].snap)
    <3>1. taken'[o] = Nothing \/ taken'[o] = taken[o]
      BY <1>1, <2>a, ActsRecords
    <3> QED  BY <1>b, <2>a, <3>1 DEF LedgerOf
  <2>4. LedgerOf(o)'
    <3>1. CASE n = Gone /\ Finished(o)'
      <4>1. stage'[o][Gated] \notin Reserved
        BY <1>a, <3>1 DEF Finished, Over, Reserved
      <4> QED  BY <1>b, <1>c, <2>3, <3>1, <4>1 DEF LedgerOf, Backed
    <3>2. CASE Books(t, s, r, m, n)
      <4>1. /\ m.charged = m.latest.snap.charged /\ (m.deferred => m.latest.snap.deferred)
            /\ Len(m.charged) <= Ceiling /\ Backed(m.latest.snap)
            /\ stage[o][Gated] \in Reserved => ~m.deferred /\ Charges(m.charged, Gated) > 0
        BY <2>a DEF LedgerOf
      <4>2. Charges(n.charged, Gated) >= Charges(m.charged, Gated)
            /\ Charges(n.charged, Gated) \in Nat /\ Charges(m.charged, Gated) \in Nat
        BY <2>a, <3>2, BooksGrow
      <4>3. n.charged = n.latest.snap.charged
        BY <3>2, <4>1 DEF Books, Same, Charged, Redeemed, SameLedger
      <4>4. n.deferred => m.deferred /\ n.latest.snap.deferred
        BY <3>2, <4>1 DEF Books, Same, Charged, Redeemed, SameLedger
      <4>5. Len(n.charged) <= Ceiling
        <5>1. m.charged \in Seq(Tasks)
          BY <2>a DEF Memories
        <5>2. CASE Charged(t, s, r, m, n)
          <6>1. Len(Append(m.charged, t)) = Len(m.charged) + 1
            BY <5>1
          <6> QED  BY <5>1, <5>2, <6>1 DEF Charged
        <5>3. CASE ~Charged(t, s, r, m, n)
          <6>1. n.charged = m.charged
            BY <3>2, <5>3 DEF Books, Same, Redeemed, SameLedger
          <6> QED  BY <4>1, <6>1
        <5> QED  BY <5>2, <5>3
      <4>6. Backed(n.latest.snap)
        <5>1. CASE n.latest = m.latest
          BY <4>1, <5>1
        <5>2. CASE n.latest.snap.deferred = n.deferred
          BY <4>1, <4>2, <4>3, <4>4, <5>2 DEF Backed
        <5> QED  BY <3>2, <5>1, <5>2 DEF Books
      <4>7. stage'[o][Gated] \in Reserved => ~n.deferred /\ Charges(n.charged, Gated) > 0
        <5>1. CASE t # Gated
          <6>1. stage'[o][Gated] = stage[o][Gated]
            BY <1>1, <1>a, <2>a, <5>1, ActsAlone
          <6> QED  BY <4>1, <4>2, <4>4, <6>1
        <5>2. CASE t = Gated /\ Same(t, s, r, m, n)
          BY <4>1, <4>2, <4>4, <5>2 DEF Same, From, Reserved
        <5>3. CASE t = Gated /\ Charged(t, s, r, m, n)
          <6>1. Charges(n.charged, Gated) = Charges(m.charged, Gated) + 1
            <7>1. n.charged = Append(m.charged, Gated) /\ m.charged \in Seq(Tasks)
              BY <2>a, <5>3 DEF Charged, Memories
            <7> QED  BY <1>a, <7>1, ChargesAppend
          <6>2. ~n.deferred
            BY <5>3 DEF Charged
          <6> QED  BY <4>2, <6>1, <6>2
        <5>4. CASE t = Gated /\ Redeemed(t, s, r, m, n)
          BY <4>1, <5>4 DEF Redeemed, Backed
        <5> QED  BY <3>2, <5>1, <5>2, <5>3, <5>4 DEF Books
      <4> QED  BY <2>3, <4>3, <4>4, <4>5, <4>6, <4>7 DEF LedgerOf
    <3> QED  BY <1>1, <2>a, <3>1, <3>2, BooksKept
  <2> QED  BY <2>1, <2>2, <2>4
<1>2. ASSUME NEW o \in Owners, Claim(o) PROVE OnRecord' /\ \A p \in Owners : LedgerOf(p)'
  <2>1. /\ accounting' = accounting /\ mem' = [mem EXCEPT ![o] = Restored(accounting)]
        /\ stage'[o][Gated] \in Over /\ taken' = taken
        /\ \A p \in Owners \ {o} : stage'[p] = stage[p]
    BY <1>2, <1>a DEF Claim, durable, Remembers, Over
  <2>2. mem'[o] = Restored(accounting) /\ \A p \in Owners \ {o} : mem'[p] = mem[p]
    BY <2>1
  <2>3. LedgerOf(o)'
    BY <2>1, <2>2 DEF LedgerOf, OnRecord, Restored, Reserved, Over
  <2>4. ASSUME NEW p \in Owners \ {o} PROVE LedgerOf(p)'
    BY <1>d, <2>1, <2>2, <2>4
  <2> QED  BY <2>1, <2>3, <2>4 DEF OnRecord
<1>3. ASSUME NEW o \in Owners, NEW t \in Tasks, TakeLock(o, t)
      PROVE  OnRecord' /\ \A p \in Owners : LedgerOf(p)'
  <2>1. /\ accounting' = accounting /\ mem' = mem /\ stage' = stage
        /\ taken'[o] = mem[o].latest /\ \A p \in Owners \ {o} : taken'[p] = taken[p]
    BY <1>3 DEF TakeLock, durable
  <2>2. LedgerOf(o)'
    BY <2>1 DEF LedgerOf
  <2>3. ASSUME NEW p \in Owners \ {o} PROVE LedgerOf(p)'
    BY <1>d, <2>1, <2>3
  <2> QED  BY <2>1, <2>2, <2>3 DEF OnRecord
<1>4. ASSUME NEW o \in Owners, Crash(o) PROVE OnRecord' /\ \A p \in Owners : LedgerOf(p)'
  <2>1. /\ accounting' = accounting /\ mem'[o] = Gone /\ stage'[o][Gated] = "ended"
        /\ taken'[o] = Nothing
        /\ \A p \in Owners \ {o} : mem'[p] = mem[p] /\ stage'[p] = stage[p] /\ taken'[p] = taken[p]
    BY <1>4, <1>a DEF Crash, durable, Remembers, Unlocks
  <2>2. LedgerOf(o)'
    BY <1>b, <1>c, <2>1 DEF LedgerOf, Backed, Reserved
  <2>3. ASSUME NEW p \in Owners \ {o} PROVE LedgerOf(p)'
    BY <1>d, <2>1, <2>3
  <2> QED  BY <2>1, <2>2, <2>3 DEF OnRecord
<1>5. CASE Decide \/ UNCHANGED vars
  <2>1. accounting' = accounting /\ mem' = mem /\ stage' = stage /\ taken' = taken
    BY <1>5 DEF Decide, vars, durable
  <2>2. ASSUME NEW p \in Owners PROVE LedgerOf(p)'
    BY <1>d, <2>1, <2>2
  <2> QED  BY <2>1, <2>2 DEF OnRecord
<1> QED
  BY <1>1, <1>2, <1>3, <1>4, <1>5, <1>a DEF Next, Acts

-----------------------------------------------------------------------------
(* Executions.                                                             *)

\* The action of a branch runs in the commit that pays for it; the write is sent
\* once it is approved; a pause asks for its decision.
Runs(o, t) ==
  /\ holder = {o} /\ lock[o] = {t} /\ stage[o][t] = "reserving" /\ t # Gated
  /\ ran' = [ran EXCEPT ![t] = @ + 1] /\ accounting' = taken[o].snap
  /\ approval' = approval
Sends(o, t) ==
  /\ t = Gated /\ holder = {o} /\ stage[o][Gated] = "acting" /\ approval = "approved"
  /\ ran' = [ran EXCEPT ![Gated] = @ + 1] /\ accounting' = accounting
  /\ approval' \in {"executing", "completed"}
Asks(o, t) ==
  /\ t = Gated /\ holder = {o} /\ holder' = {} /\ stage[o][Gated] = "paused"
  /\ ran' = ran /\ approval' = "pending"

\* Every step of an attempt does one of these, or no execution and no decision.
LEMMA ActsExecute ==
  ASSUME TypeOK, NEW o \in Owners, Shape(o), NEW t \in Tasks, Acts(o, t)
  PROVE  /\ ~Finished(o)
         /\ UNCHANGED <<ran, approval>> \/ Runs(o, t) \/ Sends(o, t) \/ Asks(o, t)
<1> USE AccountingAssumption DEF TypeOK
<1>a. Gated \in Tasks /\ \A u \in Tasks : stage[o][u] \in Stages
  BY DEF Tasks
<1>b. lock[o] = {t} => stage[o][t] \in Committing
  BY DEF Shape
<1> USE DEF Committing, Over
<1>1. CASE Start(o, t) \/ Retrieve(o, t) \/ Respond(o, t) \/ Cancelled(o, t)
  BY <1>1 DEF Start, Retrieve, Respond, Cancelled, durable, At, Running, Finished
<1>2. CASE Commits(o, t)
  <2>1. lock[o] = {t} /\ Saves(o, t) /\ approval' = approval
    BY <1>2 DEF Commits
  <2>2. ~Finished(o)
    BY <1>b, <2>1 DEF Finished
  <2>3. \/ ran' = ran
        \/ stage[o][t] = "reserving" /\ t # Gated /\ ran' = [ran EXCEPT ![t] = @ + 1]
    BY <1>2 DEF Commits
  <2> QED  BY <2>1, <2>2, <2>3 DEF Saves, Runs
<1>3. CASE CommitLost(o, t)
  BY <1>3, <1>b DEF CommitLost, Finished
<1>4. CASE t = Gated /\ Write(o)
  BY <1>4, <1>a DEF Write, At, Running, Finished, Sends
<1>5. CASE t = Gated /\ Pause(o)
  <2>1. ~Finished(o) /\ stage[o][Gated] = "paused" /\ ran' = ran
    BY <1>5, <1>a DEF Pause, At, Finished
  <2> QED  BY <1>5, <2>1 DEF Pause, Asks
<1> QED  BY <1>1, <1>2, <1>3, <1>4, <1>5 DEF Acts

\* Where the write is, and what its attempt knows: it acts on a deferred reservation or
\* on one that the commit has just put on record, and pauses when nobody has decided.
LEMMA WriteStep ==
  ASSUME TypeOK, NEW o \in Owners, Shape(o), Acts(o, Gated)
  PROVE  /\ stage'[o][Gated] = "acting" =>
              \/ stage[o][Gated] \in {"starting", "retrying"}
              \/ /\ stage[o][Gated] = "reserving" /\ lock[o] = {Gated}
                 /\ accounting' = taken[o].snap
         /\ stage'[o][Gated] \in {"pausing", "paused"} =>
              /\ approval' = approval
              /\ stage[o][Gated] \in {"pausing", "paused"} \/ approval = "none"
<1> USE AccountingAssumption DEF TypeOK
<1>a. Gated \in Tasks
  BY DEF Tasks
<1> DEFINE s == stage[o][Gated]
           r == stage'[o][Gated]
<1>1. CASE Start(o, Gated)
  BY <1>1, <1>a DEF Start, Steps, Sets
<1>2. CASE Retrieve(o, Gated) \/ Respond(o, Gated)
  BY <1>2, <1>a DEF Retrieve, Respond, Branches, At, Shape, GatedStages, Over
<1>3. CASE Commits(o, Gated)
  <2>1. /\ lock[o] = {Gated} /\ accounting' = taken[o].snap /\ approval' = approval
        /\ s \in Committing
    BY <1>3 DEF Commits, Saves, Shape
  <2>2. r \notin {"acting", "pausing", "paused"} \/ From(r, s) \/ s \in {"starting", "retrying"}
    <3>1. CASE mem'[o] = Gone /\ Finished(o)'
      BY <1>a, <3>1 DEF Finished, Over
    <3>2. CASE Books(Gated, s, r, mem[o], mem'[o])
      BY <3>2 DEF Books, Same, Charged, Redeemed
    <3> QED  BY <1>a, <3>1, <3>2, BooksKept
  <2>3. r \in {"pausing", "paused"} => s \notin {"starting", "retrying"}
    <3>1. CASE mem[o].dying
      <4>1. r = Interrupted(s)
        BY <1>3, <1>a, <3>1 DEF Commits, Steps, Sets
      <4> QED  BY <4>1 DEF Interrupted
    <3>2. CASE ~mem[o].dying
      <4> DEFINE k == Acknowledged(mem[o], taken[o].gen)
      <4>1. Goes(o, Gated, Continues(Gated, try[o][Gated], s, k))
        BY <1>3, <3>2 DEF Commits
      <4>2. ASSUME s \in {"starting", "retrying"}
            PROVE  Continues(Gated, try[o][Gated], s, k).stage \notin {"pausing", "paused"}
        BY <4>2 DEF Continues, Reserves, Operates, Emits, Gets, IsCharged, Branches
      <4> QED  BY <1>a, <4>1, <4>2 DEF Goes, Steps, Sets
    <3> QED  BY <3>1, <3>2
  <2> QED  BY <2>1, <2>2, <2>3 DEF From, Committing
<1>4. CASE CommitLost(o, Gated)
  <2>1. s \in Committing \cap GatedStages
    BY <1>4 DEF CommitLost, Shape
  <2>2. s \notin {"recording", "rejecting"}
    BY <2>1 DEF GatedStages, Over
  <2>3. r \in {"ended", "failing"}
    BY <1>4, <1>a, <2>2 DEF CommitLost, EndsAt, Goes, Steps, Sets, Emits, Gets
  <2> QED  BY <2>3
<1>5. CASE Cancelled(o, Gated) \/ Pause(o)
  BY <1>5, <1>a DEF Cancelled, Pause, Steps, Sets
<1>6. CASE Write(o)
  BY <1>6, <1>a DEF Write, Steps, Sets
<1> QED  BY <1>1, <1>2, <1>3, <1>4, <1>5, <1>6 DEF Acts

-----------------------------------------------------------------------------
(* An execution is paid for on record.                                     *)

Holds(o) == holder = {o} /\ ~Finished(o)

\* What the holder knows of a task t, against the record.
AheadOf(o, t) ==
  LET onRecord == Charges(accounting.charged, t)
      underWay == Charges(taken[o].snap.charged, t)
      mine == Charges(mem[o].charged, t) IN
  /\ onRecord <= mine
  /\ lock[o] # {} => onRecord <= underWay /\ underWay <= mine
  /\ stage[o][t] = "reserving" => mine > ran[t] /\ (lock[o] = {t} => underWay > ran[t])
  /\ t = Gated /\ (mem[o].deferred \/ stage[o][t] = "acting") => onRecord > 0

Ahead(o) == Holds(o) => \A t \in Tasks : AheadOf(o, t)

\* The write is sent once, and paused for nobody's decision only once.
ApprovalKnown ==
  /\ approval \notin {"executing", "completed"} => ran[Gated] = 0
  /\ ran[Gated] <= 1
  /\ holder # {} => approval \notin {"pending", "rejected"}
  /\ \A o \in Owners : holder = {o} /\ stage[o][Gated] \in {"pausing", "paused"}
                         => approval = "none"

Covered == \A t \in Tasks : ran[t] <= Charges(accounting.charged, t)

PaidInvariant ==
  /\ Safe /\ OnRecord /\ \A o \in Owners : LedgerOf(o)
  /\ \A o \in Owners : Ahead(o)
  /\ ApprovalKnown /\ Covered

\* The counts the invariant compares are numbers.
LEMMA ChargesTyped ==
  ASSUME TypeOK, NEW t \in Tasks
  PROVE  /\ ran[t] \in Nat /\ Charges(accounting.charged, t) \in Nat
         /\ \A o \in Owners : /\ Charges(mem[o].charged, t) \in Nat
                              /\ Charges(taken[o].snap.charged, t) \in Nat
<1>1. /\ accounting.charged \in Seq(Tasks) /\ ran[t] \in Nat
      /\ \A o \in Owners : mem[o].charged \in Seq(Tasks) /\ taken[o].snap.charged \in Seq(Tasks)
  BY DEF TypeOK, Memories, Publications, Snapshots
<1> QED  BY <1>1, ChargesCounted

\* A step of an attempt that does not hold the run changes nothing on record and
\* executes nothing.
LEMMA OthersNothing ==
  ASSUME TypeOK, NEW o \in Owners, Shape(o), NEW t \in Tasks, Acts(o, t), holder # {o}
  PROVE  holder' = holder /\ UNCHANGED <<ran, approval, accounting>>
BY ActsRecords, ActsExecute DEF Runs, Sends, Asks

\* The record covers the executions after every step of an attempt.
LEMMA CoveredActs ==
  ASSUME PaidInvariant, NEW o \in Owners, NEW t \in Tasks, Acts(o, t)
  PROVE  Covered'
<1> USE DEF PaidInvariant, Safe
<1>a. Shape(o) /\ TypeOK /\ Ahead(o) /\ LedgerOf(o) /\ Gated \in Tasks
  BY DEF Tasks
<1>1. CASE holder # {o}
  BY <1>1, <1>a, OthersNothing DEF Covered
<1>2. CASE holder = {o}
  <2>1. Holds(o) /\ \A u \in Tasks : AheadOf(o, u)
    BY <1>2, <1>a, ActsExecute DEF Holds, Ahead
  <2>2. ASSUME NEW u \in Tasks
        PROVE  /\ Charges(accounting'.charged, u) \in Nat
               /\ Charges(accounting.charged, u) <= Charges(accounting'.charged, u)
    <3>1. \/ accounting' = accounting
          \/ lock[o] = {t} /\ accounting' = taken[o].snap
          \/ accounting' = Deferred(mem[o].latest.snap)
      BY <1>a, ActsRecords
    <3>2. CASE lock[o] = {t} /\ accounting' = taken[o].snap
      BY <1>a, <2>1, <3>2, ChargesTyped DEF AheadOf
    <3>3. CASE accounting' = Deferred(mem[o].latest.snap)
      <4>1. accounting'.charged = mem[o].charged
        <5>1. mem[o].latest.snap \in Snapshots
          BY DEF TypeOK, Memories, Publications
        <5> QED  BY <1>a, <3>3, <5>1 DEF Deferred, Snapshots, LedgerOf
      <4> QED  BY <1>a, <2>1, <4>1, ChargesTyped DEF AheadOf
    <3> QED  BY <1>a, <3>1, <3>2, <3>3, ChargesTyped
  <2>3. ASSUME NEW u \in Tasks PROVE ran'[u] <= Charges(accounting'.charged, u)
    <3>1. ran[u] \in Nat /\ Charges(accounting.charged, u) \in Nat
          /\ ran[u] <= Charges(accounting.charged, u)
      BY <1>a, ChargesTyped DEF Covered
    <3>2. CASE ran' = ran
      BY <2>2, <3>1, <3>2
    <3>3. CASE Runs(o, t)
      <4>1. CASE u = t
        <5>1. ran'[u] = ran[u] + 1 /\ accounting' = taken[o].snap
              /\ ran[u] < Charges(taken[o].snap.charged, u)
          BY <1>a, <2>1, <3>3, <4>1 DEF Runs, AheadOf, TypeOK
        <5>2. Charges(taken[o].snap.charged, u) \in Nat
          BY <1>a, ChargesTyped
        <5> QED  BY <3>1, <5>1, <5>2
      <4>2. CASE u # t
        BY <1>a, <2>2, <3>1, <3>3, <4>2 DEF Runs, TypeOK
      <4> QED  BY <4>1, <4>2
    <3>4. CASE Sends(o, t)
      <4>1. CASE u = Gated
        <5>1. ran[u] = 0 /\ Charges(accounting.charged, u) > 0 /\ accounting' = accounting
          BY <1>a, <2>1, <3>4, <4>1 DEF Sends, ApprovalKnown, AheadOf
        <5>2. ran'[u] = 1
          BY <1>a, <3>4, <4>1, <5>1 DEF Sends, TypeOK
        <5> QED  BY <3>1, <5>1, <5>2
      <4>2. CASE u # Gated
        BY <1>a, <2>2, <3>1, <3>4, <4>2 DEF Sends, TypeOK
      <4> QED  BY <4>1, <4>2
    <3> QED  BY <1>a, <3>2, <3>3, <3>4, ActsExecute DEF Asks
  <2> QED  BY <2>3 DEF Covered
<1> QED  BY <1>1, <1>2

\* The decision on the write and its one sending.
LEMMA ApprovalActs ==
  ASSUME PaidInvariant, NEW o \in Owners, NEW t \in Tasks, Acts(o, t)
  PROVE  ApprovalKnown'
<1> USE DEF PaidInvariant, Safe
<1>a. Shape(o) /\ TypeOK /\ Gated \in Tasks /\ ran[Gated] \in Nat
  BY DEF Tasks, TypeOK
<1>1. /\ approval' \notin {"executing", "completed"} => ran'[Gated] = 0
      /\ ran'[Gated] <= 1
      /\ holder' # {} => approval' \notin {"pending", "rejected"}
  <2>1. holder' = holder \/ holder' = {}
    BY <1>a, ActsRecords
  <2>2. CASE UNCHANGED <<ran, approval>>
    BY <2>1, <2>2 DEF ApprovalKnown
  <2>3. CASE Runs(o, t)
    <3>1. ran'[Gated] = ran[Gated]
      BY <1>a, <2>3 DEF Runs, TypeOK
    <3> QED  BY <2>1, <2>3, <3>1 DEF Runs, ApprovalKnown
  <2>4. CASE Sends(o, t)
    <3>1. ran'[Gated] = 1
      BY <1>a, <2>4 DEF Sends, TypeOK, ApprovalKnown
    <3> QED  BY <2>4, <3>1 DEF Sends
  <2>5. CASE Asks(o, t)
    <3>1. approval = "none"
      BY <2>5 DEF Asks, ApprovalKnown
    <3> QED  BY <2>5, <3>1 DEF Asks, ApprovalKnown
  <2> QED  BY <1>a, <2>2, <2>3, <2>4, <2>5, ActsExecute
<1>2. ASSUME NEW p \in Owners, holder' = {p}, stage'[p][Gated] \in {"pausing", "paused"}
      PROVE  approval' = "none"
  <2>1. holder = {p}
    BY <1>2, <1>a, ActsRecords
  <2>2. CASE p # o
    <3>1. stage'[p] = stage[p] /\ approval' = approval
      BY <1>a, <2>1, <2>2, ActsAlone, OthersNothing
    <3> QED  BY <1>2, <2>1, <3>1 DEF ApprovalKnown
  <2>3. CASE p = o /\ t # Gated
    <3>1. stage'[o][Gated] = stage[o][Gated]
      BY <1>a, <2>3, ActsAlone
    <3>2. approval' = approval
      BY <1>a, <2>3, ActsExecute DEF Runs, Sends, Asks
    <3> QED  BY <1>2, <2>1, <2>3, <3>1, <3>2 DEF ApprovalKnown
  <2>4. CASE p = o /\ t = Gated
    <3>1. /\ approval' = approval
          /\ stage[o][Gated] \in {"pausing", "paused"} \/ approval = "none"
      BY <1>2, <1>a, <2>4, WriteStep
    <3> QED  BY <2>1, <2>4, <3>1 DEF ApprovalKnown
  <2> QED  BY <2>2, <2>3, <2>4
<1> QED  BY <1>1, <1>2 DEF ApprovalKnown

\* The holder stays ahead of the record in its own steps.
LEMMA AheadOwn ==
  ASSUME PaidInvariant, NEW o \in Owners, NEW t \in Tasks, Acts(o, t), Holds(o)',
         NEW u \in Tasks
  PROVE  AheadOf(o, u)'
<1> USE DEF PaidInvariant, Safe
<1>a. Shape(o) /\ TypeOK /\ Ahead(o) /\ LedgerOf(o) /\ Gated \in Tasks
  BY DEF Tasks
<1> DEFINE m == mem[o]
           n == mem'[o]
           s == stage[o][t]
           r == stage'[o][t]
           onRecord == Charges(accounting.charged, u)
           underWay == Charges(taken[o].snap.charged, u)
           mine == Charges(m.charged, u)
<1>1. holder = {o} /\ holder' = {o} /\ Holds(o) /\ AheadOf(o, u)
  BY <1>a, ActsRecords, ActsExecute DEF Holds, Ahead
<1>2. Books(t, s, r, m, n) /\ m \in Memories /\ n \in Memories
  <2>1. m \in Memories /\ n \in Memories
    BY TypeStep DEF TypeOK, Next, Acts
  <2> QED  BY <1>a, <2>1, BooksKept DEF Holds
<1>3. /\ onRecord \in Nat /\ underWay \in Nat /\ mine \in Nat /\ ran[u] \in Nat
      /\ Charges(n.charged, u) \in Nat /\ mine <= Charges(n.charged, u)
      /\ ran[u] <= onRecord
  BY <1>a, <1>2, ChargesTyped, BooksGrow DEF Covered
<1>4. /\ onRecord <= mine
      /\ lock[o] # {} => onRecord <= underWay /\ underWay <= mine
      /\ stage[o][u] = "reserving" => mine > ran[u] /\ (lock[o] = {u} => underWay > ran[u])
      /\ u = Gated /\ (m.deferred \/ stage[o][u] = "acting") => onRecord > 0
  BY <1>1 DEF AheadOf
<1>5. \/ accounting' = accounting
      \/ lock[o] = {t} /\ accounting' = taken[o].snap
  BY <1>a, <1>1, ActsRecords
<1>6. \/ lock'[o] = {}
      \/ lock'[o] = lock[o] /\ taken'[o] = taken[o] /\ lock[o] # {t}
  BY <1>a, ActsRecords
<1>7. /\ onRecord <= Charges(accounting'.charged, u)
      /\ Charges(accounting'.charged, u) <= mine
      /\ Charges(accounting'.charged, u) \in Nat
  <2>1. CASE accounting' = accounting
    BY <1>3, <1>4, <2>1
  <2>2. CASE lock[o] = {t} /\ accounting' = taken[o].snap
    BY <1>3, <1>4, <2>2
  <2> QED  BY <1>5, <2>1, <2>2
<1>8. ran'[u] = ran[u] \/ (u = t /\ ran'[u] = ran[u] + 1 /\ ran[u] < mine)
  <2>1. CASE ran' = ran
    BY <2>1
  <2>2. CASE Runs(o, t)
    BY <1>a, <1>4, <2>2 DEF Runs, TypeOK
  <2>3. CASE Sends(o, t)
    <3>1. CASE u # t
      BY <1>a, <2>3, <3>1 DEF Sends, TypeOK
    <3>2. CASE u = t
      <4>1. ran[u] = 0 /\ onRecord > 0
        BY <1>4, <2>3, <3>2 DEF Sends, ApprovalKnown
      <4>2. ran'[u] = ran[u] + 1
        BY <1>a, <2>3, <3>2 DEF Sends, TypeOK
      <4> QED  BY <1>3, <1>4, <3>2, <4>1, <4>2
    <3> QED  BY <3>1, <3>2
  <2> QED  BY <1>a, <2>1, <2>2, <2>3, ActsExecute DEF Asks
<1>9. lock'[o] # {} => /\ Charges(accounting'.charged, u) <= Charges(taken'[o].snap.charged, u)
                       /\ Charges(taken'[o].snap.charged, u) <= Charges(n.charged, u)
  <2>1. SUFFICES ASSUME lock'[o] # {}
                 PROVE  /\ Charges(accounting'.charged, u) <= Charges(taken'[o].snap.charged, u)
                        /\ Charges(taken'[o].snap.charged, u) <= Charges(n.charged, u)
    OBVIOUS
  <2>2. taken'[o] = taken[o] /\ accounting' = accounting /\ lock[o] # {}
    BY <1>5, <1>6, <2>1
  <2> QED  BY <1>3, <1>4, <2>2
<1>10. stage'[o][u] = "reserving" =>
         /\ Charges(n.charged, u) > ran'[u]
         /\ lock'[o] = {u} => Charges(taken'[o].snap.charged, u) > ran'[u]
  <2>1. CASE u # t
    <3>1. stage'[o][u] = stage[o][u] /\ ran'[u] = ran[u]
      BY <1>a, <1>8, <2>1, ActsAlone
    <3> QED  BY <1>3, <1>4, <1>6, <3>1
  <2>2. CASE u = t /\ r = "reserving"
    <3>1. Charged(t, s, r, m, n)
      BY <1>2, <2>2 DEF Books, Same, Redeemed
    <3>2. Charges(n.charged, u) = mine + 1
      <4>1. n.charged = Append(m.charged, t) /\ m.charged \in Seq(Tasks)
        BY <1>2, <3>1 DEF Charged, Memories
      <4> QED  BY <2>2, <4>1, ChargesAppend
    <3>3. lock'[o] # {u}
      BY <1>6, <2>2
    <3> QED  BY <1>3, <1>4, <1>8, <3>2, <3>3
  <2> QED  BY <2>1, <2>2
<1>11. u = Gated /\ (n.deferred \/ stage'[o][u] = "acting")
         => Charges(accounting'.charged, u) > 0
  <2>1. n.deferred => m.deferred
    BY <1>2 DEF Books, Same, Charged, Redeemed, SameLedger
  <2>2. CASE u = Gated /\ n.deferred
    BY <1>3, <1>4, <1>7, <2>1, <2>2
  <2>3. CASE u = Gated /\ stage'[o][u] = "acting" /\ t # Gated
    <3>1. stage'[o][u] = stage[o][u]
      BY <1>a, <2>3, ActsAlone
    <3> QED  BY <1>3, <1>4, <1>7, <2>3, <3>1
  <2>4. CASE u = Gated /\ stage'[o][u] = "acting" /\ t = Gated
    <3>1. CASE s \in {"starting", "retrying"}
      <4>1. m.deferred
        BY <1>2, <2>4, <3>1 DEF Books, Same, Charged, Redeemed, From
      <4> QED  BY <1>3, <1>4, <1>7, <2>4, <4>1
    <3>2. CASE s = "reserving" /\ lock[o] = {Gated} /\ accounting' = taken[o].snap
      <4>1. underWay > ran[u]
        BY <1>4, <2>4, <3>2
      <4> QED  BY <1>3, <3>2, <4>1
    <3> QED  BY <1>a, <2>4, <3>1, <3>2, WriteStep
  <2> QED  BY <2>2, <2>3, <2>4
<1> QED
  BY <1>3, <1>7, <1>9, <1>10, <1>11 DEF AheadOf

\* Nothing on record and no execution changes, nor the handlers of an attempt.
LEMMA AheadKept ==
  ASSUME NEW o \in Owners, Ahead(o), holder' = holder, accounting' = accounting, ran' = ran,
         mem'[o] = mem[o], stage'[o] = stage[o], lock'[o] = lock[o], taken'[o] = taken[o]
  PROVE  Ahead(o)'
<1>1. Holds(o)' => Holds(o)
  BY DEF Holds, Finished
<1>2. \A t \in Tasks : AheadOf(o, t) => AheadOf(o, t)'
  BY DEF AheadOf
<1> QED  BY <1>1, <1>2 DEF Ahead

\* Every step keeps the holder ahead, and the record covers what is executed.
LEMMA PaidStep ==
  ASSUME PaidInvariant, [Next]_vars
  PROVE  PaidInvariant'
<1> USE AccountingAssumption
<1>a. Gated \in Tasks
  BY DEF Tasks
<1>b. Safe /\ TypeOK /\ OnRecord /\ (\A o \in Owners : LedgerOf(o) /\ Shape(o) /\ Ahead(o))
      /\ ApprovalKnown /\ Covered
  BY DEF PaidInvariant, Safe
<1>c. Safe' /\ TypeOK' /\ OnRecord' /\ \A o \in Owners : LedgerOf(o)'
  BY <1>b, TypeStep, LedgerStep DEF Safe
<1>1. ASSUME NEW o \in Owners, NEW t \in Tasks, Acts(o, t)
      PROVE  (\A p \in Owners : Ahead(p)') /\ ApprovalKnown' /\ Covered'
  <2>1. ASSUME NEW p \in Owners PROVE Ahead(p)'
    <3>1. CASE p = o
      BY <1>1, <3>1, AheadOwn DEF Ahead
    <3>2. CASE p # o /\ holder # {o}
      <4>1. /\ mem'[p] = mem[p] /\ stage'[p] = stage[p] /\ lock'[p] = lock[p]
            /\ taken'[p] = taken[p]
        BY <1>1, <1>b, <3>2, ActsAlone
      <4> QED  BY <1>1, <1>b, <3>2, <4>1, OthersNothing, AheadKept
    <3>3. CASE p # o /\ holder = {o}
      <4>1. holder' = {o} \/ holder' = {}
        BY <1>1, <1>b, <3>3, ActsRecords
      <4> QED  BY <3>3, <4>1 DEF Ahead, Holds
    <3> QED  BY <3>1, <3>2, <3>3
  <2> QED  BY <1>1, <2>1, CoveredActs, ApprovalActs
<1>2. ASSUME NEW o \in Owners, Claim(o)
      PROVE  (\A p \in Owners : Ahead(p)') /\ ApprovalKnown' /\ Covered'
  <2>1. /\ accounting' = accounting /\ ran' = ran /\ holder' = {o} /\ approval' = approval
        /\ approval \in {"none", "approved", "completed"}
        /\ mem' = [mem EXCEPT ![o] = Restored(accounting)] /\ lock' = lock
        /\ o \in fresh
    BY <1>2 DEF Claim, durable, Remembers
  <2>2. \A t \in Tasks : stage'[o][t] \in {"idle", "done"}
    BY <1>2, <1>b DEF Claim, TypeOK
  <2>3. mem'[o].charged = accounting.charged /\ mem'[o].deferred = accounting.deferred
    BY <1>b, <2>1 DEF TypeOK, Restored
  <2>4. lock'[o] = {}
    BY <1>b, <2>1 DEF Shape
  <2>5. ASSUME NEW t \in Tasks PROVE AheadOf(o, t)'
    <3>1. Charges(accounting.charged, t) \in Nat
      BY <1>b, ChargesTyped
    <3>2. stage'[o][t] \notin {"reserving", "acting"}
      BY <2>2
    <3> QED
      BY <1>b, <2>1, <2>3, <2>4, <3>1, <3>2 DEF AheadOf, OnRecord, Backed
  <2>6. \A p \in Owners : Ahead(p)'
    BY <2>1, <2>5 DEF Ahead, Holds
  <2>7. ApprovalKnown'
    BY <1>a, <1>b, <2>1, <2>2 DEF ApprovalKnown
  <2> QED  BY <1>b, <2>1, <2>6, <2>7 DEF Covered
<1>3. ASSUME NEW o \in Owners, NEW t \in Tasks, TakeLock(o, t)
      PROVE  (\A p \in Owners : Ahead(p)') /\ ApprovalKnown' /\ Covered'
  <2>1. /\ accounting' = accounting /\ ran' = ran /\ holder' = holder /\ approval' = approval
        /\ mem' = mem /\ stage' = stage
        /\ lock' = [lock EXCEPT ![o] = {t}] /\ taken' = [taken EXCEPT ![o] = mem[o].latest]
    BY <1>3 DEF TakeLock, durable
  <2>2. /\ taken'[o] = mem[o].latest /\ lock'[o] = {t}
        /\ \A p \in Owners \ {o} : lock'[p] = lock[p] /\ taken'[p] = taken[p]
    BY <1>b, <2>1 DEF TypeOK
  <2>3. ASSUME Holds(o), NEW u \in Tasks PROVE AheadOf(o, u)'
    <3>1. AheadOf(o, u) /\ mem[o].latest.snap.charged = mem[o].charged
      BY <1>b, <2>3 DEF Ahead, LedgerOf
    <3>2. Charges(mem[o].charged, u) \in Nat
      BY <1>b, ChargesTyped
    <3> QED  BY <2>1, <2>2, <3>1, <3>2 DEF AheadOf
  <2>4. Ahead(o)'
    BY <2>1, <2>3 DEF Ahead, Holds, Finished
  <2>5. ASSUME NEW p \in Owners \ {o} PROVE Ahead(p)'
    BY <1>b, <2>1, <2>2, <2>5, AheadKept
  <2> QED  BY <1>b, <2>1, <2>4, <2>5 DEF ApprovalKnown, Covered
<1>4. ASSUME NEW o \in Owners, Crash(o)
      PROVE  (\A p \in Owners : Ahead(p)') /\ ApprovalKnown' /\ Covered'
  <2>1. /\ accounting' = accounting /\ ran' = ran /\ holder' = holder /\ approval' = approval
        /\ mem' = [mem EXCEPT ![o] = Gone]
        /\ stage' = [stage EXCEPT ![o] = [t \in Tasks |-> "ended"]]
        /\ lock' = [lock EXCEPT ![o] = {}] /\ taken' = [taken EXCEPT ![o] = Nothing]
    BY <1>4 DEF Crash, durable, Remembers, Unlocks
  <2>2. /\ mem'[o] = Gone /\ \A t \in Tasks : stage'[o][t] = "ended"
        /\ \A p \in Owners \ {o} : /\ lock'[p] = lock[p] /\ taken'[p] = taken[p]
                                   /\ mem'[p] = mem[p] /\ stage'[p] = stage[p]
    BY <1>b, <2>1 DEF TypeOK
  <2>3. Finished(o)'
    BY <2>2, GoneTyped DEF Finished, Over, Restored, Zero
  <2>4. ASSUME NEW p \in Owners \ {o} PROVE Ahead(p)'
    BY <1>b, <2>1, <2>2, <2>4, AheadKept
  <2>5. ApprovalKnown'
    BY <1>a, <1>b, <2>1, <2>2 DEF ApprovalKnown
  <2> QED  BY <1>b, <2>1, <2>3, <2>4, <2>5 DEF Covered, Ahead, Holds
<1>5. ASSUME Decide PROVE (\A p \in Owners : Ahead(p)') /\ ApprovalKnown' /\ Covered'
  <2>1. /\ accounting' = accounting /\ ran' = ran /\ holder' = holder /\ mem' = mem
        /\ stage' = stage /\ lock' = lock /\ taken' = taken
        /\ approval = "pending" /\ approval' \in {"approved", "rejected"}
    BY <1>5 DEF Decide
  <2>2. \A p \in Owners : Ahead(p)'
    BY <1>b, <2>1, AheadKept
  <2>3. holder = {}
    BY <1>b, <2>1 DEF ApprovalKnown
  <2> QED  BY <1>b, <2>1, <2>2, <2>3 DEF ApprovalKnown, Covered
<1>6. ASSUME UNCHANGED vars
      PROVE  (\A p \in Owners : Ahead(p)') /\ ApprovalKnown' /\ Covered'
  <2>1. /\ accounting' = accounting /\ ran' = ran /\ holder' = holder /\ mem' = mem
        /\ stage' = stage /\ lock' = lock /\ taken' = taken /\ approval' = approval
    BY <1>6 DEF vars, durable
  <2>2. \A p \in Owners : Ahead(p)'
    BY <1>b, <2>1, AheadKept
  <2> QED  BY <1>b, <2>1, <2>2 DEF ApprovalKnown, Covered
<1>7. (\A p \in Owners : Ahead(p)') /\ ApprovalKnown' /\ Covered'
  BY <1>1, <1>2, <1>3, <1>4, <1>5, <1>6, <1>a DEF Next, Acts
<1> QED  BY <1>c, <1>7 DEF PaidInvariant

\* In the initial state nothing is charged and nothing is executed.
LEMMA PaidInit == Init => PaidInvariant
<1> SUFFICES ASSUME Init PROVE PaidInvariant
  OBVIOUS
<1> USE AccountingAssumption
<1>1. Safe
  BY TypeInit DEF Safe
<1>2. /\ accounting.charged = <<>> /\ accounting.deferred = FALSE /\ holder = {}
      /\ Gated \in Tasks /\ ran = [t \in Tasks |-> 0] /\ approval = "none"
      /\ \A o \in Owners :
           /\ mem[o].charged = <<>> /\ mem[o].deferred = FALSE
           /\ mem[o].latest.snap.charged = <<>> /\ mem[o].latest.snap.deferred = FALSE
           /\ taken[o].snap.charged = <<>> /\ taken[o].snap.deferred = FALSE
           /\ stage[o][Gated] = "idle"
  BY DEF Init, Zero, Nothing, Restored, Tasks
<1>3. OnRecord /\ \A o \in Owners : LedgerOf(o)
  BY <1>2 DEF OnRecord, LedgerOf, Backed, Reserved
<1>4. (\A o \in Owners : Ahead(o)) /\ ApprovalKnown
  BY <1>2 DEF Ahead, Holds, ApprovalKnown
<1>5. Covered
  BY <1>2, ChargesEmpty DEF Covered
<1> QED  BY <1>1, <1>3, <1>4, <1>5 DEF PaidInvariant

\* No action is executed that was not charged on record before, whatever crashes,
\* concurrent commits and resumes lie in between, and the debits stay under the ceiling.
THEOREM ActionsArePaidFirst == Spec => []ActionsPaidFirst
<1>1. Init => PaidInvariant
  BY PaidInit
<1>2. PaidInvariant /\ [Next]_vars => PaidInvariant'
  BY PaidStep
<1>3. PaidInvariant => ActionsPaidFirst
  BY DEF PaidInvariant, Covered, OnRecord, ActionsPaidFirst
<1> QED  BY <1>1, <1>2, <1>3, PTL DEF Spec

-----------------------------------------------------------------------------
(***************************************************************************)
(* The converse: what is charged was executed, was given up, is under way  *)
(* or waits for a decision.                                                *)
(***************************************************************************)

Trying(t) == {o \in Owners : UnderWay(o, t)}

\* What became of the debits of a task.
Entries(t) == ran[t] + void[t] + Cardinality(Trying(t))

Deferral(d, t) == IF t = Gated /\ d THEN 1 ELSE 0

\* Only the attempts that have claimed are trying anything.
LEMMA TryingCounted ==
  ASSUME Safe, IsFiniteSet(Owners \ fresh), NEW t \in Tasks
  PROVE  /\ IsFiniteSet(Trying(t)) /\ Cardinality(Trying(t)) \in Nat
         /\ ran[t] \in Nat /\ void[t] \in Nat /\ Entries(t) \in Nat
<1>1. Trying(t) \subseteq Owners \ fresh
  BY AccountingAssumption DEF Safe, Shape, Trying, UnderWay, Tasks
<1>2. IsFiniteSet(Trying(t)) /\ Cardinality(Trying(t)) \in Nat
  BY <1>1, FS_Subset, FS_CardinalityType
<1>3. ran[t] \in Nat /\ void[t] \in Nat
  BY DEF Safe, TypeOK
<1> QED  BY <1>2, <1>3 DEF Entries

\* The pause that gives up the lease, with the reservation deferred.
Defers(o) == Pause(o) /\ holder = {o} /\ holder' = {}

\* A try that is over was an execution or is given up, unless a pause defers it.
LEMMA TryOver ==
  ASSUME TypeOK, NEW o \in Owners, Shape(o), NEW t \in Tasks, Acts(o, t), NEW u \in Tasks
  PROVE  /\ ran'[u] >= ran[u] /\ void'[u] >= void[u]
         /\ ran[u] \in Nat /\ void[u] \in Nat /\ ran'[u] \in Nat /\ void'[u] \in Nat
         /\ UnderWay(o, u) /\ ~UnderWay(o, u)' =>
              \/ ran'[u] + void'[u] > ran[u] + void[u]
              \/ Defers(o) /\ u = Gated
<1> USE AccountingAssumption DEF TypeOK
<1>a. /\ ran[u] \in Nat /\ void[u] \in Nat /\ ran'[u] \in Nat /\ void'[u] \in Nat
      /\ Gated \in Tasks /\ stage' \in [Owners -> [Tasks -> Stages]]
  <2>1. ran' \in [Tasks -> Nat] /\ void' \in [Tasks -> Nat]
    BY ActsCounts
  <2>2. stage' \in [Owners -> [Tasks -> Stages]]
    BY ActsGoOn, WentOn
  <2> QED  BY <2>1, <2>2 DEF Tasks
<1>b. ASSUME NEW T \in SUBSET Tasks, Voided(o, T)
      PROVE  /\ void'[u] >= void[u]
             /\ u \in T /\ UnderWay(o, u) => void'[u] = void[u] + 1
  BY <1>b, <1>a DEF Voided
<1>c. UnderWay(o, u) /\ ~UnderWay(o, u)' => u = t
  <2>1. \A v \in Tasks \ {t} : stage'[o][v] = stage[o][v]
    BY ActsAlone
  <2> QED  BY <2>1 DEF UnderWay
<1>d. ASSUME ran' = ran, Voided(o, {t})
      PROVE  /\ ran'[u] >= ran[u] /\ void'[u] >= void[u]
             /\ UnderWay(o, u) /\ ~UnderWay(o, u)' => ran'[u] + void'[u] > ran[u] + void[u]
  BY <1>a, <1>b, <1>c, <1>d
<1>1. CASE Start(o, t) \/ Retrieve(o, t) \/ Respond(o, t)
  <2>1. ran' = ran /\ void' = void
    BY <1>1 DEF Start, Retrieve, Respond
  <2>2. ~UnderWay(o, t)
    BY <1>1 DEF Start, Retrieve, Respond, At, UnderWay, Branches
  <2> QED  BY <1>a, <1>c, <2>1, <2>2
<1>2. CASE Commits(o, t)
  <2> DEFINE s == stage[o][t]
             k == Acknowledged(mem[o], taken[o].gen)
  <2>1. CASE mem[o].dying
    <3>1. Voided(o, {t}) /\ ran' = ran
      BY <1>2, <2>1 DEF Commits
    <3> QED  BY <1>a, <1>d, <3>1
  <2>2. CASE ~mem[o].dying
    <3>1. /\ Goes(o, t, Continues(t, try[o][t], s, k)) /\ void' = void
          /\ s = "reserving" /\ t \in Branches => ran' = [ran EXCEPT ![t] = @ + 1]
          /\ ran' = ran \/ ran' = [ran EXCEPT ![t] = @ + 1]
      BY <1>2, <2>2 DEF Commits
    <3>2. ran'[u] >= ran[u]
      BY <1>a, <3>1
    <3>3. CASE s = "reserving" /\ t # Gated
      <4>1. ran' = [ran EXCEPT ![t] = @ + 1]
        BY <3>1, <3>3 DEF Tasks
      <4> QED  BY <1>a, <1>c, <3>1, <3>2, <4>1
    <3>4. CASE s = "reserving" /\ t = Gated
      <4>1. Continues(t, try[o][t], s, k).stage = "acting"
        BY <3>4 DEF Continues, Operates, Gets, Branches
      <4>2. stage'[o][t] = "acting"
        BY <3>1, <4>1 DEF Goes, Steps, Sets
      <4> QED  BY <1>a, <1>c, <3>1, <3>2, <3>4, <4>2 DEF UnderWay
    <3>5. CASE s = "pausing"
      <4>1. Continues(t, try[o][t], s, k).stage = "paused"
        BY <3>5 DEF Continues, Gets
      <4>2. stage'[o][t] = "paused"
        BY <3>1, <4>1 DEF Goes, Steps, Sets
      <4> QED  BY <1>a, <1>c, <3>1, <3>2, <3>5, <4>2 DEF UnderWay
    <3>6. CASE s \notin {"reserving", "pausing"}
      <4>1. s \in Committing
        BY <1>2 DEF Commits, Shape
      <4>2. ~UnderWay(o, t)
        BY <3>6, <4>1 DEF UnderWay, Committing
      <4> QED  BY <1>a, <1>c, <3>1, <3>2, <4>2
    <3> QED  BY <3>3, <3>4, <3>5, <3>6
  <2> QED  BY <2>1, <2>2
<1>3. CASE CommitLost(o, t)
  <2>1. ran' = ran
    BY <1>3 DEF CommitLost
  <2>2. CASE Voided(o, {t})
    BY <1>a, <1>d, <2>1, <2>2
  <2>3. CASE stage[o][t] \in {"recording", "rejecting"} /\ void' = void
    <3>1. ~UnderWay(o, t)
      BY <2>3 DEF UnderWay
    <3> QED  BY <1>a, <1>c, <2>1, <2>3, <3>1
  <2> QED  BY <1>3, <2>2, <2>3 DEF CommitLost, EndsAt
<1>4. CASE Cancelled(o, t)
  <2>1. ran' = ran /\ Voided(o, {t})
    BY <1>4 DEF Cancelled
  <2> QED  BY <1>a, <1>d, <2>1
<1>5. CASE t = Gated /\ Write(o)
  <2>1. \/ ran' = ran /\ void' = void /\ Steps(o, Gated, "pausing", Published(mem[o]))
        \/ ran' = [ran EXCEPT ![Gated] = @ + 1] /\ void' = void
        \/ ran' = ran /\ void' = [void EXCEPT ![Gated] = @ + 1]
    BY <1>5 DEF Write
  <2>2. CASE ran' = ran /\ void' = void /\ Steps(o, Gated, "pausing", Published(mem[o]))
    <3>1. stage'[o][Gated] = "pausing"
      BY <1>a, <2>2 DEF Steps, Sets
    <3> QED  BY <1>a, <1>c, <1>5, <2>2, <3>1 DEF UnderWay
  <2>3. CASE ran' = [ran EXCEPT ![Gated] = @ + 1] /\ void' = void
    BY <1>a, <1>c, <1>5, <2>3
  <2>4. CASE ran' = ran /\ void' = [void EXCEPT ![Gated] = @ + 1]
    BY <1>a, <1>c, <1>5, <2>4
  <2> QED  BY <2>1, <2>2, <2>3, <2>4
<1>6. CASE t = Gated /\ Pause(o)
  <2>1. ran' = ran /\ (Voided(o, {Gated}) \/ (void' = void /\ Defers(o)))
    BY <1>6 DEF Pause, Defers
  <2>2. CASE Voided(o, {Gated})
    BY <1>a, <1>d, <1>6, <2>1, <2>2
  <2>3. CASE void' = void /\ Defers(o)
    BY <1>a, <1>c, <1>6, <2>1, <2>3
  <2> QED  BY <2>1, <2>2, <2>3
<1> QED  BY <1>1, <1>2, <1>3, <1>4, <1>5, <1>6 DEF Acts

\* What became of the debits is never forgotten, but for the pause that defers one; and
\* a try that begins is one more.
LEMMA EntriesStep ==
  ASSUME Safe, IsFiniteSet(Owners \ fresh), NEW o \in Owners, NEW t \in Tasks, Acts(o, t),
         NEW u \in Tasks
  PROVE  /\ Entries(u) \in Nat /\ Entries(u)' \in Nat
         /\ ~(Defers(o) /\ u = Gated) => Entries(u)' >= Entries(u)
         /\ Entries(u)' >= Entries(u) - 1
         /\ ~UnderWay(o, u) /\ UnderWay(o, u)' => Entries(u)' >= Entries(u) + 1
<1>a. Safe' /\ fresh' = fresh /\ TypeOK /\ Shape(o)
  BY TypeStep, ActsRecords DEF Safe, Next, Acts
<1>b. /\ IsFiniteSet(Trying(u)) /\ Cardinality(Trying(u)) \in Nat /\ Entries(u) \in Nat
      /\ IsFiniteSet(Trying(u)') /\ Cardinality(Trying(u)') \in Nat /\ Entries(u)' \in Nat
  <2>1. /\ IsFiniteSet(Trying(u)) /\ Cardinality(Trying(u)) \in Nat /\ Entries(u) \in Nat
    BY TryingCounted
  <2>2. Trying(u)' \subseteq Owners \ fresh
    BY <1>a, AccountingAssumption DEF Safe, Shape, Trying, UnderWay, Tasks
  <2>3. IsFiniteSet(Trying(u)') /\ Cardinality(Trying(u)') \in Nat
    BY <2>2, FS_Subset, FS_CardinalityType
  <2>4. Entries(u)' \in Nat
    BY <1>a, <2>3 DEF Entries, Safe, TypeOK
  <2> QED  BY <2>1, <2>3, <2>4
<1>c. \A p \in Owners \ {o} : UnderWay(p, u)' = UnderWay(p, u)
  BY <1>a, ActsAlone DEF UnderWay
<1>d. /\ ran[u] \in Nat /\ void[u] \in Nat /\ ran'[u] \in Nat /\ void'[u] \in Nat
      /\ ran'[u] >= ran[u] /\ void'[u] >= void[u]
      /\ UnderWay(o, u) /\ ~UnderWay(o, u)' =>
           \/ ran'[u] + void'[u] > ran[u] + void[u]
           \/ Defers(o) /\ u = Gated
  BY <1>a, TryOver
<1>1. CASE UnderWay(o, u)' = UnderWay(o, u)
  <2>1. Trying(u)' = Trying(u)
    BY <1>c, <1>1 DEF Trying
  <2> QED  BY <1>b, <1>1, <1>d, <2>1 DEF Entries
<1>2. CASE UnderWay(o, u) /\ ~UnderWay(o, u)'
  <2>1. Trying(u)' = Trying(u) \ {o} /\ o \in Trying(u)
    BY <1>c, <1>2 DEF Trying
  <2>2. Cardinality(Trying(u)') = Cardinality(Trying(u)) - 1
    BY <1>b, <2>1, FS_RemoveElement
  <2> QED  BY <1>b, <1>2, <1>d, <2>2 DEF Entries
<1>3. CASE ~UnderWay(o, u) /\ UnderWay(o, u)'
  <2>1. Trying(u)' = Trying(u) \cup {o} /\ o \notin Trying(u)
    BY <1>c, <1>3 DEF Trying
  <2>2. Cardinality(Trying(u)') = Cardinality(Trying(u)) + 1
    BY <1>b, <2>1, FS_AddElement
  <2> QED  BY <1>b, <1>3, <1>d, <2>2 DEF Entries
<1> QED  BY <1>1, <1>2, <1>3 DEF UnderWay

\* Entries do not change with a step that leaves handlers and counters alone.
LEMMA EntriesKept ==
  ASSUME stage' = stage, ran' = ran, void' = void
  PROVE  \A t \in Tasks : Entries(t)' = Entries(t)
BY DEF Entries, Trying, UnderWay

Accounted(charged, deferred, t) ==
  Charges(charged, t) <= Entries(t) + Deferral(deferred, t)

OnceOf(o) ==
  Holds(o) => \A t \in Tasks :
    /\ Accounted(mem[o].charged, mem[o].deferred, t)
    /\ lock[o] # {} => Accounted(taken[o].snap.charged, taken[o].snap.deferred, t)

OnceInvariant ==
  /\ PaidInvariant /\ IsFiniteSet(Owners \ fresh)
  /\ \A o \in Owners : OnceOf(o)
  /\ \A t \in Tasks : Accounted(accounting.charged, accounting.deferred, t)

\* The holder's own steps: it charges for the try it begins, and redeems a deferral
\* with the try it was deferred for.
LEMMA OnceOwn ==
  ASSUME OnceInvariant, NEW o \in Owners, NEW t \in Tasks, Acts(o, t), Holds(o)',
         NEW u \in Tasks
  PROVE  /\ Accounted(mem[o].charged, mem[o].deferred, u)'
         /\ lock'[o] # {} => Accounted(taken[o].snap.charged, taken[o].snap.deferred, u)'
<1> DEFINE m == mem[o]
           n == mem'[o]
           s == stage[o][t]
           r == stage'[o][t]
<1>a. Safe /\ TypeOK /\ Shape(o) /\ IsFiniteSet(Owners \ fresh) /\ OnceOf(o)
  BY DEF OnceInvariant, PaidInvariant, Safe
<1>b. holder = {o} /\ holder' = {o} /\ Holds(o)
  BY <1>a, ActsRecords, ActsExecute DEF Holds
<1>c. /\ Accounted(m.charged, m.deferred, u)
      /\ lock[o] # {} => Accounted(taken[o].snap.charged, taken[o].snap.deferred, u)
  BY <1>a, <1>b DEF OnceOf
<1>d. Books(t, s, r, m, n) /\ m \in Memories /\ n \in Memories
  <2>1. m \in Memories /\ n \in Memories
    BY <1>a, TypeStep DEF Safe, TypeOK, Next, Acts
  <2> QED  BY <1>a, <2>1, BooksKept DEF Holds
<1>e. /\ Entries(u) \in Nat /\ Entries(u)' \in Nat /\ Entries(u)' >= Entries(u)
      /\ ~UnderWay(o, u) /\ UnderWay(o, u)' => Entries(u)' >= Entries(u) + 1
  <2>1. ~Defers(o)
    BY <1>b DEF Defers
  <2> QED  BY <1>a, <2>1, EntriesStep
<1>f. /\ Charges(m.charged, u) \in Nat /\ Charges(n.charged, u) \in Nat
      /\ Charges(taken[o].snap.charged, u) \in Nat
  BY <1>a, <1>d, ChargesTyped, BooksGrow
<1>g. \A d : Deferral(d, u) \in {0, 1}
  BY DEF Deferral
<1>1. Accounted(m.charged, m.deferred, u)'
  <2>1. CASE Same(t, s, r, m, n)
    <3>1. n.charged = m.charged /\ n.deferred = m.deferred
      BY <2>1 DEF Same, SameLedger
    <3> QED  BY <1>c, <1>e, <1>f, <1>g, <3>1 DEF Accounted
  <2>2. CASE Charged(t, s, r, m, n)
    <3>1. n.charged = Append(m.charged, t) /\ n.deferred = m.deferred /\ m.charged \in Seq(Tasks)
      BY <1>d, <2>2 DEF Charged, Memories
    <3>2. Charges(n.charged, u) = Charges(m.charged, u) + (IF u = t THEN 1 ELSE 0)
      BY <3>1, ChargesAppend
    <3>3. u = t => ~UnderWay(o, u) /\ UnderWay(o, u)'
      BY <2>2 DEF Charged, UnderWay
    <3> QED  BY <1>c, <1>e, <1>f, <1>g, <3>1, <3>2, <3>3 DEF Accounted
  <2>3. CASE Redeemed(t, s, r, m, n)
    <3>1. t = Gated /\ n.charged = m.charged /\ m.deferred /\ ~n.deferred
      BY <2>3 DEF Redeemed
    <3>2. u = Gated => ~UnderWay(o, u) /\ UnderWay(o, u)'
      BY <2>3 DEF Redeemed, UnderWay
    <3>3. u # Gated => Deferral(m.deferred, u) = 0
      BY DEF Deferral
    <3>4. /\ Deferral(m.deferred, u) \in {0, 1} /\ Deferral(n.deferred, u) \in {0, 1}
      BY <1>g
    <3>5. Charges(m.charged, u) <= Entries(u) + Deferral(m.deferred, u)
      BY <1>c DEF Accounted
    <3>6. Charges(n.charged, u) <= Entries(u)' + Deferral(n.deferred, u)
      <4> DEFINE before == Deferral(m.deferred, u)
                 after == Deferral(n.deferred, u)
                 charges == Charges(m.charged, u)
      <4>1. /\ Charges(n.charged, u) = charges /\ charges \in Nat
            /\ charges <= Entries(u) + before
            /\ before \in {0, 1} /\ after \in {0, 1}
        BY <1>f, <3>1, <3>4, <3>5
      <4>2. before = 0 \/ Entries(u)' >= Entries(u) + 1
        BY <1>e, <3>2, <3>3
      <4>3. Entries(u)' >= Entries(u) /\ Entries(u) \in Nat /\ Entries(u)' \in Nat
        BY <1>e
      <4> HIDE DEF before, after, charges
      <4>4. charges <= Entries(u)' + after
        BY <4>1, <4>2, <4>3
      <4> QED  BY <4>1, <4>4 DEF after
    <3> QED  BY <3>6 DEF Accounted
  <2> QED  BY <1>d, <2>1, <2>2, <2>3 DEF Books
<1>2. ASSUME lock'[o] # {}
      PROVE  Accounted(taken[o].snap.charged, taken[o].snap.deferred, u)'
  <2>1. taken'[o] = taken[o] /\ lock[o] # {}
    BY <1>2, <1>a, ActsRecords
  <2> QED  BY <1>c, <1>e, <1>f, <1>g, <2>1 DEF Accounted
<1> QED  BY <1>1, <1>2

\* An account stays balanced while nothing is forgotten.
LEMMA AccountKept ==
  ASSUME NEW c \in Seq(Tasks), NEW d, NEW u \in Tasks, Accounted(c, d, u),
         Entries(u) \in Nat, Entries(u)' \in Nat, Entries(u)' >= Entries(u)
  PROVE  Charges(c, u) <= Entries(u)' + Deferral(d, u)
<1> DEFINE deferral == Deferral(d, u)
           charges == Charges(c, u)
<1>1. charges \in Nat /\ deferral \in {0, 1} /\ charges <= Entries(u) + deferral
  BY ChargesCounted DEF Deferral, Accounted
<1> HIDE DEF deferral, charges
<1>2. charges <= Entries(u)' + deferral
  BY <1>1
<1> QED  BY <1>2 DEF deferral, charges

\* The accounts of an attempt a step does not touch.
LEMMA OnceKept ==
  ASSUME TypeOK, NEW o \in Owners, OnceOf(o), holder' = holder, mem'[o] = mem[o],
         stage'[o] = stage[o], lock'[o] = lock[o], taken'[o] = taken[o],
         \A u \in Tasks : /\ Entries(u) \in Nat /\ Entries(u)' \in Nat
                          /\ Entries(u)' >= Entries(u)
  PROVE  OnceOf(o)'
<1>1. Holds(o)' => Holds(o)
  BY DEF Holds, Finished
<1>2. mem[o].charged \in Seq(Tasks) /\ taken[o].snap.charged \in Seq(Tasks)
  BY DEF TypeOK, Memories, Publications, Snapshots
<1>3. ASSUME Holds(o), NEW u \in Tasks
      PROVE  /\ Accounted(mem[o].charged, mem[o].deferred, u)'
             /\ lock'[o] # {} => Accounted(taken[o].snap.charged, taken[o].snap.deferred, u)'
  <2>1. /\ Accounted(mem[o].charged, mem[o].deferred, u)
        /\ lock[o] # {} => Accounted(taken[o].snap.charged, taken[o].snap.deferred, u)
    BY <1>3 DEF OnceOf
  <2>2. Charges(mem[o].charged, u) <= Entries(u)' + Deferral(mem[o].deferred, u)
    BY <1>2, <1>3, <2>1, AccountKept
  <2>3. lock[o] # {} => Charges(taken[o].snap.charged, u)
                          <= Entries(u)' + Deferral(taken[o].snap.deferred, u)
    BY <1>2, <1>3, <2>1, AccountKept
  <2> QED  BY <2>2, <2>3 DEF Accounted
<1> QED  BY <1>1, <1>3 DEF OnceOf

\* The record after a step of an attempt.
LEMMA OnceRecord ==
  ASSUME OnceInvariant, NEW o \in Owners, NEW t \in Tasks, Acts(o, t), NEW u \in Tasks
  PROVE  Accounted(accounting.charged, accounting.deferred, u)'
<1>a. /\ Safe /\ TypeOK /\ Shape(o) /\ IsFiniteSet(Owners \ fresh) /\ OnceOf(o) /\ LedgerOf(o)
      /\ Accounted(accounting.charged, accounting.deferred, u)
  BY DEF OnceInvariant, PaidInvariant, Safe
<1>b. /\ Entries(u) \in Nat /\ Entries(u)' \in Nat /\ Entries(u)' >= Entries(u) - 1
      /\ ~(Defers(o) /\ u = Gated) => Entries(u)' >= Entries(u)
  BY <1>a, EntriesStep
<1>c. /\ accounting.charged \in Seq(Tasks) /\ mem[o].charged \in Seq(Tasks)
      /\ taken[o].snap.charged \in Seq(Tasks) /\ mem[o].latest.snap \in Snapshots
  BY <1>a DEF TypeOK, Memories, Publications, Snapshots
<1>1. CASE holder' = holder /\ accounting' = accounting
  <2>1. ~Defers(o)
    BY <1>1 DEF Defers
  <2>2. Charges(accounting.charged, u) <= Entries(u)' + Deferral(accounting.deferred, u)
    BY <1>a, <1>b, <1>c, <2>1, AccountKept
  <2> QED  BY <1>1, <2>2 DEF Accounted
<1>2. CASE holder' = holder /\ holder = {o} /\ lock[o] = {t} /\ accounting' = taken[o].snap
  <2>1. ~Defers(o)
    BY <1>2 DEF Defers
  <2>2. Holds(o)
    BY <1>2, <1>a, ActsExecute DEF Holds
  <2>3. Accounted(taken[o].snap.charged, taken[o].snap.deferred, u)
    BY <1>2, <1>a, <2>2 DEF OnceOf
  <2>4. Charges(taken[o].snap.charged, u) <= Entries(u)' + Deferral(taken[o].snap.deferred, u)
    BY <1>b, <1>c, <2>1, <2>3, AccountKept
  <2> QED  BY <1>2, <2>4 DEF Accounted
<1>3. CASE Pause(o) /\ holder = {o} /\ accounting' = Deferred(mem[o].latest.snap)
  <2>1. Holds(o) /\ stage[o][Gated] = "paused"
    BY <1>3, <1>a, ActsExecute DEF Holds, Pause, At
  <2>2. Accounted(mem[o].charged, mem[o].deferred, u) /\ ~mem[o].deferred
    BY <1>a, <2>1 DEF OnceOf, LedgerOf, Reserved
  <2>3. accounting'.charged = mem[o].charged /\ accounting'.deferred = TRUE
    BY <1>a, <1>c, <1>3 DEF Deferred, Snapshots, LedgerOf
  <2>4. Deferral(mem[o].deferred, u) = 0
    BY <2>2 DEF Deferral
  <2>5. Charges(mem[o].charged, u) <= Entries(u) /\ Charges(mem[o].charged, u) \in Nat
    <3>1. Charges(mem[o].charged, u) <= Entries(u) + 0
      BY <2>2, <2>4, Zenon DEF Accounted
    <3>2. Charges(mem[o].charged, u) \in Nat
      BY <1>c, ChargesCounted
    <3> QED  BY <1>b, <3>1, <3>2
  <2>6. CASE u = Gated
    <3>1. Deferral(TRUE, u) = 1
      BY <2>6 DEF Deferral
    <3>2. Charges(mem[o].charged, u) <= Entries(u)' + 1
      BY <1>b, <2>5
    <3> QED  BY <2>3, <3>1, <3>2 DEF Accounted
  <2>7. CASE u # Gated
    <3>1. Deferral(TRUE, u) = 0
      BY <2>7 DEF Deferral
    <3>2. Charges(mem[o].charged, u) <= Entries(u)' + 0
      BY <1>b, <2>5, <2>7
    <3> QED  BY <2>3, <3>1, <3>2 DEF Accounted
  <2> QED  BY <2>6, <2>7
<1> QED  BY <1>a, <1>1, <1>2, <1>3, ActsRecords

\* Every step keeps the accounts balanced.
LEMMA OnceStep ==
  ASSUME OnceInvariant, [Next]_vars
  PROVE  OnceInvariant'
<1> USE AccountingAssumption
<1>a. /\ PaidInvariant /\ Safe /\ TypeOK /\ IsFiniteSet(Owners \ fresh)
      /\ \A o \in Owners : Shape(o) /\ OnceOf(o) /\ LedgerOf(o)
      /\ \A u \in Tasks : Accounted(accounting.charged, accounting.deferred, u)
  BY DEF OnceInvariant, PaidInvariant, Safe
<1>b. PaidInvariant' /\ Gated \in Tasks
  BY <1>a, PaidStep DEF Tasks
<1>c. /\ accounting.charged \in Seq(Tasks)
      /\ \A o \in Owners : mem[o].charged \in Seq(Tasks) /\ mem[o].latest.snap \in Snapshots
  BY <1>a DEF TypeOK, Memories, Publications, Snapshots
<1>d. \A u \in Tasks : Entries(u) \in Nat
  BY <1>a, TryingCounted
<1>1. ASSUME NEW o \in Owners, NEW t \in Tasks, Acts(o, t) PROVE OnceInvariant'
  <2>1. IsFiniteSet(Owners \ fresh)'
    BY <1>1, <1>a, ActsRecords
  <2>2. \A u \in Tasks : Accounted(accounting.charged, accounting.deferred, u)'
    BY <1>1, OnceRecord
  <2>3. OnceOf(o)'
    BY <1>1, OnceOwn DEF OnceOf
  <2>4. ASSUME NEW p \in Owners \ {o} PROVE OnceOf(p)'
    <3>1. CASE holder # {o}
      <4>1. holder' = holder /\ ~Defers(o)
        BY <1>1, <1>a, <3>1, OthersNothing DEF Defers
      <4>2. \A u \in Tasks : /\ Entries(u) \in Nat /\ Entries(u)' \in Nat
                             /\ Entries(u)' >= Entries(u)
        BY <1>1, <1>a, <4>1, EntriesStep
      <4>3. /\ mem'[p] = mem[p] /\ stage'[p] = stage[p] /\ lock'[p] = lock[p]
            /\ taken'[p] = taken[p]
        BY <1>1, <1>a, <2>4, ActsAlone
      <4> QED  BY <1>a, <4>1, <4>2, <4>3, OnceKept
    <3>2. CASE holder = {o}
      <4>1. holder' # {p}
        BY <1>1, <1>a, <2>4, <3>2, ActsRecords
      <4> QED  BY <4>1 DEF OnceOf, Holds
    <3> QED  BY <3>1, <3>2
  <2> QED  BY <1>b, <2>1, <2>2, <2>3, <2>4 DEF OnceInvariant
<1>2. ASSUME NEW o \in Owners, Claim(o) PROVE OnceInvariant'
  <2>1. /\ accounting' = accounting /\ ran' = ran /\ void' = void /\ holder' = {o}
        /\ mem' = [mem EXCEPT ![o] = Restored(accounting)] /\ lock' = lock
        /\ o \in fresh /\ fresh' = fresh \ {o}
    BY <1>2 DEF Claim, durable, Remembers
  <2>2. /\ \A t \in Tasks : stage[o][t] = "idle" /\ stage'[o][t] \in {"idle", "done"}
        /\ \A p \in Owners \ {o} : stage'[p] = stage[p]
    BY <1>2, <1>a, <2>1 DEF Claim, TypeOK, Shape
  <2>3. IsFiniteSet(Owners \ fresh)'
    <3>1. Owners \ fresh' = (Owners \ fresh) \cup {o}
      BY <2>1
    <3>2. IsFiniteSet((Owners \ fresh) \cup {o})
      BY <1>a, FS_AddElement
    <3> QED  BY <3>1, <3>2
  <2>4. ASSUME NEW u \in Tasks PROVE Entries(u)' = Entries(u)
    <3>1. \A p \in Owners : UnderWay(p, u)' = UnderWay(p, u)
      BY <1>b, <2>2 DEF UnderWay
    <3> QED  BY <2>1, <3>1 DEF Entries, Trying
  <2>5. \A u \in Tasks : Accounted(accounting.charged, accounting.deferred, u)'
    BY <1>a, <2>1, <2>4 DEF Accounted
  <2>6. mem'[o].charged = accounting.charged /\ mem'[o].deferred = accounting.deferred
    BY <1>a, <2>1 DEF TypeOK, Restored
  <2>7. lock'[o] = {}
    BY <1>a, <2>1 DEF Shape
  <2>8. ASSUME NEW u \in Tasks PROVE Accounted(mem[o].charged, mem[o].deferred, u)'
    BY <2>1, <2>5, <2>6 DEF Accounted
  <2>9. OnceOf(o)'
    BY <2>7, <2>8 DEF OnceOf
  <2>10. ASSUME NEW p \in Owners \ {o} PROVE OnceOf(p)'
    BY <2>1, <2>10 DEF OnceOf, Holds
  <2> QED  BY <1>b, <2>3, <2>5, <2>9, <2>10 DEF OnceInvariant
<1>3. ASSUME NEW o \in Owners, NEW t \in Tasks, TakeLock(o, t) PROVE OnceInvariant'
  <2>1. /\ accounting' = accounting /\ ran' = ran /\ void' = void /\ holder' = holder
        /\ mem' = mem /\ stage' = stage /\ fresh' = fresh
        /\ lock' = [lock EXCEPT ![o] = {t}] /\ taken' = [taken EXCEPT ![o] = mem[o].latest]
    BY <1>3 DEF TakeLock, durable
  <2>2. /\ taken'[o] = mem[o].latest
        /\ \A p \in Owners \ {o} : lock'[p] = lock[p] /\ taken'[p] = taken[p]
    BY <1>a, <2>1 DEF TypeOK
  <2>3. \A u \in Tasks : Entries(u)' = Entries(u)
    BY <2>1, EntriesKept
  <2>4. \A u \in Tasks : Accounted(accounting.charged, accounting.deferred, u)'
    BY <1>a, <2>1, <2>3 DEF Accounted
  <2>5. ASSUME Holds(o), NEW u \in Tasks
        PROVE  /\ Accounted(mem[o].charged, mem[o].deferred, u)'
               /\ Accounted(taken[o].snap.charged, taken[o].snap.deferred, u)'
    <3>1. Accounted(mem[o].charged, mem[o].deferred, u)
      BY <1>a, <2>5 DEF OnceOf
    <3>2. Accounted(mem[o].charged, mem[o].deferred, u)'
      BY <2>1, <2>3, <3>1 DEF Accounted
    <3>3. /\ mem[o].charged = mem[o].latest.snap.charged
          /\ mem[o].deferred => mem[o].latest.snap.deferred
      BY <1>a DEF LedgerOf
    <3>4. /\ Deferral(mem[o].deferred, u) \in {0, 1}
          /\ Deferral(mem[o].latest.snap.deferred, u) \in {0, 1}
          /\ Deferral(mem[o].deferred, u) = 1 => Deferral(mem[o].latest.snap.deferred, u) = 1
      BY <3>3 DEF Deferral
    <3>5. Charges(mem[o].charged, u) <= Entries(u) + Deferral(mem[o].latest.snap.deferred, u)
      <4> DEFINE before == Deferral(mem[o].deferred, u)
                 after == Deferral(mem[o].latest.snap.deferred, u)
                 charges == Charges(mem[o].charged, u)
      <4>1. charges \in Nat /\ Entries(u) \in Nat
        BY <1>c, <1>d, ChargesCounted
      <4>2. charges <= Entries(u) + before
        BY <3>1 DEF Accounted
      <4>3. before \in {0, 1} /\ after \in {0, 1} /\ (before = 1 => after = 1)
        BY <3>4
      <4> HIDE DEF before, after, charges
      <4>4. charges <= Entries(u) + after
        BY <4>1, <4>2, <4>3
      <4> QED  BY <4>4 DEF after, charges
    <3> QED  BY <2>2, <2>3, <3>2, <3>3, <3>5 DEF Accounted
  <2>6. OnceOf(o)'
    BY <2>1, <2>5 DEF OnceOf, Holds, Finished
  <2>7. ASSUME NEW p \in Owners \ {o} PROVE OnceOf(p)'
    BY <1>a, <1>d, <2>1, <2>2, <2>3, <2>7, OnceKept
  <2> QED  BY <1>a, <1>b, <2>1, <2>4, <2>6, <2>7 DEF OnceInvariant
<1>4. ASSUME NEW o \in Owners, Crash(o) PROVE OnceInvariant'
  <2>1. /\ accounting' = accounting /\ ran' = ran /\ holder' = holder /\ fresh' = fresh
        /\ mem' = [mem EXCEPT ![o] = Gone]
        /\ stage' = [stage EXCEPT ![o] = [t \in Tasks |-> "ended"]]
        /\ lock' = [lock EXCEPT ![o] = {}] /\ taken' = [taken EXCEPT ![o] = Nothing]
        /\ Voided(o, Tasks)
    BY <1>4 DEF Crash, durable, Remembers, Unlocks
  <2>2. /\ mem'[o] = Gone /\ \A t \in Tasks : stage'[o][t] = "ended"
        /\ \A p \in Owners \ {o} : /\ lock'[p] = lock[p] /\ taken'[p] = taken[p]
                                   /\ mem'[p] = mem[p] /\ stage'[p] = stage[p]
    BY <1>a, <2>1 DEF TypeOK
  <2>3. ASSUME NEW u \in Tasks PROVE Entries(u)' \in Nat /\ Entries(u)' >= Entries(u)
    <3>1. /\ IsFiniteSet(Trying(u)) /\ Cardinality(Trying(u)) \in Nat
          /\ ran[u] \in Nat /\ void[u] \in Nat
      BY <1>a, TryingCounted
    <3>2. Trying(u)' = Trying(u) \ {o}
      BY <2>2 DEF Trying, UnderWay
    <3>3. void'[u] = IF o \in Trying(u) THEN void[u] + 1 ELSE void[u]
      BY <2>1 DEF Voided, Trying
    <3>4. Cardinality(Trying(u)') = IF o \in Trying(u) THEN Cardinality(Trying(u)) - 1
                                    ELSE Cardinality(Trying(u))
      BY <3>1, <3>2, FS_RemoveElement
    <3>5. Cardinality(Trying(u)') \in Nat
      BY <3>1, <3>2, FS_Subset, FS_CardinalityType
    <3> QED  BY <2>1, <3>1, <3>3, <3>4, <3>5 DEF Entries
  <2>4. ASSUME NEW u \in Tasks PROVE Accounted(accounting.charged, accounting.deferred, u)'
    <3>1. Accounted(accounting.charged, accounting.deferred, u)
      BY <1>a
    <3>2. Charges(accounting.charged, u) <= Entries(u)' + Deferral(accounting.deferred, u)
      BY <1>c, <1>d, <2>3, <3>1, AccountKept
    <3> QED  BY <2>1, <3>2 DEF Accounted
  <2>5. Finished(o)'
    BY <2>2, GoneTyped DEF Finished, Over, Restored, Zero
  <2>6. OnceOf(o)'
    BY <2>5 DEF OnceOf, Holds
  <2>7. ASSUME NEW p \in Owners \ {o} PROVE OnceOf(p)'
    BY <1>a, <1>d, <2>1, <2>2, <2>3, <2>7, OnceKept
  <2> QED  BY <1>a, <1>b, <2>1, <2>4, <2>6, <2>7 DEF OnceInvariant
<1>5. ASSUME Decide \/ UNCHANGED vars PROVE OnceInvariant'
  <2>1. /\ accounting' = accounting /\ ran' = ran /\ void' = void /\ holder' = holder
        /\ mem' = mem /\ stage' = stage /\ lock' = lock /\ taken' = taken /\ fresh' = fresh
    BY <1>5 DEF Decide, vars, durable
  <2>2. \A u \in Tasks : Entries(u)' = Entries(u)
    BY <2>1, EntriesKept
  <2>3. \A u \in Tasks : Accounted(accounting.charged, accounting.deferred, u)'
    BY <1>a, <2>1, <2>2 DEF Accounted
  <2>4. ASSUME NEW p \in Owners PROVE OnceOf(p)'
    BY <1>a, <1>d, <2>1, <2>2, OnceKept
  <2> QED  BY <1>a, <1>b, <2>1, <2>3, <2>4 DEF OnceInvariant
<1> QED
  BY <1>1, <1>2, <1>3, <1>4, <1>5, <1>b DEF Next, Acts

\* Nothing is charged yet.
LEMMA OnceInit == Init => OnceInvariant
<1> SUFFICES ASSUME Init PROVE OnceInvariant
  OBVIOUS
<1>1. PaidInvariant /\ Safe
  BY PaidInit DEF PaidInvariant
<1>2. Owners \ fresh = {} /\ accounting = Zero /\ holder = {}
  BY DEF Init
<1>3. IsFiniteSet(Owners \ fresh)
  BY <1>2, FS_EmptySet
<1>4. ASSUME NEW u \in Tasks PROVE Accounted(accounting.charged, accounting.deferred, u)
  <2>1. Charges(accounting.charged, u) = 0
    BY <1>2, ChargesEmpty DEF Zero
  <2>2. Entries(u) \in Nat
    BY <1>1, <1>3, TryingCounted
  <2>3. Deferral(accounting.deferred, u) = 0
    BY <1>2 DEF Zero, Deferral
  <2> QED  BY <2>1, <2>2, <2>3 DEF Accounted
<1>5. \A o \in Owners : OnceOf(o)
  BY <1>2 DEF OnceOf, Holds
<1> QED  BY <1>1, <1>3, <1>4, <1>5 DEF OnceInvariant

\* A debit belongs to an execution, to a try that ended without one, to a try under way,
\* or to the approval being waited for: an approved write is not charged a second time.
THEOREM ActionsChargedOnce == Spec => []ChargedOnce
<1>1. Init => OnceInvariant
  BY OnceInit
<1>2. OnceInvariant /\ [Next]_vars => OnceInvariant'
  BY OnceStep
<1>3. OnceInvariant => ChargedOnce
  BY DEF OnceInvariant, Accounted, Entries, Trying, Deferral, ChargedOnce
<1> QED  BY <1>1, <1>2, <1>3, PTL DEF Spec
=============================================================================
