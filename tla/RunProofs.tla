----------------------------- MODULE RunProofs ------------------------------
(***************************************************************************)
(* What is proved of the components that a run passes through, for all     *)
(* values of their bounds: a loop and its storage, the history of a run as *)
(* it is stored, streamed and shown, its tokens, what it retrieves, the    *)
(* processes that start on its database, its agents, and who may decide    *)
(* and write in it.  They share no state.  Each is an instance of its own, *)
(* over its own variables (a name that two of them have stands for either  *)
(* one's), and has an inductive invariant that says what its records know  *)
(* of what happened before: of an item that was sent, of the events that   *)
(* are on their way, of the questions still to be answered.  For every     *)
(* component there is a lemma for the start, one for a step and one for    *)
(* what the invariant says.  Bounds are assumed to be numbers where that   *)
(* is needed.                                                              *)
(***************************************************************************)
EXTENDS Integers, Sequences, FiniteSets, FiniteSetTheorems, SequenceTheorems, TLAPS

-----------------------------------------------------------------------------
(***************************************************************************)
(* LoopProgress: the items of a for_each node.                             *)
(***************************************************************************)
CONSTANTS Owners, NumItems
VARIABLES
  config, holder, fresh, rows, checkpoint, markers, stored, approval,
  step, results, sent, answer
Loop == INSTANCE LoopProgress

\* A marker of the run is explained, for the attempt that holds the run, by the
\* item's row or by the item it is at (Unsettled).  So an attempt that finds no row
\* for its item also finds no trace of a request for it.

\* The entries of finished items, and the states of an approval.
Entries == [status : {"success", "failed"}, n : Nat]
Approvals == {"none", "pending", "approved", "rejected", "executing", "completed"}
\* The steps between the intent to send and what became of it.
InFlight == {"marked", "sent"}

\* Every variable has its type.
LoopTyped ==
  /\ NumItems \in Nat
  /\ config \in [gated : BOOLEAN, stop : BOOLEAN, legacy : {0, 1}]
  /\ fresh \in SUBSET Owners /\ holder \in SUBSET Owners
  /\ rows \in [Loop!Items -> Entries \cup {Loop!NoRow}]
  /\ markers \in SUBSET Loop!Items /\ stored \in SUBSET Loop!Items
  /\ approval \in [Loop!Items -> Approvals]
  /\ step \in [Owners -> Loop!Steps]
  /\ results \in [Owners -> Seq(Entries)]
  /\ sent \in [Loop!Items -> Nat]

\* Where an attempt stands fits the entries it has made so far.
Places ==
  \A o \in Owners :
    /\ step[o] \in {"next", "marked", "sent"} => Len(results[o]) < NumItems
    /\ step[o] \in {"emitting", "finished"} => Len(results[o]) <= NumItems
    /\ step[o] = "emitting" => Len(results[o]) > 0
    /\ step[o] = "idle" => results[o] = <<>>
    /\ o \in fresh => step[o] = "idle"

\* A gated loop stores no results of its own; an ungated one asks nobody.
Kinds ==
  /\ config.gated => stored = {}
  /\ ~config.gated => \A i \in Loop!Items : approval[i] = "none"

\* The attempt the fence accepts, while it still runs.
Live(o) == Loop!Fence(o) /\ step[o] # "idle"

\* At most one request is under way, and the attempt that holds the run
\* does not work beside the request of another.
Alone ==
  /\ \A o, x \in Owners : step[o] \in InFlight /\ step[x] \in InFlight => o = x
  /\ \A o, x \in Owners : Live(o) /\ step[x] \in InFlight => o = x

\* A write that is under way is on record, unsettled, of an item that is
\* not finished, and sent exactly when the attempt says so.
Underway ==
  \A o \in Owners : step[o] \in InFlight =>
    /\ Loop!Current(o) \in markers /\ Loop!Current(o) \notin stored
    /\ config.gated => approval[Loop!Current(o)] = "executing"
    /\ Loop!Progress[Loop!Current(o)] = Loop!NoRow
    /\ sent[Loop!Current(o)] > 0 <=> step[o] = "sent"

\* A marker is explained by the row of its item, or by what the attempt that
\* holds the run is doing.
Unsettled ==
  \A o \in Owners : Live(o) => \A i \in markers :
    \/ Loop!Progress[i] # Loop!NoRow
    \/ step[o] \in InFlight /\ i = Loop!Current(o)
    \/ step[o] = "emitting" /\ i = Len(results[o])

\* What was sent for an item is marked or settled.
OnRecord == \A i \in Loop!Items : sent[i] > 0 => i \in markers \/ Loop!IsSettled(i)

\* The entry that waits to be saved is the first one of its item.
Unsaved ==
  \A o \in Owners : Loop!Fence(o) /\ step[o] = "emitting" => Loop!Progress[Len(results[o])] = Loop!NoRow

\* A loop with a checkpoint is over: nobody who holds the run executes it,
\* and the checkpoint gives back the answer.
Kept ==
  checkpoint # <<>> =>
    /\ \A o \in Owners : Loop!Fence(o) => step[o] = "idle"
    /\ Loop!Hydrate(checkpoint[1]) = answer

\* The inductive invariant.
LoopInv == LoopTyped /\ Places /\ Kinds /\ Alone /\ Underway /\ Unsettled /\ OnRecord /\ Unsaved /\ Kept
-----------------------------------------------------------------------------
\* A step of one attempt.
OwnerStep(o) ==
  \/ Loop!Claim(o) \/ Loop!Reuse(o) \/ Loop!Refuse(o) \/ Loop!Prepare(o) \/ Loop!Mark(o) \/ Loop!Begin(o)
  \/ Loop!Pause(o) \/ Loop!Send(o) \/ Loop!SendFails(o) \/ Loop!Settle(o) \/ Loop!SaveItem(o)
  \/ Loop!Publish(o) \/ Loop!Crash(o)

\* Entries are entries, and the absence of a row is not one.
LEMMA EntryTyped ==
  /\ \A n \in Nat : Loop!Entry("success", n) \in Entries /\ Loop!Entry("failed", n) \in Entries
  /\ Loop!NoRow \notin Entries
BY DEF Loop!Entry, Entries, Loop!NoRow

\* What the progress of a loop says of an item.
LEMMA ProgressTyped == LoopTyped => \A i \in Loop!Items : Loop!Progress[i] \in Entries \cup {Loop!NoRow}
BY EntryTyped DEF LoopTyped, Loop!Progress, Loop!Legacy

\* An attempt that is at an item is at an item of the list.
LEMMA CurrentTyped ==
  ASSUME LoopTyped, Places, NEW o \in Owners, step[o] \in {"next", "marked", "sent"}
  PROVE  Loop!Current(o) \in Loop!Items /\ sent[Loop!Current(o)] \in Nat
BY DEF LoopTyped, Places, Loop!Current, Loop!Items

\* What Makes does to the attempt.
LEMMA Made ==
  ASSUME LoopTyped, NEW o \in Owners, NEW entry \in Entries, Loop!Makes(o, entry)
  PROVE  /\ step' = [step EXCEPT ![o] = "emitting"]
         /\ step' \in [Owners -> Loop!Steps] /\ results' \in [Owners -> Seq(Entries)]
         /\ results'[o] = Append(results[o], entry)
         /\ Len(results'[o]) = Len(results[o]) + 1
         /\ \A x \in Owners \ {o} : results'[x] = results[x]
BY DEF LoopTyped, Loop!Makes, Loop!Goto, Loop!Steps

\* What Ends does to the attempt.
LEMMA Ended ==
  ASSUME LoopTyped, NEW o \in Owners, Loop!Ends(o)
  PROVE  /\ step' = [step EXCEPT ![o] = "idle"]
         /\ step' \in [Owners -> Loop!Steps] /\ results' \in [Owners -> Seq(Entries)]
         /\ results'[o] = <<>>
         /\ \A x \in Owners \ {o} : results'[x] = results[x]
BY DEF LoopTyped, Loop!Ends, Loop!Goto, Loop!Steps

\* Where After leads.
LEMMA GoneOn ==
  ASSUME LoopTyped, NEW o \in Owners, NEW entries \in Seq(Entries), Len(entries) <= NumItems, Loop!After(o, entries)
  PROVE  /\ step' \in [Owners -> Loop!Steps]
         /\ step'[o] = "finished" \/ (step'[o] = "next" /\ Len(entries) < NumItems)
         /\ \A x \in Owners \ {o} : step'[x] = step[x]
BY DEF LoopTyped, Loop!After, Loop!Goto, Loop!Steps

\* A step of o that leaves the other attempts where they are.
Others(o) == \A x \in Owners \ {o} : step'[x] = step[x] /\ results'[x] = results[x]

\* Only the attempt that moved has to be looked at.
LEMMA PlacesFollow ==
  ASSUME LoopTyped, Places, NEW o \in Owners, Others(o), fresh' \subseteq fresh,
         step'[o] \in {"next", "marked", "sent"} => Len(results'[o]) < NumItems,
         step'[o] \in {"emitting", "finished"} => Len(results'[o]) <= NumItems,
         step'[o] = "emitting" => Len(results'[o]) > 0,
         step'[o] = "idle" => results'[o] = <<>>,
         o \in fresh' => step'[o] = "idle"
  PROVE  Places'
BY DEF Places, Others

\* Every step of an attempt keeps the types and the places, and no other attempt.
LEMMA OwnerTyped ==
  ASSUME LoopTyped, Places, NEW o \in Owners, OwnerStep(o)
  PROVE  LoopTyped' /\ Places' /\ Others(o)
<1> USE ProgressTyped, EntryTyped
<1>0. Loop!Current(o) = Len(results[o]) + 1 /\ Len(results[o]) \in Nat
  BY DEF Loop!Current, LoopTyped
<1>1. CASE Loop!Claim(o)
  <2>1. LoopTyped' BY <1>1 DEF LoopTyped, Loop!Claim, Loop!Goto, Loop!Steps, Loop!run
  <2>2. Others(o) BY <1>1 DEF LoopTyped, Loop!Claim, Loop!Goto, Others
  <2>3. step'[o] \in {"idle", "next"} /\ o \notin fresh' /\ (step'[o] = "next" => NumItems > 0)
    BY <1>1 DEF LoopTyped, Loop!Claim, Loop!Goto
  <2>4. results'[o] = <<>> BY <1>1 DEF LoopTyped, Loop!Claim, Places
  <2>5. fresh' \subseteq fresh BY <1>1 DEF Loop!Claim
  <2> QED BY <2>1, <2>2, <2>3, <2>4, <2>5, PlacesFollow DEF LoopTyped
<1>2. CASE Loop!Reuse(o)
  <2> DEFINE entries == Append(results[o], Loop!Progress[Loop!Current(o)])
  <2>1. Loop!Progress[Loop!Current(o)] \in Entries BY <1>2, CurrentTyped DEF Loop!Reuse, Loop!Done, Loop!At
  <2>2. entries \in Seq(Entries) /\ Len(entries) = Len(results[o]) + 1 BY <2>1 DEF LoopTyped
  <2>3. Len(entries) <= NumItems BY <1>2, <2>2, <1>0 DEF Loop!Reuse, Loop!At, Places, LoopTyped
  <2>4. Loop!After(o, entries) /\ results' = [results EXCEPT ![o] = entries] /\ o \notin fresh
    BY <1>2 DEF Loop!Reuse, Loop!At
  <2> HIDE DEF entries
  <2>5. LoopTyped' BY <1>2, <2>2, <2>3, <2>4, GoneOn DEF LoopTyped, Loop!Reuse, Loop!run
  <2>6. Others(o) BY <2>2, <2>3, <2>4, GoneOn DEF Others, LoopTyped
  <2>7. results'[o] = entries BY <2>4 DEF LoopTyped
  <2>8. fresh' = fresh BY <1>2 DEF Loop!Reuse
  <2> QED BY <2>2, <2>3, <2>4, <2>5, <2>6, <2>7, <2>8, GoneOn, PlacesFollow
<1>3. CASE Loop!Refuse(o) \/ Loop!Crash(o) \/ Loop!SendFails(o)
  <2>1. o \notin fresh /\ fresh' = fresh BY <1>3 DEF Loop!Refuse, Loop!Crash, Loop!SendFails, Loop!At
  <2>2. CASE Loop!Refuse(o)
    <3>1. LoopTyped' BY <2>2 DEF LoopTyped, Loop!Refuse, Loop!Goto, Loop!Steps, Loop!run
    <3>2. Others(o) BY <2>2 DEF LoopTyped, Loop!Refuse, Loop!Goto, Others
    <3>3. step'[o] = "finished" /\ results'[o] = results[o] /\ step[o] = "next"
      BY <2>2 DEF LoopTyped, Loop!Refuse, Loop!Goto, Loop!At
    <3>4. Len(results[o]) <= NumItems BY <3>3, <1>0 DEF Places, LoopTyped
    <3> QED BY <2>1, <3>1, <3>2, <3>3, <3>4, PlacesFollow
  <2>3. CASE Loop!Crash(o) \/ Loop!SendFails(o)
    <3>1. Loop!Ends(o) BY <2>3 DEF Loop!Crash, Loop!SendFails
    <3>2. LoopTyped' BY <2>3, <3>1, Ended DEF LoopTyped, Loop!Crash, Loop!SendFails, Loop!run
    <3>3. Others(o) BY <3>1, Ended DEF LoopTyped, Others
    <3>4. step'[o] = "idle" BY <3>1, Ended DEF LoopTyped
    <3> QED BY <2>1, <3>1, <3>2, <3>3, <3>4, Ended, PlacesFollow
  <2> QED BY <1>3, <2>2, <2>3
<1>4. CASE Loop!Prepare(o)
  <2> DEFINE entry == Loop!Entry("failed", sent[Loop!Current(o)])
  <2>1. entry \in Entries BY <1>4, CurrentTyped DEF Loop!Prepare, Loop!At
  <2>2. Loop!Makes(o, entry) BY <1>4 DEF Loop!Prepare
  <2> HIDE DEF entry
  <2>3. LoopTyped' BY <1>4, <2>1, <2>2, Made DEF LoopTyped, Loop!Prepare, Loop!run
  <2>4. Others(o) /\ step'[o] = "emitting" BY <2>1, <2>2, Made DEF Others, LoopTyped
  <2>5. Len(results[o]) < NumItems /\ o \notin fresh /\ fresh' = fresh BY <1>4 DEF Loop!Prepare, Loop!At, Places
  <2>6. Len(results'[o]) = Len(results[o]) + 1 BY <2>1, <2>2, Made
  <2>7. Len(results'[o]) <= NumItems /\ Len(results'[o]) > 0 BY <1>0, <2>5, <2>6 DEF LoopTyped
  <2> QED BY <2>3, <2>4, <2>5, <2>7, PlacesFollow
<1>5. CASE Loop!Mark(o)
  <2>0. Loop!Current(o) \in Loop!Items /\ Len(results[o]) < NumItems /\ o \notin fresh /\ fresh' = fresh
    BY <1>5, CurrentTyped DEF Loop!Mark, Loop!At, Places
  <2>1. CASE Loop!Goto(o, "marked") /\ markers' = markers \cup {Loop!Current(o)} /\ UNCHANGED results
    <3>1. LoopTyped' BY <1>5, <2>0, <2>1 DEF LoopTyped, Loop!Mark, Loop!Goto, Loop!Steps
    <3>2. Others(o) /\ step'[o] = "marked" BY <2>1 DEF Others, Loop!Goto, LoopTyped
    <3> QED BY <2>0, <2>1, <3>1, <3>2, PlacesFollow
  <2>2. ASSUME NEW entry \in Entries, Loop!Makes(o, entry), UNCHANGED markers PROVE LoopTyped' /\ Places' /\ Others(o)
    <3>1. LoopTyped' BY <1>5, <2>2, Made DEF LoopTyped, Loop!Mark
    <3>2. Others(o) /\ step'[o] = "emitting" BY <2>2, Made DEF Others, LoopTyped
    <3>3. Len(results'[o]) = Len(results[o]) + 1 BY <2>2, Made
    <3>4. Len(results'[o]) <= NumItems /\ Len(results'[o]) > 0 BY <1>0, <2>0, <3>3 DEF LoopTyped
    <3> QED BY <2>0, <3>1, <3>2, <3>4, PlacesFollow
  <2>3. Loop!Entry("success", sent[Loop!Current(o)]) \in Entries /\ Loop!Entry("failed", sent[Loop!Current(o)]) \in Entries
    BY <2>0 DEF LoopTyped
  <2> QED BY <1>5, <2>1, <2>2, <2>3 DEF Loop!Mark
<1>6. CASE Loop!Begin(o)
  <2>0. Loop!Current(o) \in Loop!Items /\ Len(results[o]) < NumItems /\ o \notin fresh /\ fresh' = fresh
    BY <1>6, CurrentTyped DEF Loop!Begin, Loop!At, Places
  <2>1. CASE approval[Loop!Current(o)] = "approved"
    <3>1. step' = [step EXCEPT ![o] = "marked"] /\ UNCHANGED results
          /\ markers' = markers \cup {Loop!Current(o)} /\ approval' = [approval EXCEPT ![Loop!Current(o)] = "executing"]
      BY <1>6, <2>1 DEF Loop!Begin, Loop!Goto
    <3>2. LoopTyped' BY <1>6, <2>0, <3>1 DEF LoopTyped, Loop!Begin, Loop!Steps, Approvals
    <3>3. Others(o) /\ step'[o] = "marked" BY <3>1 DEF Others, LoopTyped
    <3> QED BY <2>0, <3>1, <3>2, <3>3, PlacesFollow
  <2>2. CASE approval[Loop!Current(o)] = "completed"
    <3> DEFINE entry == Loop!Entry("success", sent[Loop!Current(o)])
    <3>1. Loop!Makes(o, entry) /\ UNCHANGED <<approval, markers>> BY <1>6, <2>2 DEF Loop!Begin
    <3>2. entry \in Entries BY <2>0 DEF LoopTyped
    <3> HIDE DEF entry
    <3>3. LoopTyped' BY <1>6, <3>1, <3>2, Made DEF LoopTyped, Loop!Begin
    <3>4. Others(o) /\ step'[o] = "emitting" BY <3>1, <3>2, Made DEF Others, LoopTyped
    <3>5. Len(results'[o]) = Len(results[o]) + 1 BY <3>1, <3>2, Made
    <3>6. Len(results'[o]) <= NumItems /\ Len(results'[o]) > 0 BY <1>0, <2>0, <3>5 DEF LoopTyped
    <3> QED BY <2>0, <3>3, <3>4, <3>6, PlacesFollow
  <2>3. CASE approval[Loop!Current(o)] \notin {"approved", "completed"}
    <3>1. Loop!Ends(o) /\ UNCHANGED <<approval, markers>> BY <1>6, <2>3 DEF Loop!Begin
    <3>2. LoopTyped' BY <1>6, <3>1, Ended DEF LoopTyped, Loop!Begin
    <3>3. Others(o) /\ step'[o] = "idle" BY <3>1, Ended DEF LoopTyped, Others
    <3> QED BY <2>0, <3>1, <3>2, <3>3, Ended, PlacesFollow
  <2> QED BY <2>1, <2>2, <2>3
<1>7. CASE Loop!Pause(o)
  <2>0. Loop!Current(o) \in Loop!Items /\ o \notin fresh /\ fresh' = fresh BY <1>7, CurrentTyped DEF Loop!Pause, Loop!At
  <2>1. Loop!Ends(o) /\ approval' = [approval EXCEPT ![Loop!Current(o)] = "pending"] /\ holder' = {} BY <1>7 DEF Loop!Pause
  <2>2. LoopTyped' BY <1>7, <2>0, <2>1, Ended DEF LoopTyped, Loop!Pause, Approvals
  <2>3. Others(o) /\ step'[o] = "idle" BY <2>1, Ended DEF LoopTyped, Others
  <2> QED BY <2>0, <2>1, <2>2, <2>3, Ended, PlacesFollow
<1>8. CASE Loop!Send(o)
  <2>0. Loop!Current(o) \in Loop!Items /\ Len(results[o]) < NumItems /\ o \notin fresh /\ fresh' = fresh
    BY <1>8, CurrentTyped DEF Loop!Send, Loop!At, Places
  <2>1. LoopTyped' BY <1>8, <2>0 DEF LoopTyped, Loop!Send, Loop!Goto, Loop!Steps, Loop!run
  <2>2. Others(o) /\ step'[o] = "sent" /\ results'[o] = results[o] BY <1>8 DEF LoopTyped, Loop!Send, Loop!Goto, Others
  <2> QED BY <2>0, <2>1, <2>2, PlacesFollow
<1>9. CASE Loop!Settle(o)
  <2>0. Loop!Current(o) \in Loop!Items /\ Len(results[o]) < NumItems /\ o \notin fresh /\ fresh' = fresh
    BY <1>9, CurrentTyped DEF Loop!Settle, Loop!At, Places
  <2>1. /\ markers' \in SUBSET Loop!Items /\ stored' \in SUBSET Loop!Items /\ approval' \in [Loop!Items -> Approvals]
        /\ UNCHANGED <<config, rows, holder, fresh, sent>>
    <3>1. CASE UNCHANGED <<markers, stored, approval>> BY <1>9, <3>1 DEF LoopTyped, Loop!Settle
    <3>2. CASE /\ markers' = markers \ {Loop!Current(o)}
               /\ stored' = IF config.gated THEN stored ELSE stored \cup {Loop!Current(o)}
               /\ approval' = IF config.gated THEN [approval EXCEPT ![Loop!Current(o)] = "completed"] ELSE approval
      <4>1. [approval EXCEPT ![Loop!Current(o)] = "completed"] \in [Loop!Items -> Approvals] BY DEF LoopTyped, Approvals
      <4>2. approval' \in [Loop!Items -> Approvals] BY <3>2, <4>1 DEF LoopTyped
      <4>3. stored' \in SUBSET Loop!Items /\ markers' \in SUBSET Loop!Items BY <2>0, <3>2 DEF LoopTyped
      <4> QED BY <1>9, <4>2, <4>3 DEF Loop!Settle
    <3> QED BY <1>9, <3>1, <3>2 DEF Loop!Settle
  <2>2. CASE Loop!Ends(o)
    <3>1. LoopTyped' BY <2>1, <2>2, Ended DEF LoopTyped
    <3>2. Others(o) /\ step'[o] = "idle" BY <2>2, Ended DEF LoopTyped, Others
    <3> QED BY <2>0, <2>2, <3>1, <3>2, Ended, PlacesFollow
  <2>3. ASSUME NEW entry \in Entries, Loop!Makes(o, entry) PROVE LoopTyped' /\ Places' /\ Others(o)
    <3>1. LoopTyped' BY <2>1, <2>3, Made DEF LoopTyped
    <3>2. Others(o) /\ step'[o] = "emitting" BY <2>3, Made DEF Others, LoopTyped
    <3>3. Len(results'[o]) = Len(results[o]) + 1 BY <2>3, Made
    <3>4. Len(results'[o]) <= NumItems /\ Len(results'[o]) > 0 BY <1>0, <2>0, <3>3 DEF LoopTyped
    <3> QED BY <2>0, <3>1, <3>2, <3>4, PlacesFollow
  <2>4. Loop!Entry("success", sent[Loop!Current(o)]) \in Entries /\ Loop!Entry("failed", sent[Loop!Current(o)]) \in Entries
    BY <2>0 DEF LoopTyped
  <2> QED BY <1>9, <2>2, <2>3, <2>4 DEF Loop!Settle
<1>10. CASE Loop!SaveItem(o)
  <2>0. Len(results[o]) <= NumItems /\ Len(results[o]) > 0 /\ o \notin fresh /\ fresh' = fresh
    BY <1>10 DEF Loop!SaveItem, Loop!At, Places
  <2>1. Len(results[o]) \in Loop!Items /\ results[o][Len(results[o])] \in Entries /\ results[o] \in Seq(Entries)
    BY <1>0, <2>0 DEF LoopTyped, Loop!Items
  <2>2. rows' \in [Loop!Items -> Entries \cup {Loop!NoRow}] BY <1>10, <2>1 DEF Loop!SaveItem, LoopTyped
  <2>3. CASE Loop!Ends(o)
    <3>1. LoopTyped' BY <1>10, <2>2, <2>3, Ended DEF LoopTyped, Loop!SaveItem
    <3>2. Others(o) /\ step'[o] = "idle" BY <2>3, Ended DEF LoopTyped, Others
    <3> QED BY <2>0, <2>3, <3>1, <3>2, Ended, PlacesFollow
  <2>4. CASE Loop!After(o, results[o]) /\ UNCHANGED results
    <3>1. LoopTyped' BY <1>10, <2>0, <2>1, <2>2, <2>4, GoneOn DEF LoopTyped, Loop!SaveItem
    <3>2. Others(o) BY <2>0, <2>1, <2>4, GoneOn DEF Others
    <3> QED BY <2>0, <2>1, <2>4, <3>1, <3>2, GoneOn, PlacesFollow
  <2> QED BY <1>10, <2>3, <2>4 DEF Loop!SaveItem
<1>11. CASE Loop!Publish(o)
  <2>0. o \notin fresh /\ fresh' = fresh /\ Loop!Ends(o) BY <1>11 DEF Loop!Publish, Loop!At
  <2>1. LoopTyped' BY <1>11, <2>0, Ended DEF LoopTyped, Loop!Publish
  <2>2. Others(o) /\ step'[o] = "idle" BY <2>0, Ended DEF LoopTyped, Others
  <2> QED BY <2>0, <2>1, <2>2, Ended, PlacesFollow
<1> QED BY <1>1, <1>2, <1>3, <1>4, <1>5, <1>6, <1>7, <1>8, <1>9, <1>10, <1>11 DEF OwnerStep

-----------------------------------------------------------------------------
\* The records of the run stay as they are.
Quiet == UNCHANGED <<config, rows, markers, stored, approval, sent>>

\* The same rows say the same.
LEMMA SameProgress == UNCHANGED <<config, rows>> => Loop!Progress' = Loop!Progress
BY DEF Loop!Progress, Loop!Legacy

\* Only an attempt that holds the run, or has a request under way, changes them.
LEMMA OwnerMoves ==
  ASSUME LoopInv, NEW o \in Owners, OwnerStep(o)
  PROVE  /\ config' = config
         /\ Quiet \/ Live(o) \/ step[o] \in InFlight
         /\ rows' = rows \/ (Loop!SaveItem(o) /\ Live(o))
         /\ ~Loop!Claim(o) => /\ step[o] # "idle"
                              /\ \A x \in Owners : Loop!Fence(x)' => Loop!Fence(x)
                              /\ step'[o] \in InFlight => step[o] \in InFlight \/ Live(o)
<1>1. step \in [Owners -> Loop!Steps] BY DEF LoopInv, LoopTyped
<1>2. CASE Loop!Claim(o)
  <2>1. UNCHANGED <<Loop!run, sent>> BY <1>2 DEF Loop!Claim
  <2> QED BY <1>2, <2>1 DEF Quiet, Loop!run
<1>3. CASE Loop!Reuse(o) BY <1>1, <1>3 DEF Loop!Reuse, Quiet, Loop!run, Loop!After, Loop!Goto, Loop!At, InFlight, Loop!Fence
<1>4. CASE Loop!Refuse(o) BY <1>1, <1>4 DEF Loop!Refuse, Quiet, Loop!run, Loop!Goto, Loop!At, InFlight, Loop!Fence
<1>5. CASE Loop!Prepare(o) BY <1>1, <1>5 DEF Loop!Prepare, Quiet, Loop!run, Loop!Makes, Loop!Goto, Loop!At, InFlight, Loop!Fence
<1>6. CASE Loop!Mark(o) BY <1>1, <1>6 DEF Loop!Mark, Quiet, Loop!Makes, Loop!Goto, Loop!At, InFlight, Loop!Fence, Live
<1>7. CASE Loop!Begin(o) BY <1>1, <1>7 DEF Loop!Begin, Loop!At, InFlight, Loop!Fence, Live
<1>8. CASE Loop!Pause(o) BY <1>1, <1>8 DEF Loop!Pause, Loop!Ends, Loop!Goto, Loop!At, InFlight, Loop!Fence, Live
<1>9. CASE Loop!Send(o) BY <1>1, <1>9 DEF Loop!Send, Loop!run, Loop!At, InFlight, Loop!Fence, Live
<1>10. CASE Loop!SendFails(o) BY <1>1, <1>10 DEF Loop!SendFails, Loop!run, Loop!At, InFlight, Loop!Fence, Live
<1>11. CASE Loop!Settle(o) BY <1>1, <1>11 DEF Loop!Settle, Loop!At, InFlight, Loop!Fence, Live
<1>12. CASE Loop!SaveItem(o) BY <1>1, <1>12 DEF Loop!SaveItem, Loop!At, Loop!After, Loop!Ends, Loop!Goto, InFlight, Loop!Fence, Live, Quiet
<1>13. CASE Loop!Publish(o) BY <1>1, <1>13 DEF Loop!Publish, Loop!At, Loop!Ends, Loop!Goto, InFlight, Loop!Fence, Live, Quiet
<1>14. CASE Loop!Crash(o) BY <1>1, <1>14 DEF Loop!Crash, Loop!At, Loop!Ends, Loop!Goto, InFlight, Loop!Fence, Live, Quiet, Loop!run
<1> QED BY <1>2, <1>3, <1>4, <1>5, <1>6, <1>7, <1>8, <1>9, <1>10, <1>11, <1>12, <1>13, <1>14 DEF OwnerStep

\* The steps that put a write under way.
LEMMA Enters ==
  ASSUME LoopInv, NEW o \in Owners, OwnerStep(o), step'[o] \in InFlight
  PROVE  Loop!Mark(o) \/ Loop!Begin(o) \/ Loop!Send(o)
<1>1. step \in [Owners -> Loop!Steps] BY DEF LoopInv, LoopTyped
<1>2. ~Loop!Claim(o) BY <1>1 DEF Loop!Claim, Loop!Goto, InFlight
<1>3. ~Loop!Reuse(o) /\ ~Loop!Refuse(o) /\ ~Loop!Prepare(o)
  BY <1>1 DEF Loop!Reuse, Loop!Refuse, Loop!Prepare, Loop!After, Loop!Makes, Loop!Goto, InFlight
<1>4. ~Loop!Pause(o) /\ ~Loop!SendFails(o) /\ ~Loop!Crash(o) /\ ~Loop!Publish(o)
  BY <1>1 DEF Loop!Pause, Loop!SendFails, Loop!Crash, Loop!Publish, Loop!Ends, Loop!Goto, InFlight
<1>5. ~Loop!Settle(o) BY <1>1 DEF Loop!Settle, Loop!Ends, Loop!Makes, Loop!Goto, InFlight
<1>6. ~Loop!SaveItem(o) BY <1>1 DEF Loop!SaveItem, Loop!Ends, Loop!After, Loop!Goto, InFlight
<1> QED BY <1>2, <1>3, <1>4, <1>5, <1>6 DEF OwnerStep

\* A write is marked for the first time: nothing was sent for its item before.
LEMMA Untouched ==
  ASSUME LoopInv, NEW o \in Owners, step[o] = "next", Loop!Fence(o), ~Loop!Done(o),
         config.gated => approval[Loop!Current(o)] # "completed", Loop!Current(o) \notin stored
  PROVE  Loop!Current(o) \in Loop!Items /\ Loop!Current(o) \notin markers /\ sent[Loop!Current(o)] = 0
<1>1. Loop!Current(o) \in Loop!Items /\ sent[Loop!Current(o)] \in Nat BY CurrentTyped DEF LoopInv
<1>2. Loop!Current(o) \notin markers BY DEF LoopInv, Unsettled, Live, Loop!Done, InFlight
<1>3. ~Loop!IsSettled(Loop!Current(o)) BY <1>1 DEF LoopInv, Kinds, Loop!IsSettled
<1> QED BY <1>1, <1>2, <1>3 DEF LoopInv, OnRecord

\* A claim finds nothing under way, since what is under way is not settled.
LEMMA AloneKept ==
  ASSUME LoopInv, NEW o \in Owners, OwnerStep(o)
  PROVE  Alone'
<1>1. Others(o) BY OwnerTyped DEF LoopInv
<1>2. CASE Loop!Claim(o)
  <2>1. holder' = {o} /\ step'[o] \in {"idle", "next"} /\ (step'[o] = "next" => Loop!Settled)
    BY <1>2 DEF Loop!Claim, Loop!Goto, LoopInv, LoopTyped
  <2>2. Loop!Settled => \A x \in Owners : step[x] \notin InFlight BY DEF LoopInv, Underway, Loop!Settled
  <2> QED BY <1>1, <2>1, <2>2 DEF Alone, Others, Live, Loop!Fence, InFlight, LoopInv
<1>3. CASE ~Loop!Claim(o)
  <2>1. /\ step[o] # "idle" /\ \A x \in Owners : Loop!Fence(x)' => Loop!Fence(x)
        /\ step'[o] \in InFlight => step[o] \in InFlight \/ Live(o)
    BY <1>3, OwnerMoves
  <2>2. \A x \in Owners : Live(x)' => Live(x) BY <1>1, <2>1 DEF Live, Others
  <2>3. \A x \in Owners : step'[x] \in InFlight => step[x] \in InFlight \/ (x = o /\ Live(o))
    BY <1>1, <2>1 DEF Others
  <2>4. \A x, y \in Owners : Live(x) /\ Live(y) => x = y BY DEF Live, Loop!Fence
  <2>5. Alone BY DEF LoopInv
  <2> QED BY <2>2, <2>3, <2>4, <2>5 DEF Alone
<1> QED BY <1>2, <1>3

\* Nobody else moves the records while a write is under way.
LEMMA UnderwayKept ==
  ASSUME LoopInv, NEW o \in Owners, OwnerStep(o)
  PROVE  Underway'
<1>1. Others(o) BY OwnerTyped DEF LoopInv
<1>2. ASSUME NEW x \in Owners \ {o}, step'[x] \in InFlight
      PROVE  /\ Loop!Current(x)' \in markers' /\ Loop!Current(x)' \notin stored'
             /\ config.gated' => approval'[Loop!Current(x)'] = "executing"
             /\ Loop!Progress'[Loop!Current(x)'] = Loop!NoRow
             /\ sent'[Loop!Current(x)'] > 0 <=> step'[x] = "sent"
  <2>1. step[x] \in InFlight /\ Loop!Current(x)' = Loop!Current(x) /\ step'[x] = step[x] BY <1>1, <1>2 DEF Others, Loop!Current
  <2>2. Quiet BY <2>1, OwnerMoves DEF LoopInv, Alone
  <2>3. Loop!Progress' = Loop!Progress BY <2>2, SameProgress DEF Quiet
  <2> QED BY <2>1, <2>2, <2>3 DEF Quiet, LoopInv, Underway
<1>3. ASSUME step'[o] \in InFlight
      PROVE  /\ Loop!Current(o)' \in markers' /\ Loop!Current(o)' \notin stored'
             /\ config.gated' => approval'[Loop!Current(o)'] = "executing"
             /\ Loop!Progress'[Loop!Current(o)'] = Loop!NoRow
             /\ sent'[Loop!Current(o)'] > 0 <=> step'[o] = "sent"
  <2>0. /\ step \in [Owners -> Loop!Steps] /\ results \in [Owners -> Seq(Entries)] /\ approval \in [Loop!Items -> Approvals]
        /\ sent \in [Loop!Items -> Nat]
    BY DEF LoopInv, LoopTyped
  <2>1. CASE Loop!Mark(o)
    <3>1. /\ step'[o] = "marked" /\ ~config.gated /\ UNCHANGED <<config, rows, results, sent, stored>>
          /\ markers' = markers \cup {Loop!Current(o)} /\ Loop!Current(o) \notin stored /\ ~Loop!Done(o)
          /\ step[o] = "next" /\ Loop!Fence(o)
      BY <1>3, <2>0, <2>1 DEF Loop!Mark, InFlight, Loop!Makes, Loop!Goto, Loop!At
    <3>2. sent[Loop!Current(o)] = 0 BY <3>1, Untouched
    <3>3. Loop!Current(o)' = Loop!Current(o) /\ Loop!Progress' = Loop!Progress BY <3>1, SameProgress DEF Loop!Current
    <3> QED BY <3>1, <3>2, <3>3 DEF Loop!Done
  <2>2. CASE Loop!Begin(o)
    <3>1. approval[Loop!Current(o)] = "approved"
      BY <1>3, <2>0, <2>2 DEF Loop!Begin, InFlight, Loop!Makes, Loop!Ends, Loop!Goto
    <3>2. /\ step'[o] = "marked" /\ config.gated /\ UNCHANGED <<config, rows, results, sent, stored>>
          /\ markers' = markers \cup {Loop!Current(o)} /\ ~Loop!Done(o) /\ step[o] = "next" /\ Loop!Fence(o)
          /\ approval' = [approval EXCEPT ![Loop!Current(o)] = "executing"]
      BY <1>3, <2>0, <2>2, <3>1 DEF Loop!Begin, Loop!Goto, Loop!At
    <3>3. stored = {} BY <3>2 DEF LoopInv, Kinds
    <3>4. sent[Loop!Current(o)] = 0 /\ Loop!Current(o) \in Loop!Items BY <3>1, <3>2, <3>3, Untouched
    <3>5. Loop!Current(o)' = Loop!Current(o) /\ Loop!Progress' = Loop!Progress BY <3>2, SameProgress DEF Loop!Current
    <3> QED BY <2>0, <3>2, <3>3, <3>4, <3>5 DEF Loop!Done
  <2>3. CASE Loop!Send(o)
    <3>1. /\ step[o] = "marked" /\ step'[o] = "sent" /\ UNCHANGED <<config, rows, results, stored, markers, approval>>
          /\ sent' = [sent EXCEPT ![Loop!Current(o)] = @ + 1]
      BY <2>0, <2>3 DEF Loop!Send, Loop!Goto, Loop!At, Loop!run
    <3>2. Loop!Current(o) \in Loop!Items BY <3>1, CurrentTyped DEF LoopInv
    <3>3. Loop!Current(o)' = Loop!Current(o) /\ Loop!Progress' = Loop!Progress BY <3>1, SameProgress DEF Loop!Current
    <3>4. sent'[Loop!Current(o)] > 0 BY <2>0, <3>1, <3>2
    <3> QED BY <3>1, <3>3, <3>4 DEF LoopInv, Underway, InFlight
  <2> QED BY <1>3, <2>1, <2>2, <2>3, Enters
<1> QED BY <1>2, <1>3 DEF Underway

\* What the holder marks is of its item, until the row of the item is saved.
LEMMA UnsettledKept ==
  ASSUME LoopInv, NEW o \in Owners, OwnerStep(o)
  PROVE  Unsettled'
<1>1. Others(o) BY OwnerTyped DEF LoopInv
<1>2. /\ step \in [Owners -> Loop!Steps] /\ results \in [Owners -> Seq(Entries)] /\ markers \subseteq Loop!Items
      /\ LoopTyped /\ Unsettled
  BY DEF LoopInv, LoopTyped
<1>3. CASE Loop!Claim(o)
  <2>1. holder' = {o} /\ (step'[o] # "idle" => Loop!Settled) /\ UNCHANGED <<config, rows, markers>>
    BY <1>2, <1>3 DEF Loop!Claim, Loop!Goto, Loop!run
  <2> QED BY <2>1, SameProgress DEF Unsettled, Loop!Settled, Live, Loop!Fence
<1>4. ASSUME ~Loop!Claim(o), NEW x \in Owners \ {o}, Live(x)', NEW i \in markers'
      PROVE  Loop!Progress'[i] # Loop!NoRow \/ (step'[x] \in InFlight /\ i = Loop!Current(x)')
               \/ (step'[x] = "emitting" /\ i = Len(results'[x]))
  <2>1. Live(x) /\ step'[x] = step[x] /\ results'[x] = results[x] BY <1>1, <1>4, OwnerMoves DEF Others, Live
  <2>2. Quiet BY <2>1, OwnerMoves DEF LoopInv, Alone, Live, Loop!Fence
  <2>3. Loop!Progress' = Loop!Progress /\ markers' = markers BY <2>2, SameProgress DEF Quiet
  <2> QED BY <1>2, <1>4, <2>1, <2>3 DEF Unsettled, Loop!Current
<1>5. ASSUME ~Loop!Claim(o), Live(o)', NEW i \in markers'
      PROVE  Loop!Progress'[i] # Loop!NoRow \/ (step'[o] \in InFlight /\ i = Loop!Current(o)')
               \/ (step'[o] = "emitting" /\ i = Len(results'[o]))
  <2>0. Live(o) BY <1>5, OwnerMoves DEF Live
  <2>1. step'[o] # "idle" BY <1>5 DEF Live
  <2>2. CASE Loop!Reuse(o) \/ Loop!Refuse(o) \/ Loop!Prepare(o)
    <3>1. UNCHANGED <<config, rows, markers>> /\ step[o] = "next" BY <2>2 DEF Loop!Reuse, Loop!Refuse, Loop!Prepare, Loop!run, Loop!At
    <3> QED BY <1>2, <1>5, <2>0, <3>1, SameProgress DEF Unsettled, InFlight
  <2>3. CASE Loop!Mark(o) \/ Loop!Begin(o)
    <3>1. UNCHANGED <<config, rows>> /\ step[o] = "next" BY <2>3 DEF Loop!Mark, Loop!Begin, Loop!At
    <3>2. \/ markers' = markers
          \/ markers' = markers \cup {Loop!Current(o)} /\ step'[o] = "marked" /\ results' = results
      BY <1>2, <2>1, <2>3 DEF Loop!Mark, Loop!Begin, Loop!Goto, Loop!Ends
    <3>3. Loop!Current(o)' = Loop!Current(o) \/ markers' = markers BY <3>2 DEF Loop!Current
    <3> QED BY <1>2, <1>5, <2>0, <3>1, <3>2, <3>3, SameProgress DEF Unsettled, InFlight
  <2>4. CASE Loop!Send(o)
    <3>1. UNCHANGED <<config, rows, markers, results>> /\ step[o] = "marked" /\ step'[o] = "sent"
      BY <1>2, <2>4 DEF Loop!Send, Loop!run, Loop!At, Loop!Goto
    <3> QED BY <1>2, <1>5, <2>0, <3>1, SameProgress DEF Unsettled, InFlight, Loop!Current
  <2>5. CASE Loop!Settle(o)
    <3>1. UNCHANGED <<config, rows>> /\ step[o] = "sent" /\ markers' \subseteq markers BY <2>5 DEF Loop!Settle, Loop!At
    <3>2. PICK entry : Loop!Makes(o, entry) BY <1>2, <2>1, <2>5 DEF Loop!Settle, Loop!Ends, Loop!Goto
    <3>3. step'[o] = "emitting" /\ results'[o] = Append(results[o], entry) BY <1>2, <3>2 DEF Loop!Makes, Loop!Goto
    <3>4. Len(results'[o]) = Loop!Current(o) BY <1>2, <3>3 DEF Loop!Current
    <3> QED BY <1>2, <1>5, <2>0, <3>1, <3>3, <3>4, SameProgress DEF Unsettled, InFlight
  <2>6. CASE Loop!SaveItem(o)
    <3>1. /\ rows' = [rows EXCEPT ![Len(results[o])] = results[o][Len(results[o])]]
          /\ UNCHANGED <<config, markers>> /\ step[o] = "emitting"
      BY <1>2, <2>1, <2>6 DEF Loop!SaveItem, Loop!Ends, Loop!Goto, Loop!At
    <3>2. Len(results[o]) \in 1 .. NumItems /\ results[o][Len(results[o])] \in Entries
      BY <1>2, <3>1 DEF LoopInv, Places, LoopTyped
    <3>3. \A y \in Loop!Items : (Loop!Progress[y] # Loop!NoRow \/ y = Len(results[o])) => Loop!Progress'[y] # Loop!NoRow
      BY <3>1, <3>2, EntryTyped DEF Loop!Progress, Loop!Legacy, LoopTyped, Loop!Items, LoopInv
    <3> QED BY <1>2, <1>5, <2>0, <3>1, <3>3 DEF Unsettled, InFlight
  <2>7. ~Loop!Pause(o) /\ ~Loop!SendFails(o) /\ ~Loop!Publish(o) /\ ~Loop!Crash(o)
    BY <1>2, <2>1 DEF Loop!Pause, Loop!SendFails, Loop!Publish, Loop!Crash, Loop!Ends, Loop!Goto
  <2> QED BY <1>5, <2>2, <2>3, <2>4, <2>5, <2>6, <2>7 DEF OwnerStep
<1> QED BY <1>3, <1>4, <1>5 DEF Unsettled

\* The configuration of a loop never changes, and each kind keeps to its records.
LEMMA KindsKept ==
  ASSUME LoopInv, NEW o \in Owners, OwnerStep(o)
  PROVE  Kinds'
<1>1. config' = config BY OwnerMoves
<1>2. Kinds /\ approval \in [Loop!Items -> Approvals] BY DEF LoopInv, LoopTyped
<1>3. CASE UNCHANGED <<stored, approval>> BY <1>1, <1>2, <1>3 DEF Kinds
<1>4. CASE Loop!Begin(o) \/ Loop!Pause(o)
  <2>1. config.gated /\ stored' = stored BY <1>4 DEF Loop!Begin, Loop!Pause
  <2> QED BY <1>1, <1>2, <2>1 DEF Kinds
<1>5. CASE Loop!Settle(o) BY <1>1, <1>2, <1>5 DEF Loop!Settle, Kinds
<1> QED BY <1>3, <1>4, <1>5
  DEF OwnerStep, Loop!Claim, Loop!Reuse, Loop!Refuse, Loop!Prepare, Loop!Mark, Loop!Send, Loop!SendFails, Loop!SaveItem, Loop!Publish, Loop!Crash, Loop!run

\* The marker precedes the request and leaves only with the settlement.
LEMMA OnRecordKept ==
  ASSUME LoopInv, NEW o \in Owners, OwnerStep(o)
  PROVE  OnRecord'
<1>1. /\ approval \in [Loop!Items -> Approvals] /\ sent \in [Loop!Items -> Nat] /\ OnRecord /\ Kinds
      /\ step \in [Owners -> Loop!Steps]
  BY DEF LoopInv, LoopTyped
<1>2. CASE UNCHANGED <<stored, approval, sent>> /\ markers \subseteq markers'
  BY <1>1, <1>2 DEF OnRecord, Loop!IsSettled
<1>3. CASE Loop!Begin(o) \/ Loop!Pause(o)
  <2>1. /\ UNCHANGED <<stored, sent>> /\ markers \subseteq markers'
        /\ \A i \in Loop!Items : approval[i] = "completed" => approval'[i] = "completed"
    BY <1>1, <1>3 DEF Loop!Begin, Loop!Pause
  <2> QED BY <1>1, <2>1 DEF OnRecord, Loop!IsSettled
<1>4. CASE Loop!Send(o)
  <2>1. step[o] = "marked" /\ UNCHANGED <<stored, approval, markers>>
        /\ sent' = [sent EXCEPT ![Loop!Current(o)] = @ + 1]
    BY <1>4 DEF Loop!Send, Loop!At, Loop!run
  <2>2. Loop!Current(o) \in markers BY <2>1 DEF LoopInv, Underway, InFlight
  <2> QED BY <1>1, <2>1, <2>2 DEF OnRecord, Loop!IsSettled
<1>5. CASE Loop!Settle(o)
  <2>1. sent' = sent BY <1>5 DEF Loop!Settle
  <2>2. CASE UNCHANGED <<markers, stored, approval>> BY <1>2, <2>1, <2>2
  <2>3. CASE /\ markers' = markers \ {Loop!Current(o)}
             /\ stored' = IF config.gated THEN stored ELSE stored \cup {Loop!Current(o)}
             /\ approval' = IF config.gated THEN [approval EXCEPT ![Loop!Current(o)] = "completed"]
                            ELSE approval
    <3>1. \A i \in Loop!Items : Loop!IsSettled(i) => Loop!IsSettled(i)' BY <1>1, <2>3 DEF Loop!IsSettled
    <3>2. Loop!Current(o) \in Loop!Items => Loop!IsSettled(Loop!Current(o)) \/ Loop!Current(o) \in stored' \/ approval'[Loop!Current(o)] = "completed"
      BY <1>1, <2>3
    <3>3. \A i \in Loop!Items : i \in markers => i \in markers' \/ i \in stored' \/ approval'[i] = "completed"
      BY <1>1, <2>3
    <3> QED BY <1>1, <2>1, <3>1, <3>3 DEF OnRecord, Loop!IsSettled
  <2> QED BY <1>5, <2>2, <2>3 DEF Loop!Settle
<1> QED BY <1>2, <1>3, <1>4, <1>5
  DEF OwnerStep, Loop!Claim, Loop!Reuse, Loop!Refuse, Loop!Prepare, Loop!Mark, Loop!SendFails, Loop!SaveItem, Loop!Publish, Loop!Crash, Loop!run

\* Making an entry for an item without progress.
LEMMA MakesUnsaved ==
  ASSUME LoopInv, NEW o \in Owners, NEW entry, Loop!Makes(o, entry), UNCHANGED <<config, rows>>,
         Loop!Progress[Loop!Current(o)] = Loop!NoRow
  PROVE  Loop!Progress'[Len(results'[o])] = Loop!NoRow
<1>1. results'[o] = Append(results[o], entry) /\ results[o] \in Seq(Entries)
  BY DEF Loop!Makes, LoopInv, LoopTyped
<1>2. Len(results'[o]) = Loop!Current(o) BY <1>1 DEF Loop!Current
<1> QED BY <1>2, SameProgress

\* An entry is made only for an item without progress, and the rows stay until it is saved.
LEMMA UnsavedKept ==
  ASSUME LoopInv, NEW o \in Owners, OwnerStep(o)
  PROVE  Unsaved'
<1>1. Others(o) BY OwnerTyped DEF LoopInv
<1>2. step \in [Owners -> Loop!Steps] BY DEF LoopInv, LoopTyped
<1>3. CASE Loop!Claim(o)
  <2>1. holder' = {o} /\ step'[o] # "emitting" BY <1>2, <1>3 DEF Loop!Claim, Loop!Goto
  <2> QED BY <2>1 DEF Unsaved, Loop!Fence
<1>4. ASSUME ~Loop!Claim(o), NEW x \in Owners \ {o}, Loop!Fence(x)', step'[x] = "emitting"
      PROVE  Loop!Progress'[Len(results'[x])] = Loop!NoRow
  <2>1. Live(x) /\ step[x] = "emitting" /\ results'[x] = results[x]
    BY <1>1, <1>4, OwnerMoves DEF Others, Live
  <2>2. Quiet BY <2>1, OwnerMoves DEF LoopInv, Alone, Live, Loop!Fence
  <2>3. Loop!Progress' = Loop!Progress BY <2>2, SameProgress DEF Quiet
  <2> QED BY <2>1, <2>3 DEF LoopInv, Unsaved, Live
<1>5. ASSUME ~Loop!Claim(o), Loop!Fence(o)', step'[o] = "emitting"
      PROVE  Loop!Progress'[Len(results'[o])] = Loop!NoRow
  <2>1. CASE Loop!Prepare(o) BY <2>1, MakesUnsaved DEF Loop!Prepare, Loop!Done, Loop!run
  <2>2. CASE Loop!Mark(o)
    <3>1. \E entry : Loop!Makes(o, entry) BY <1>2, <1>5, <2>2 DEF Loop!Mark, Loop!Goto
    <3> QED BY <2>2, <3>1, MakesUnsaved DEF Loop!Mark, Loop!Done
  <2>3. CASE Loop!Begin(o)
    <3>1. \E entry : Loop!Makes(o, entry) BY <1>2, <1>5, <2>3 DEF Loop!Begin, Loop!Goto, Loop!Ends
    <3> QED BY <2>3, <3>1, MakesUnsaved DEF Loop!Begin, Loop!Done
  <2>4. CASE Loop!Settle(o)
    <3>1. \E entry : Loop!Makes(o, entry) BY <1>2, <1>5, <2>4 DEF Loop!Settle, Loop!Goto, Loop!Ends
    <3>2. Loop!Progress[Loop!Current(o)] = Loop!NoRow BY <2>4 DEF LoopInv, Underway, InFlight, Loop!Settle, Loop!At
    <3>3. UNCHANGED <<config, rows>> BY <2>4 DEF Loop!Settle
    <3> QED BY <3>1, <3>2, <3>3, MakesUnsaved
  <2>5. ~Loop!Reuse(o) /\ ~Loop!Refuse(o) /\ ~Loop!Pause(o) /\ ~Loop!Send(o) /\ ~Loop!SendFails(o) /\ ~Loop!SaveItem(o)
        /\ ~Loop!Publish(o) /\ ~Loop!Crash(o)
    BY <1>2, <1>5 DEF Loop!Reuse, Loop!Refuse, Loop!Pause, Loop!Send, Loop!SendFails, Loop!SaveItem, Loop!Publish, Loop!Crash,
                      Loop!After, Loop!Ends, Loop!Goto
  <2> QED BY <1>5, <2>1, <2>2, <2>3, <2>4, <2>5 DEF OwnerStep
<1> QED BY <1>3, <1>4, <1>5 DEF Unsaved

\* Results that the rows hold exactly are given back by their marker.
LEMMA MarkerRestores ==
  ASSUME LoopTyped, NEW entries \in Seq(Entries), Len(entries) <= NumItems
  PROVE  Loop!Hydrate(Loop!Compact(entries)) = entries
<1> DEFINE n == Len(entries)
           exact == \A i \in Loop!Items : rows[i] = IF i <= n THEN entries[i] ELSE Loop!NoRow
<1>1. CASE ~(entries # <<>> /\ exact)
  <2>1. Loop!Compact(entries) = [entries |-> entries] BY <1>1 DEF Loop!Compact
  <2> QED BY <2>1 DEF Loop!Hydrate
<1>2. CASE entries # <<>> /\ exact
  <2> DEFINE c == [count |-> n, digest |-> entries]
  <2>1. Loop!Compact(entries) = c BY <1>2 DEF Loop!Compact
  <2>2. "entries" \notin DOMAIN c /\ c.count = n /\ c.digest = entries OBVIOUS
  <2>3. n \in Nat /\ n <= NumItems /\ NumItems \in Nat /\ Loop!Items = 1 .. NumItems
    BY DEF LoopTyped, Loop!Items
  <2>4. \A i \in Loop!Items : (rows[i] # Loop!NoRow) <=> (i <= n)
    BY <1>2, <2>3, EntryTyped
  <2>5. rows \in Seq(Entries \cup {Loop!NoRow}) /\ Len(rows) = NumItems
    BY <2>3 DEF LoopTyped
  <2>6. SubSeq(rows, 1, n) = entries
    <3>1. SubSeq(rows, 1, n) \in Seq(Entries \cup {Loop!NoRow}) /\ Len(SubSeq(rows, 1, n)) = n
      BY <2>3, <2>5
    <3>2. \A i \in 1 .. n : SubSeq(rows, 1, n)[i] = rows[i] BY <2>3, <2>5
    <3>3. \A i \in 1 .. n : rows[i] = entries[i] BY <1>2, <2>3
    <3> QED BY <2>3, <3>1, <3>2, <3>3
  <2> HIDE DEF c
  <2> QED BY <2>1, <2>2, <2>4, <2>6 DEF Loop!Hydrate
<1> QED BY <1>1, <1>2

\* The checkpoint is written at the end by the holder, and nobody holds the run beside it.
LEMMA KeptKept ==
  ASSUME LoopInv, NEW o \in Owners, OwnerStep(o)
  PROVE  Kept'
<1>1. Others(o) BY OwnerTyped DEF LoopInv
<1>2. step \in [Owners -> Loop!Steps] BY DEF LoopInv, LoopTyped
<1>3. CASE Loop!Publish(o) /\ Loop!Fence(o) /\ checkpoint' = <<Loop!Compact(results[o])>> /\ answer' = results[o]
  <2>1. step' = [step EXCEPT ![o] = "idle"] /\ UNCHANGED <<rows, holder>> /\ step[o] = "finished"
    BY <1>3 DEF Loop!Publish, Loop!Ends, Loop!Goto, Loop!At
  <2>2. results[o] \in Seq(Entries) /\ Len(results[o]) <= NumItems
    BY <2>1 DEF LoopInv, LoopTyped, Places
  <2>3. Loop!Hydrate(Loop!Compact(results[o])) = results[o] BY <2>2, MarkerRestores DEF LoopInv
  <2>4. checkpoint'[1] = Loop!Compact(results[o]) BY <1>3
  <2>5. Loop!Hydrate(Loop!Compact(results[o]))' = Loop!Hydrate(Loop!Compact(results[o]))' OBVIOUS
  <2>6. \A c : Loop!Hydrate(c)' = Loop!Hydrate(c) BY <2>1 DEF Loop!Hydrate
  <2>7. \A x \in Owners : Loop!Fence(x)' => step'[x] = "idle" BY <1>2, <1>3, <2>1 DEF Loop!Fence
  <2> QED BY <1>3, <2>3, <2>4, <2>6, <2>7 DEF Kept
<1>4. CASE UNCHANGED <<checkpoint, answer>>
  <2>1. CASE checkpoint = <<>> BY <1>4, <2>1 DEF Kept
  <2>2. CASE checkpoint # <<>>
    <3>1. \A x \in Owners : ~Live(x) BY <2>2 DEF LoopInv, Kept, Live
    <3>2. rows' = rows BY <3>1, OwnerMoves
    <3>3. Loop!Hydrate(checkpoint[1])' = Loop!Hydrate(checkpoint[1]) BY <1>4, <3>2 DEF Loop!Hydrate
    <3>4. \A x \in Owners : Loop!Fence(x)' => step'[x] = "idle"
      <4>1. CASE Loop!Claim(o)
        <5>1. holder' = {o} /\ step'[o] = "idle" BY <1>2, <2>2, <4>1 DEF Loop!Claim, Loop!Goto
        <5> QED BY <5>1 DEF Loop!Fence
      <4>2. CASE ~Loop!Claim(o)
        <5>1. step[o] # "idle" /\ \A x \in Owners : Loop!Fence(x)' => Loop!Fence(x) BY <4>2, OwnerMoves
        <5>2. \A x \in Owners : Loop!Fence(x) => step[x] = "idle" BY <3>1 DEF Live
        <5> QED BY <1>1, <5>1, <5>2 DEF Others
      <4> QED BY <4>1, <4>2
    <3> QED BY <1>4, <2>2, <3>3, <3>4 DEF LoopInv, Kept
  <2> QED BY <2>1, <2>2
<1> QED BY <1>3, <1>4
  DEF OwnerStep, Loop!Claim, Loop!Reuse, Loop!Refuse, Loop!Prepare, Loop!Mark, Loop!Begin, Loop!Pause, Loop!Send, Loop!SendFails, Loop!Settle,
      Loop!SaveItem, Loop!Publish, Loop!Crash, Loop!run

\* A step of an attempt keeps the invariant.
LEMMA OwnerKeeps ==
  ASSUME LoopInv, NEW o \in Owners, OwnerStep(o)
  PROVE  LoopInv'
<1>1. LoopTyped' /\ Places' BY OwnerTyped DEF LoopInv
<1> QED BY <1>1, KindsKept, AloneKept, UnderwayKept, UnsettledKept, OnRecordKept, UnsavedKept,
           KeptKept DEF LoopInv

\* A decision touches one pending approval, whose write is not under way.
LEMMA DecisionKeeps ==
  ASSUME LoopInv, NEW i \in Loop!Items, Loop!Decide(i)
  PROVE  LoopInv'
<1>1. /\ approval' \in [Loop!Items -> Approvals] /\ approval \in [Loop!Items -> Approvals]
      /\ approval[i] = "pending" /\ approval'[i] \in {"approved", "rejected"}
      /\ \A j \in Loop!Items \ {i} : approval'[j] = approval[j]
      /\ UNCHANGED <<config, rows, checkpoint, markers, stored, holder, fresh, step, results, sent, answer>>
  BY DEF LoopInv, LoopTyped, Loop!Decide, Approvals
<1>2. LoopTyped' /\ Places' BY <1>1 DEF LoopInv, LoopTyped, Places
<1>3. Kinds' BY <1>1 DEF LoopInv, Kinds
<1>4. Loop!Progress' = Loop!Progress BY <1>1, SameProgress
<1>5. Alone' BY <1>1 DEF LoopInv, Alone, Live, Loop!Fence
<1>6. Underway'
  <2> SUFFICES ASSUME NEW o \in Owners, step[o] \in InFlight
               PROVE  /\ Loop!Current(o) \in markers /\ Loop!Current(o) \notin stored
                      /\ config.gated => approval'[Loop!Current(o)] = "executing"
                      /\ Loop!Progress[Loop!Current(o)] = Loop!NoRow
                      /\ sent[Loop!Current(o)] > 0 <=> step[o] = "sent"
    BY <1>1, <1>4 DEF Underway, Loop!Current
  <2>1. /\ Loop!Current(o) \in markers /\ Loop!Current(o) \notin stored
        /\ config.gated => approval[Loop!Current(o)] = "executing"
        /\ Loop!Progress[Loop!Current(o)] = Loop!NoRow
        /\ sent[Loop!Current(o)] > 0 <=> step[o] = "sent"
    BY DEF LoopInv, Underway
  <2>2. Loop!Current(o) \in Loop!Items BY <2>1 DEF LoopInv, LoopTyped
  <2> QED BY <1>1, <2>1, <2>2
<1>7. Unsettled' BY <1>1, <1>4 DEF LoopInv, Unsettled, Live, Loop!Fence, Loop!Current
<1>8. OnRecord' BY <1>1 DEF LoopInv, OnRecord, Loop!IsSettled
<1>9. Unsaved' BY <1>1, <1>4 DEF LoopInv, Unsaved, Loop!Fence
<1>10. Kept' BY <1>1 DEF LoopInv, Kept, Loop!Fence, Loop!Hydrate
<1> QED BY <1>2, <1>3, <1>5, <1>6, <1>7, <1>8, <1>9, <1>10 DEF LoopInv

\* Nothing changes, nothing breaks.
LEMMA StutterKeeps == LoopInv /\ UNCHANGED Loop!vars => LoopInv'
<1> SUFFICES ASSUME LoopInv, UNCHANGED Loop!vars PROVE LoopInv' OBVIOUS
<1> USE DEF Loop!vars, Loop!run
<1>1. Loop!Progress' = Loop!Progress BY SameProgress
<1>2. LoopTyped' /\ Places' /\ Kinds' BY DEF LoopInv, LoopTyped, Places, Kinds
<1>3. Alone' BY DEF LoopInv, Alone, Live, Loop!Fence
<1>4. Underway' BY <1>1 DEF LoopInv, Underway, Loop!Current
<1>5. Unsettled' BY <1>1 DEF LoopInv, Unsettled, Live, Loop!Fence, Loop!Current
<1>6. OnRecord' BY DEF LoopInv, OnRecord, Loop!IsSettled
<1>7. Unsaved' BY <1>1 DEF LoopInv, Unsaved, Loop!Fence
<1>8. Kept' BY DEF LoopInv, Kept, Loop!Fence, Loop!Hydrate
<1> QED BY <1>2, <1>3, <1>4, <1>5, <1>6, <1>7, <1>8 DEF LoopInv

\* The initial states satisfy the invariant.
LEMMA InitInv == NumItems \in Nat /\ Loop!Init => LoopInv
<1> SUFFICES ASSUME NumItems \in Nat, Loop!Init PROVE LoopInv OBVIOUS
<1>1. LoopTyped BY DEF Loop!Init, LoopTyped, Approvals, Loop!Steps
<1> QED BY <1>1 DEF Loop!Init, LoopInv, Places, Kinds, Alone, Live, Loop!Fence, Underway, Unsettled, OnRecord,
                     Unsaved, Kept, InFlight

\* Every step keeps it.
LEMMA StepInv == LoopInv /\ [Loop!Next]_(Loop!vars) => LoopInv'
<1> SUFFICES ASSUME LoopInv, [Loop!Next]_(Loop!vars) PROVE LoopInv' OBVIOUS
<1>1. (\E o \in Owners : OwnerStep(o)) \/ (\E i \in Loop!Items : Loop!Decide(i)) \/ UNCHANGED Loop!vars
  BY DEF Loop!Next, OwnerStep
<1> QED BY <1>1, OwnerKeeps, DecisionKeeps, StutterKeeps

-----------------------------------------------------------------------------
\* What a finished item has: its entry stays, and nothing more is sent for it.
FinishedStays == \A i \in Loop!Items : Loop!Progress[i] # Loop!NoRow =>
  Loop!Progress'[i] = Loop!Progress[i] /\ sent'[i] = sent[i]

\* At most one request leaves for an item, over all attempts.
SentAtMostOnce == \A i \in Loop!Items : sent[i] <= 1

\* Only Send hands a request to the transport.
LEMMA SentMoves ==
  ASSUME LoopInv, NEW o \in Owners, OwnerStep(o)
  PROVE  sent' = sent \/ Loop!Send(o)
BY DEF OwnerStep, Loop!Claim, Loop!Reuse, Loop!Refuse, Loop!Prepare, Loop!Mark, Loop!Begin, Loop!Pause, Loop!SendFails, Loop!Settle,
       Loop!SaveItem, Loop!Publish, Loop!Crash

\* What is known of the item whose request leaves.
LEMMA AtSend ==
  ASSUME LoopInv, NEW o \in Owners, Loop!Send(o)
  PROVE  /\ Loop!Current(o) \in Loop!Items /\ Loop!Current(o) \in markers /\ ~Loop!IsSettled(Loop!Current(o))
         /\ sent[Loop!Current(o)] = 0 /\ sent' = [sent EXCEPT ![Loop!Current(o)] = 1]
         /\ Loop!Progress[Loop!Current(o)] = Loop!NoRow
<1>1. step[o] = "marked" /\ sent' = [sent EXCEPT ![Loop!Current(o)] = @ + 1] BY DEF Loop!Send, Loop!At
<1>2. Loop!Current(o) \in Loop!Items /\ sent[Loop!Current(o)] \in Nat BY <1>1, CurrentTyped DEF LoopInv
<1>3. /\ Loop!Current(o) \in markers /\ Loop!Current(o) \notin stored /\ Loop!Progress[Loop!Current(o)] = Loop!NoRow
      /\ config.gated => approval[Loop!Current(o)] = "executing"
      /\ ~(sent[Loop!Current(o)] > 0)
  BY <1>1 DEF LoopInv, Underway, InFlight
<1>4. sent[Loop!Current(o)] = 0 BY <1>2, <1>3
<1>5. ~Loop!IsSettled(Loop!Current(o)) BY <1>2, <1>3 DEF LoopInv, Kinds, Loop!IsSettled
<1>6. sent' = [sent EXCEPT ![Loop!Current(o)] = 1] BY <1>1, <1>2, <1>4
<1> QED BY <1>2, <1>3, <1>4, <1>5, <1>6

\* A row is written once, and requests leave only for items without one.
LEMMA FinishedKept == LoopInv /\ [Loop!Next]_(Loop!vars) => FinishedStays
<1> SUFFICES ASSUME LoopInv, [Loop!Next]_(Loop!vars), NEW i \in Loop!Items, Loop!Progress[i] # Loop!NoRow
             PROVE  Loop!Progress'[i] = Loop!Progress[i] /\ sent'[i] = sent[i]
  BY DEF FinishedStays
<1>0. LoopTyped /\ sent \in [Loop!Items -> Nat] BY DEF LoopInv, LoopTyped
<1>1. ASSUME NEW o \in Owners, OwnerStep(o)
      PROVE  Loop!Progress'[i] = Loop!Progress[i] /\ sent'[i] = sent[i]
  <2>1. sent'[i] = sent[i] BY <1>0, <1>1, SentMoves, AtSend
  <2>2. config' = config BY <1>1, OwnerMoves
  <2>3. CASE rows' = rows BY <2>1, <2>2, <2>3, SameProgress
  <2>4. CASE Loop!SaveItem(o) /\ Live(o) /\ rows' # rows
    <3>1. /\ rows' = [rows EXCEPT ![Len(results[o])] = results[o][Len(results[o])]]
          /\ step[o] = "emitting" /\ Loop!Fence(o)
      BY <2>4 DEF Loop!SaveItem, Loop!At, Live
    <3>2. i # Len(results[o]) BY <3>1 DEF LoopInv, Unsaved
    <3>3. rows'[i] = rows[i] BY <1>0, <3>1, <3>2 DEF LoopTyped
    <3> QED BY <2>1, <2>2, <3>3 DEF Loop!Progress, Loop!Legacy
  <2> QED BY <1>1, <2>3, <2>4, OwnerMoves
<1>2. CASE (\E j \in Loop!Items : Loop!Decide(j)) \/ UNCHANGED Loop!vars
  BY <1>2, SameProgress DEF Loop!Decide, Loop!vars, Loop!run
<1> QED BY <1>1, <1>2 DEF Loop!Next, OwnerStep

\* The request that leaves is the first one of its item.
LEMMA OnceKept == LoopInv /\ SentAtMostOnce /\ [Loop!Next]_(Loop!vars) => SentAtMostOnce'
<1> SUFFICES ASSUME LoopInv, SentAtMostOnce, [Loop!Next]_(Loop!vars) PROVE SentAtMostOnce' OBVIOUS
<1>0. sent \in [Loop!Items -> Nat] BY DEF LoopInv, LoopTyped
<1>1. ASSUME NEW o \in Owners, OwnerStep(o) PROVE SentAtMostOnce'
  BY <1>0, <1>1, SentMoves, AtSend DEF SentAtMostOnce
<1>2. CASE (\E j \in Loop!Items : Loop!Decide(j)) \/ UNCHANGED Loop!vars
  BY <1>2 DEF SentAtMostOnce, Loop!Decide, Loop!vars, Loop!run
<1> QED BY <1>1, <1>2 DEF Loop!Next, OwnerStep

-----------------------------------------------------------------------------
\* What the promise says of one item; Phase(i) is WritePhase[i].
Phase(i) == IF Loop!IsSettled(i) THEN "settled"
            ELSE IF sent[i] > 0 THEN "sent"
            ELSE IF i \in markers THEN "marked" ELSE "idle"

\* The phases of all items, now and after the step.
LEMMA WritePhaseIs ==
  /\ Loop!WritePhase = [i \in Loop!Items |-> Phase(i)]
  /\ Loop!WritePhase' = [i \in Loop!Items |-> Phase(i)']
BY DEF Loop!WritePhase, Phase

\* One item moves to a phase and the others stay.
LEMMA PhaseMoves ==
  ASSUME NEW i \in Loop!Items, NEW p, Phase(i)' = p, \A j \in Loop!Items \ {i} : Phase(j)' = Phase(j)
  PROVE  Loop!WritePhase' = [Loop!WritePhase EXCEPT ![i] = p]
BY WritePhaseIs

\* No item moves.
LEMMA PhasesStay ==
  ASSUME \A i \in Loop!Items : Phase(i)' = Phase(i)
  PROVE  Loop!WritePhase' = Loop!WritePhase
BY WritePhaseIs

\* A new marker is the Mark of the promise.
LEMMA WriteIntended ==
  ASSUME LoopInv, NEW o \in Owners, Loop!Mark(o) \/ Loop!Begin(o), markers' # markers
  PROVE  Loop!ItemWrites!Mark(Loop!Current(o))
<1>a. step[o] = "next" BY DEF Loop!Mark, Loop!Begin, Loop!At
<1>b. PICK i \in Loop!Items : i = Loop!Current(o) BY <1>a, CurrentTyped DEF LoopInv
<1>0. approval \in [Loop!Items -> Approvals] BY DEF LoopInv, LoopTyped
<1>1. /\ step[o] = "next" /\ Loop!Fence(o) /\ ~Loop!Done(o) /\ markers' = markers \cup {i} /\ i \notin stored
      /\ UNCHANGED <<stored, sent>> /\ (config.gated => approval[i] # "completed")
      /\ (\A j \in Loop!Items \ {i} : approval'[j] = approval[j])
      /\ (approval' = approval \/ approval'[i] = "executing")
  <2>1. CASE Loop!Mark(o) BY <1>b, <2>1 DEF Loop!Mark, Loop!At
  <2>2. CASE Loop!Begin(o)
    <3>1. approval[i] = "approved" BY <1>b, <2>2 DEF Loop!Begin
    <3>2. stored = {} BY <2>2 DEF LoopInv, Kinds, Loop!Begin
    <3>3. i \in Loop!Items OBVIOUS
    <3> QED BY <1>0, <1>b, <2>2, <3>1, <3>2, <3>3 DEF Loop!Begin, Loop!At
  <2> QED BY <2>1, <2>2
<1>2. i \in Loop!Items /\ i \notin markers /\ sent[i] = 0 BY <1>1, <1>b, Untouched
<1>3. ~Loop!IsSettled(i) BY <1>1, <1>2 DEF LoopInv, Kinds, Loop!IsSettled
<1>4. Phase(i) = "idle" BY <1>2, <1>3 DEF Phase
<1>5. Phase(i)' = "marked"
  <2>1. i \notin stored' /\ approval'[i] # "completed" BY <1>1, <1>2, <1>3 DEF Loop!IsSettled
  <2>2. i \in markers' /\ ~(sent'[i] > 0) BY <1>1, <1>2
  <2> QED BY <2>1, <2>2 DEF Phase, Loop!IsSettled
<1>6. \A j \in Loop!Items \ {i} : Phase(j)' = Phase(j) BY <1>1 DEF Phase, Loop!IsSettled
<1>7. Loop!WritePhase[i] = "idle" /\ Loop!WritePhase' = [Loop!WritePhase EXCEPT ![i] = "marked"]
  BY <1>2, <1>4, <1>5, <1>6, PhaseMoves, WritePhaseIs
<1> QED BY <1>1, <1>7, <1>b DEF Loop!ItemWrites!Mark

\* A request is the Send of the promise.
LEMMA WriteSent ==
  ASSUME LoopInv, NEW o \in Owners, Loop!Send(o)
  PROVE  Loop!ItemWrites!Send(Loop!Current(o))
<1>b. PICK i \in Loop!Items : i = Loop!Current(o) BY AtSend
<1>1. i \in Loop!Items /\ i \in markers /\ ~Loop!IsSettled(i) /\ sent[i] = 0 /\ sent' = [sent EXCEPT ![i] = 1]
  BY <1>b, AtSend
<1>2. UNCHANGED <<stored, approval, markers>> BY DEF Loop!Send, Loop!run
<1>3. sent \in [Loop!Items -> Nat] BY DEF LoopInv, LoopTyped
<1>4. Phase(i) = "marked" BY <1>1 DEF Phase
<1>5. Phase(i)' = "sent" BY <1>1, <1>2, <1>3 DEF Phase, Loop!IsSettled
<1>6. \A j \in Loop!Items \ {i} : Phase(j)' = Phase(j) BY <1>1, <1>2, <1>3 DEF Phase, Loop!IsSettled
<1>7. Loop!WritePhase[i] = "marked" /\ Loop!WritePhase' = [Loop!WritePhase EXCEPT ![i] = "sent"]
  BY <1>1, <1>4, <1>5, <1>6, PhaseMoves, WritePhaseIs
<1>8. sent' = [sent EXCEPT ![i] = @ + 1] BY <1>1, <1>3
<1> QED BY <1>7, <1>8, <1>b DEF Loop!ItemWrites!Send

\* A settlement is the Settle of the promise; one that is refused changes nothing.
LEMMA WriteSettled ==
  ASSUME LoopInv, NEW o \in Owners, Loop!Settle(o)
  PROVE  Loop!ItemWrites!Settle(Loop!Current(o)) \/ UNCHANGED <<Loop!WritePhase, sent>>
<1>a. step[o] = "sent" BY DEF Loop!Settle, Loop!At
<1>b. PICK i \in Loop!Items : i = Loop!Current(o) BY <1>a, CurrentTyped DEF LoopInv
<1>1. step[o] = "sent" /\ UNCHANGED <<config, sent>> BY DEF Loop!Settle, Loop!At
<1>2. /\ i \in Loop!Items /\ i \notin stored /\ sent[i] > 0 /\ (config.gated => approval[i] = "executing")
  BY <1>1, <1>b DEF LoopInv, Underway, InFlight
<1>3. ~Loop!IsSettled(i) BY <1>2 DEF LoopInv, Kinds, Loop!IsSettled
<1>4. CASE UNCHANGED <<markers, stored, approval>>
  <2>1. \A j \in Loop!Items : Phase(j)' = Phase(j) BY <1>1, <1>4 DEF Phase, Loop!IsSettled
  <2> QED BY <1>1, <2>1, PhasesStay
<1>5. CASE /\ markers' = markers \ {i}
           /\ stored' = IF config.gated THEN stored ELSE stored \cup {i}
           /\ approval' = IF config.gated THEN [approval EXCEPT ![i] = "completed"] ELSE approval
  <2>0. approval \in [Loop!Items -> Approvals] BY DEF LoopInv, LoopTyped
  <2>1. Phase(i) = "sent" BY <1>2, <1>3 DEF Phase
  <2>2. i \in stored' \/ approval'[i] = "completed" BY <1>2, <1>5, <2>0
  <2>3. Phase(i)' = "settled" BY <2>2 DEF Phase, Loop!IsSettled
  <2>4. \A j \in Loop!Items \ {i} : Phase(j)' = Phase(j) BY <1>1, <1>5, <2>0 DEF Phase, Loop!IsSettled
  <2>5. Loop!WritePhase[i] = "sent" /\ Loop!WritePhase' = [Loop!WritePhase EXCEPT ![i] = "settled"]
    BY <1>2, <2>1, <2>3, <2>4, PhaseMoves, WritePhaseIs
  <2> QED BY <1>1, <2>5, <1>b DEF Loop!ItemWrites!Settle
<1> QED BY <1>b, <1>4, <1>5 DEF Loop!Settle

\* The other steps change no phase.
LEMMA WritesStay ==
  ASSUME LoopInv, NEW o \in Owners, OwnerStep(o), ~Loop!Send(o), ~Loop!Settle(o), markers' = markers
  PROVE  UNCHANGED <<Loop!WritePhase, sent>>
<1>1. sent' = sent BY SentMoves
<1>2. approval \in [Loop!Items -> Approvals] BY DEF LoopInv, LoopTyped
<1>3. stored' = stored
  BY DEF OwnerStep, Loop!Claim, Loop!Reuse, Loop!Refuse, Loop!Prepare, Loop!Mark, Loop!Begin, Loop!Pause, Loop!SendFails, Loop!SaveItem,
         Loop!Publish, Loop!Crash, Loop!run
<1>4. \A j \in Loop!Items : (approval'[j] = "completed") <=> (approval[j] = "completed")
  <2>1. CASE Loop!Begin(o)
    <3>1. Loop!Current(o) \in Loop!Items /\ step[o] = "next" /\ Loop!Fence(o) /\ ~Loop!Done(o) BY <2>1, CurrentTyped DEF LoopInv, Loop!Begin, Loop!At
    <3> QED BY <1>2, <2>1, <3>1 DEF Loop!Begin
  <2>2. CASE Loop!Pause(o)
    <3>1. Loop!Current(o) \in Loop!Items BY <2>2, CurrentTyped DEF LoopInv, Loop!Pause, Loop!At
    <3> QED BY <1>2, <2>2, <3>1 DEF Loop!Pause
  <2>3. CASE approval' = approval BY <2>3
  <2> QED BY <2>1, <2>2, <2>3
    DEF OwnerStep, Loop!Claim, Loop!Reuse, Loop!Refuse, Loop!Prepare, Loop!Mark, Loop!SendFails, Loop!SaveItem, Loop!Publish, Loop!Crash, Loop!run
<1>5. \A j \in Loop!Items : Phase(j)' = Phase(j) BY <1>1, <1>3, <1>4 DEF Phase, Loop!IsSettled
<1> QED BY <1>1, <1>5, PhasesStay

\* The initial states are initial states of the promise.
LEMMA InitWrites == NumItems \in Nat /\ Loop!Init => Loop!ItemWrites!Init
BY DEF Loop!Init, Loop!ItemWrites!Init, Loop!WritePhase, Loop!IsSettled

\* Every step is a step of the promise or leaves it alone.
LEMMA StepWrites == LoopInv /\ [Loop!Next]_(Loop!vars) => [Loop!ItemWrites!Next]_(Loop!ItemWrites!vars)
<1> SUFFICES ASSUME LoopInv, [Loop!Next]_(Loop!vars)
             PROVE  (\E i \in Loop!Items : Loop!ItemWrites!Mark(i) \/ Loop!ItemWrites!Send(i) \/ Loop!ItemWrites!Settle(i))
                    \/ UNCHANGED <<Loop!WritePhase, sent>>
  BY DEF Loop!ItemWrites!Next, Loop!ItemWrites!vars
<1>1. ASSUME NEW o \in Owners, OwnerStep(o)
      PROVE  (\E i \in Loop!Items : Loop!ItemWrites!Mark(i) \/ Loop!ItemWrites!Send(i) \/ Loop!ItemWrites!Settle(i))
             \/ UNCHANGED <<Loop!WritePhase, sent>>
  <2>1. CASE Loop!Send(o)
    <3>1. Loop!Current(o) \in Loop!Items BY <2>1, AtSend
    <3> QED BY <2>1, <3>1, WriteSent
  <2>2. CASE Loop!Settle(o)
    <3>1. Loop!Current(o) \in Loop!Items BY <2>2, CurrentTyped DEF LoopInv, Loop!Settle, Loop!At
    <3> QED BY <2>2, <3>1, WriteSettled
  <2>3. CASE (Loop!Mark(o) \/ Loop!Begin(o)) /\ markers' # markers
    <3>1. Loop!Current(o) \in Loop!Items BY <2>3, CurrentTyped DEF LoopInv, Loop!Mark, Loop!Begin, Loop!At
    <3> QED BY <2>3, <3>1, WriteIntended
  <2>4. CASE ~Loop!Send(o) /\ ~Loop!Settle(o) /\ ~((Loop!Mark(o) \/ Loop!Begin(o)) /\ markers' # markers)
    <3>1. markers' = markers
      BY <1>1, <2>4 DEF OwnerStep, Loop!Claim, Loop!Reuse, Loop!Refuse, Loop!Prepare, Loop!Pause, Loop!SendFails, Loop!SaveItem,
                        Loop!Publish, Loop!Crash, Loop!run
    <3> QED BY <1>1, <2>4, <3>1, WritesStay
  <2> QED BY <2>1, <2>2, <2>3, <2>4
<1>2. CASE \E j \in Loop!Items : Loop!Decide(j)
  <2>1. approval \in [Loop!Items -> Approvals] BY DEF LoopInv, LoopTyped
  <2>2. \A j \in Loop!Items : Phase(j)' = Phase(j) BY <1>2, <2>1 DEF Loop!Decide, Phase, Loop!IsSettled
  <2> QED BY <1>2, <2>2, PhasesStay DEF Loop!Decide
<1>3. CASE UNCHANGED Loop!vars
  <2>1. \A j \in Loop!Items : Phase(j)' = Phase(j) BY <1>3 DEF Loop!vars, Loop!run, Phase, Loop!IsSettled
  <2> QED BY <1>3, <2>1, PhasesStay DEF Loop!vars
<1> QED BY <1>1, <1>2, <1>3 DEF Loop!Next, OwnerStep

-----------------------------------------------------------------------------
\* Every variable always has its type.
THEOREM LoopTypeCorrect == NumItems \in Nat /\ Loop!Spec => []LoopTyped
<1>1. NumItems \in Nat /\ Loop!Init => LoopInv BY InitInv
<1>2. LoopInv /\ [Loop!Next]_(Loop!vars) => LoopInv' BY StepInv
<1>3. LoopInv => LoopTyped BY DEF LoopInv
<1> QED BY <1>1, <1>2, <1>3, PTL DEF Loop!Spec

\* The checkpoint of a loop gives back exactly what its handler returned: the
\* rows behind a marker are those of the attempt that wrote it, and no later
\* attempt and no late one changes them (_compact_loop, _hydrate_loop).
THEOREM LoopRestored == NumItems \in Nat /\ Loop!Spec => []Loop!RestoredAsReturned
<1>1. NumItems \in Nat /\ Loop!Init => LoopInv BY InitInv
<1>2. LoopInv /\ [Loop!Next]_(Loop!vars) => LoopInv' BY StepInv
<1>3. LoopInv => Loop!RestoredAsReturned BY DEF LoopInv, Kept, Loop!RestoredAsReturned
<1> QED BY <1>1, <1>2, <1>3, PTL DEF Loop!Spec

\* An item with a row, or with an entry of a former release, keeps its entry
\* and has nothing sent for it again, whichever attempt runs (_document, Loop).
THEOREM FinishedItemsStay == NumItems \in Nat /\ Loop!Spec => [][FinishedStays]_(Loop!vars)
<1>1. NumItems \in Nat /\ Loop!Init => LoopInv BY InitInv
<1>2. LoopInv /\ [Loop!Next]_(Loop!vars) => LoopInv' BY StepInv
<1>3. LoopInv /\ [Loop!Next]_(Loop!vars) => [FinishedStays]_(Loop!vars) BY FinishedKept
<1> QED BY <1>1, <1>2, <1>3, PTL DEF Loop!Spec

\* Over crashes, stalls, pauses and resumed runs, at most one request leaves
\* for an item (write_nodes, check_resume_writes, run_loop_items).
THEOREM ItemsSentOnce == NumItems \in Nat /\ Loop!Spec => []SentAtMostOnce
<1>1. NumItems \in Nat /\ Loop!Init => LoopInv /\ SentAtMostOnce BY InitInv DEF Loop!Init, SentAtMostOnce
<1>2. LoopInv /\ [Loop!Next]_(Loop!vars) => LoopInv' BY StepInv
<1>3. LoopInv /\ SentAtMostOnce /\ [Loop!Next]_(Loop!vars) => SentAtMostOnce' BY OnceKept
<1> QED BY <1>1, <1>2, <1>3, PTL DEF Loop!Spec

\* The writes of a loop's items implement WriteOnce: the intent is on record
\* before the request, and only what was sent is ever settled.
THEOREM KeepsThePromise == NumItems \in Nat /\ Loop!Spec => Loop!ItemWrites!Spec
<1>1. NumItems \in Nat /\ Loop!Init => LoopInv /\ Loop!ItemWrites!Init BY InitInv, InitWrites
<1>2. LoopInv /\ [Loop!Next]_(Loop!vars) => LoopInv' BY StepInv
<1>3. LoopInv /\ [Loop!Next]_(Loop!vars) => [Loop!ItemWrites!Next]_(Loop!ItemWrites!vars) BY StepWrites
<1> QED BY <1>1, <1>2, <1>3, PTL DEF Loop!Spec, Loop!ItemWrites!Spec

-----------------------------------------------------------------------------
(***************************************************************************)
(* EventStream: a status that is shown has all its events with it.         *)
(***************************************************************************)
CONSTANTS Writers, MaxEvents, Page
VARIABLES log, status, tx, open, stream, wire, view, late
Events == INSTANCE EventStream

\* The types of the stream, of its messages and of the view.
NoWord == ""
Words == Events!Statuses \cup {NoWord, "unauthorized"}
Streams == [at : {"off", "check", "page"}, cursor : Int, status : Words, due : Nat]
Messages == [event : {"node", "done"}, seq : Int, status : Words, due : Nat]
Views == [at : {"live", "finishing", "finished", "polling", "polled", "over"}, events : Seq(Nat),
          status : Words, due : Nat]

\* Every variable has its type; a page has room for an event.
EventsTyped ==
  /\ Page \in Nat \ {0}
  /\ log \in Seq(Nat) /\ status \in Events!Statuses /\ open \in BOOLEAN /\ late \in Nat
  /\ tx \in [Writers -> Int]
  /\ stream \in Streams /\ wire \in Seq(Messages) /\ view \in Views

\* The number that is taken is that of the next event, and one has it.
Numbers ==
  /\ \A i \in DOMAIN log : log[i] = i - 1
  /\ \A w \in Writers : tx[w] # -1 => tx[w] = Len(log) /\ \A v \in Writers : tx[v] # -1 => v = w

\* What is shown, and what is on its way to a view that follows the stream.
Shows ==
  /\ \A i \in DOMAIN view.events : view.events[i] = i - 1
  /\ Len(view.events) <= Len(log) /\ view.due <= Len(log)
  /\ view.at \notin {"finished", "polled"} => Len(view.events) >= view.due
  /\ view.at = "live" => view.due = 0
  /\ view.at # "live" => stream.at = "off"

\* The next to arrive is the next to be shown, and done comes last.
Comes == view.at = "live" => \A i \in DOMAIN wire :
  /\ wire[i].event = "node" => wire[i].seq = Len(view.events) + i - 1 /\ wire[i].seq < Len(log)
  /\ wire[i].event = "done" => /\ i = Len(wire) /\ stream.at = "off"
                               /\ wire[i].due < Len(view.events) + i

\* The cursor is where the messages on their way end; a session that has ended
\* gets the page it was checked for.
Serves ==
  /\ stream.due <= Len(log) /\ late <= Page
  /\ stream.at # "off" => stream.cursor + 1 = Len(view.events) + Len(wire) /\ stream.cursor < Len(log)
  /\ stream.at = "page" => late = 0
  /\ open => late = 0

\* The inductive invariant of the history.
EventsInv == EventsTyped /\ Numbers /\ Shows /\ Comes /\ Serves

-----------------------------------------------------------------------------
\* The constants of the stream have their types.
LEMMA ConstantsOfEvents ==
  /\ Events!None = -1 /\ Events!NoStream \in Streams /\ Events!NoStream.at = "off"
  /\ Events!NoStream.due = 0 /\ Events!NoStream.cursor = -1
BY DEF Events!None, Events!NoStream, Streams, Words, NoWord

\* So have its messages.
LEMMA MessagesAre ==
  ASSUME NEW n \in Int, NEW s \in Words, NEW due \in Nat
  PROVE  /\ Events!Node(n) \in Messages /\ Events!Node(n).event = "node" /\ Events!Node(n).seq = n
         /\ Events!Done(s, due) \in Messages /\ Events!Done(s, due).event = "done"
         /\ Events!Done(s, due).due = due
<1>1. Events!Node(n) = [event |-> "node", seq |-> n, status |-> NoWord, due |-> 0] BY DEF Events!Node, NoWord
<1>2. Events!Done(s, due) = [event |-> "done", seq |-> -1, status |-> s, due |-> due]
  BY DEF Events!Done, Events!None
<1>3. NoWord \in Words BY DEF Words
<1>4. Events!Node(n) \in Messages /\ Events!Node(n).event = "node" /\ Events!Node(n).seq = n
  BY <1>1, <1>3 DEF Messages
<1>5. -1 \in Int OBVIOUS
<1>6. Events!Done(s, due) \in Messages /\ Events!Done(s, due).event = "done" /\ Events!Done(s, due).due = due
  BY <1>2, <1>5 DEF Messages
<1> QED BY <1>4, <1>6

\* A page has the events that follow the cursor, without a gap.
LEMMA BatchIs ==
  ASSUME EventsTyped, Numbers, NEW c \in Int, c >= -1, c < Len(log)
  PROVE  /\ Events!Batch(c) \in Seq(Nat)
         /\ Len(Events!Batch(c)) = IF Len(log) - c - 1 < Page THEN Len(log) - c - 1 ELSE Page
         /\ \A j \in 1 .. Len(Events!Batch(c)) : Events!Batch(c)[j] = c + j
<1> DEFINE above == {i \in DOMAIN log : log[i] > c}
           after == Events!After(c)
           size == IF Len(after) < Page THEN Len(after) ELSE Page
           n == Len(log)
<1>0. log \in Seq(Nat) /\ n \in Nat /\ DOMAIN log = 1 .. n /\ Page \in Nat /\ c < n BY DEF EventsTyped
<1>1. above = {i \in 1 .. n : i >= c + 2} BY <1>0 DEF Numbers
<1> HIDE DEF above
<1>2. after = IF above = {} THEN <<>> ELSE SubSeq(log, Events!Min(above), n)
  BY DEF Events!After, above
<1>3. after \in Seq(Nat) /\ Len(after) = n - c - 1 /\ \A j \in 1 .. Len(after) : after[j] = c + j
  <2>1. CASE ~(c < n - 1)
    <3> HIDE DEF n
    <3>1. above = {} /\ n - c - 1 = 0 BY <1>0, <1>1, <2>1
    <3>2. after = <<>> BY <1>2, <3>1
    <3> HIDE DEF after
    <3> QED BY <3>1, <3>2
  <2>2. CASE c < n - 1
    <3>4. after = SubSeq(log, c + 2, n) /\ c + 2 \in 1 .. n
      <4> HIDE DEF n
      <4>1. c + 2 \in above /\ \A j \in above : c + 2 <= j BY <1>0, <1>1, <2>2
      <4>2. Events!Min(above) \in above /\ \A j \in above : Events!Min(above) <= j BY <4>1 DEF Events!Min
      <4>3. Events!Min(above) = c + 2 BY <1>0, <1>1, <4>1, <4>2
      <4> QED BY <1>0, <1>1, <1>2, <4>1, <4>3
    <3> HIDE DEF after
    <3>6. after \in Seq(Nat) /\ Len(after) = n - c - 1
          /\ \A j \in 1 .. n - c - 1 : after[j] = log[c + 2 + j - 1]
      BY <1>0, <3>4
    <3>7. ASSUME NEW j \in 1 .. n - c - 1 PROVE after[j] = c + j
      <4>1. c + 2 + j - 1 \in 1 .. n /\ c + 2 + j - 1 = c + j + 1
        <5> HIDE DEF n
        <5> QED BY <1>0
      <4>2. log[c + j + 1] = c + j BY <1>0, <4>1 DEF Numbers
      <4> QED BY <3>6, <4>1, <4>2
    <3> QED BY <3>6, <3>7
  <2> QED BY <2>1, <2>2
<1>4. Events!Batch(c) = SubSeq(after, 1, size) BY DEF Events!Batch
<1> HIDE DEF after
<1>5. size \in Nat /\ size <= Len(after) BY <1>0, <1>3
<1>6. Len(Events!Batch(c)) = size /\ Events!Batch(c) \in Seq(Nat)
      /\ \A j \in 1 .. size : Events!Batch(c)[j] = after[j]
  BY <1>3, <1>4, <1>5
<1>7. size = IF n - c - 1 < Page THEN n - c - 1 ELSE Page BY <1>3
<1>8. \A j \in 1 .. size : j \in 1 .. Len(after) BY <1>3, <1>5
<1> HIDE DEF size
<1> QED BY <1>3, <1>6, <1>7, <1>8

\* What the concatenation of two sequences consists of.
LEMMA Joined ==
  ASSUME NEW S, NEW s \in Seq(S), NEW t \in Seq(S)
  PROVE  /\ s \o t \in Seq(S) /\ Len(s \o t) = Len(s) + Len(t)
         /\ \A i \in 1 .. Len(s) + Len(t) : (s \o t)[i] = IF i <= Len(s) THEN s[i] ELSE t[i - Len(s)]
OBVIOUS

\* The writers have the run's row one after the other.
LEMMA WritersKeep ==
  ASSUME EventsInv, NEW w \in Writers, Events!Allocate(w) \/ Events!Commit(w) \/ Events!Rollback(w)
  PROVE  EventsInv'
<1>0. /\ EventsTyped /\ Numbers /\ Shows /\ Comes /\ Serves /\ log \in Seq(Nat) /\ Len(log) \in Nat
      /\ tx \in [Writers -> Int] /\ status \in Events!Statuses
      /\ stream \in Streams /\ wire \in Seq(Messages) /\ view \in Views
  BY DEF EventsInv, EventsTyped
<1>1. UNCHANGED <<open, stream, wire, view, late>>
  BY DEF Events!Allocate, Events!Commit, Events!Rollback
<1>2. CASE Events!Allocate(w)
  <2>1. /\ tx' = [tx EXCEPT ![w] = Len(log)] /\ log' = log /\ status' = status
        /\ \A v \in Writers : tx[v] = -1
    BY <1>2 DEF Events!Allocate, Events!Locked, Events!None
  <2>2. \A v \in Writers : tx'[v] = IF v = w THEN Len(log) ELSE -1 BY <1>0, <2>1
  <2>3. Numbers' BY <1>0, <2>1, <2>2 DEF Numbers
  <2>4. EventsTyped' BY <1>0, <1>1, <2>1 DEF EventsTyped
  <2> QED BY <1>0, <1>1, <2>1, <2>3, <2>4 DEF EventsInv, Shows, Comes, Serves
<1>3. CASE Events!Rollback(w)
  <2>1. tx' = [tx EXCEPT ![w] = -1] /\ log' = log /\ status' = status
    BY <1>3 DEF Events!Rollback, Events!None
  <2>2. \A v \in Writers : tx'[v] = IF v = w THEN -1 ELSE tx[v] BY <1>0, <2>1
  <2>3. Numbers' BY <1>0, <2>1, <2>2 DEF Numbers
  <2>4. EventsTyped' BY <1>0, <1>1, <2>1 DEF EventsTyped
  <2> QED BY <1>0, <1>1, <2>1, <2>3, <2>4 DEF EventsInv, Shows, Comes, Serves
<1>4. CASE Events!Commit(w)
  <2>1. /\ tx[w] # -1 /\ log' = Append(log, tx[w]) /\ status' \in Events!Successors(status)
        /\ tx' = [tx EXCEPT ![w] = -1]
    BY <1>4 DEF Events!Commit, Events!None
  <2>2. tx[w] = Len(log) /\ \A v \in Writers : tx[v] # -1 => v = w BY <1>0, <2>1 DEF Numbers
  <2>3. log' \in Seq(Nat) /\ Len(log') = Len(log) + 1
        /\ \A i \in 1 .. Len(log) + 1 : log'[i] = IF i = Len(log) + 1 THEN Len(log) ELSE log[i]
    BY <1>0, <2>1, <2>2
  <2>4. \A v \in Writers : tx'[v] = -1 BY <1>0, <2>1, <2>2
  <2>5. Numbers'
    <3>1. ASSUME NEW i \in 1 .. Len(log) + 1 PROVE log'[i] = i - 1
      <4>1. CASE i = Len(log) + 1 BY <1>0, <2>3, <4>1
      <4>2. CASE i # Len(log) + 1
        <5>1. i \in DOMAIN log BY <1>0, <4>2
        <5> QED BY <1>0, <2>3, <4>2, <5>1 DEF Numbers
      <4> QED BY <4>1, <4>2
    <3> QED BY <2>3, <2>4, <3>1 DEF Numbers
  <2>6. Events!Successors(status) \subseteq Events!Statuses
    BY <1>0 DEF Events!Successors, Events!Statuses
  <2>7. EventsTyped' BY <1>0, <1>1, <2>1, <2>3, <2>6 DEF EventsTyped
  <2> DEFINE n == Len(log)
             m == Len(log')
  <2>8. n \in Nat /\ m = n + 1 BY <1>0, <2>3
  <2>9. /\ Shows /\ Serves /\ view.due \in Nat /\ Len(view.events) \in Nat /\ stream.due \in Nat
        /\ stream.cursor \in Int /\ \A i \in DOMAIN wire : wire[i].seq \in Int
    <3>1. \A i \in DOMAIN wire : wire[i] \in Messages BY <1>0
    <3>2. \A i \in DOMAIN wire : wire[i].seq \in Int BY <3>1 DEF Messages
    <3>3. view.due \in Nat /\ view.events \in Seq(Nat) BY <1>0 DEF Views
    <3>4. stream.due \in Nat /\ stream.cursor \in Int BY <1>0 DEF Streams
    <3> QED BY <1>0, <3>2, <3>3, <3>4
  <2>10. Shows'
    <3>1. Len(view.events) <= n /\ view.due <= n BY <2>9 DEF Shows
    <3> HIDE DEF n, m
    <3>2. Len(view.events) <= m /\ view.due <= m BY <2>8, <2>9, <3>1
    <3> QED BY <1>1, <2>9, <3>2 DEF Shows, m
  <2>11. Serves'
    <3>1. stream.due <= n /\ (stream.at # "off" => stream.cursor < n) BY <2>9 DEF Serves
    <3> HIDE DEF n, m
    <3>2. stream.due <= m /\ (stream.at # "off" => stream.cursor < m) BY <2>8, <2>9, <3>1
    <3> QED BY <1>1, <2>9, <3>2 DEF Serves, m
  <2>12. Comes'
    <3> SUFFICES ASSUME view.at = "live", NEW i \in DOMAIN wire
                 PROVE  /\ wire[i].event = "node" => wire[i].seq = Len(view.events) + i - 1 /\ wire[i].seq < m
                        /\ wire[i].event = "done" => /\ i = Len(wire) /\ stream.at = "off"
                                                     /\ wire[i].due < Len(view.events) + i
      BY <1>1 DEF Comes
    <3>1. /\ wire[i].event = "node" => wire[i].seq = Len(view.events) + i - 1 /\ wire[i].seq < n
          /\ wire[i].event = "done" => /\ i = Len(wire) /\ stream.at = "off"
                                       /\ wire[i].due < Len(view.events) + i
      BY <1>0 DEF Comes
    <3> HIDE DEF n, m
    <3>2. wire[i].seq < n => wire[i].seq < m BY <2>8, <2>9
    <3> QED BY <3>1, <3>2
  <2> QED BY <2>5, <2>7, <2>10, <2>11, <2>12 DEF EventsInv
<1> QED BY <1>2, <1>3, <1>4

\* Steps of the stream and of the view, which leave what is written alone.
LEMMA FollowersKeep ==
  ASSUME EventsInv, UNCHANGED <<log, status, tx>>, open' \in BOOLEAN, late' \in Nat,
         stream' \in Streams, wire' \in Seq(Messages), view' \in Views, Shows', Comes', Serves'
  PROVE  EventsInv'
BY DEF EventsInv, EventsTyped, Numbers

\* The end of a session changes nothing that was sent.
LEMMA SessionKeeps ==
  ASSUME EventsInv, Events!EndSession
  PROVE  EventsInv'
<1>1. open' = FALSE /\ UNCHANGED <<log, status, tx, stream, wire, view, late>> BY DEF Events!EndSession
<1> QED BY <1>1 DEF EventsInv, EventsTyped, Numbers, Shows, Comes, Serves

\* A turn begins with the number of events that are committed.
LEMMA CheckKeeps ==
  ASSUME EventsInv, Events!Check
  PROVE  EventsInv'
<1>0. /\ EventsTyped /\ Shows /\ Comes /\ Serves /\ Len(log) \in Nat /\ status \in Events!Statuses
      /\ open \in BOOLEAN /\ late \in Nat
      /\ stream \in Streams /\ wire \in Seq(Messages) /\ view \in Views /\ Len(view.events) \in Nat
      /\ view.due \in Nat
  BY DEF EventsInv, EventsTyped, Views
<1>1. stream.at = "check" /\ UNCHANGED <<log, status, tx, open, view, late>> BY DEF Events!Check
<1>2. view.at = "live" /\ stream.cursor + 1 = Len(view.events) + Len(wire) /\ stream.cursor < Len(log)
  BY <1>0, <1>1 DEF Shows, Serves
<1>3. CASE open
  <2> DEFINE r == [stream EXCEPT !.at = "page", !.status = status, !.due = Len(log)]
  <2>1. stream' = r /\ wire' = wire BY <1>1, <1>3 DEF Events!Check
  <2>2. status \in Words BY <1>0 DEF Words
  <2>3. r \in Streams /\ r.at = "page" /\ r.due = Len(log) /\ r.cursor = stream.cursor
    BY <1>0, <2>2 DEF Streams
  <2> HIDE DEF r
  <2>4. \A i \in DOMAIN wire : wire[i].event # "done" BY <1>0, <1>1, <1>2 DEF Comes
  <2>5. Comes' BY <1>0, <1>1, <2>1, <2>4 DEF Comes
  <2>6. Shows' BY <1>0, <1>1, <1>2, <2>1 DEF Shows
  <2>7. Serves' BY <1>0, <1>1, <1>2, <1>3, <2>1, <2>3 DEF Serves
  <2> QED BY <1>0, <1>1, <2>1, <2>3, <2>5, <2>6, <2>7, FollowersKeep
<1>4. CASE ~open
  <2> DEFINE last == Events!Done("unauthorized", 0)
  <2>1. stream' = Events!NoStream /\ wire' = wire \o <<last>> BY <1>1, <1>4 DEF Events!Check, Events!Send
  <2>2. "unauthorized" \in Words /\ 0 \in Nat /\ 0 \in Int BY DEF Words
  <2>3. last \in Messages /\ last.event = "done" /\ last.due = 0 BY <2>2, MessagesAre
  <2> HIDE DEF last
  <2>4. /\ wire' \in Seq(Messages) /\ Len(wire') = Len(wire) + 1 /\ Len(wire) \in Nat
        /\ DOMAIN wire' = 1 .. Len(wire) + 1
        /\ \A i \in 1 .. Len(wire) + 1 : wire'[i] = IF i = Len(wire) + 1 THEN last ELSE wire[i]
    BY <1>0, <2>1, <2>3
  <2>5. stream' \in Streams /\ stream'.at = "off" /\ stream'.due = 0 BY <2>1, ConstantsOfEvents
  <2>6. Comes'
    <3> SUFFICES ASSUME NEW i \in 1 .. Len(wire) + 1
                 PROVE  /\ wire'[i].event = "node" =>
                             wire'[i].seq = Len(view.events) + i - 1 /\ wire'[i].seq < Len(log)
                        /\ wire'[i].event = "done" => /\ i = Len(wire') /\ stream'.at = "off"
                                                      /\ wire'[i].due < Len(view.events) + i
      BY <1>1, <2>4 DEF Comes
    <3>1. CASE i = Len(wire) + 1
      <4>1. wire'[i] = last BY <2>4, <3>1
      <4>2. 0 < Len(view.events) + i BY <1>0
      <4> QED BY <2>3, <2>4, <2>5, <3>1, <4>1, <4>2
    <3>2. CASE i # Len(wire) + 1
      <4>1. i \in DOMAIN wire /\ wire'[i] = wire[i] BY <1>0, <2>4, <3>2
      <4>2. wire[i].event # "done" BY <1>0, <1>1, <1>2, <4>1 DEF Comes
      <4> QED BY <1>0, <1>2, <4>1, <4>2 DEF Comes
    <3> QED BY <3>1, <3>2
  <2>7. Shows' BY <1>0, <1>1, <1>2 DEF Shows
  <2>8. Serves' BY <1>0, <1>1, <1>4, <2>5 DEF Serves
  <2> QED BY <1>0, <1>1, <2>4, <2>5, <2>6, <2>7, <2>8, FollowersKeep
<1> QED BY <1>0, <1>3, <1>4

\* A page goes on where the messages before it end.
LEMMA PageKeeps ==
  ASSUME EventsInv, Events!ReadPage
  PROVE  EventsInv'
<1>0. /\ EventsTyped /\ Numbers /\ Shows /\ Comes /\ Serves /\ status \in Events!Statuses
      /\ open \in BOOLEAN /\ late \in Nat /\ Page \in Nat \ {0}
      /\ stream \in Streams /\ wire \in Seq(Messages) /\ view \in Views /\ Len(view.events) \in Nat
      /\ view.due \in Nat /\ stream.cursor \in Int /\ stream.due \in Nat /\ stream.status \in Words
  BY DEF EventsInv, EventsTyped, Views, Streams
<1> DEFINE n == Len(log)
           c == stream.cursor
           m == Len(view.events)
           k == Len(wire)
           batch == Events!Batch(c)
           size == Len(batch)
           nodes == [i \in DOMAIN batch |-> Events!Node(batch[i])]
           close == Events!Close(size)
           last == Events!Done(stream.status, stream.due)
<1>1. stream.at = "page" /\ UNCHANGED <<log, status, tx, open, view>> BY DEF Events!ReadPage
<1>2. view.at = "live" /\ c + 1 = m + k /\ c < n /\ stream.due <= n /\ late = 0 /\ n \in Nat /\ m \in Nat /\ k \in Nat
  BY <1>0, <1>1 DEF Shows, Serves, EventsTyped
<1>3. /\ batch \in Seq(Nat) /\ size = (IF n - c - 1 < Page THEN n - c - 1 ELSE Page)
      /\ \A j \in 1 .. size : batch[j] = c + j
  <2>1. c >= -1
    <3> HIDE DEF c, m, k, n
    <3> QED BY <1>0, <1>2 DEF c
  <2> QED BY <1>0, <1>2, <2>1, BatchIs
<1>4. /\ wire' = wire \o (nodes \o close)
      /\ stream' = (IF close # <<>> THEN Events!NoStream
                   ELSE [stream EXCEPT !.at = "check", !.status = NoWord, !.due = 0,
                                       !.cursor = IF batch = <<>> THEN @ ELSE Events!Last(batch)])
      /\ late' = IF open THEN late ELSE late + size
  BY DEF Events!ReadPage, Events!Send, NoWord
<1>5. close = <<>> \/ (close = <<last>> /\ size < Page) BY DEF Events!Close
<1>6. size \in Nat /\ size <= Page /\ c + size < n /\ (size < Page => c + size + 1 = n)
  <2>1. c \in Int /\ n \in Nat /\ c < n /\ Page \in Nat BY <1>0, <1>2
  <2>2. size = (IF n - c - 1 < Page THEN n - c - 1 ELSE Page) BY <1>3
  <2> HIDE DEF size, c, m, k, n
  <2> QED BY <2>1, <2>2
<1>7. nodes \in Seq(Messages) /\ Len(nodes) = size
      /\ \A j \in 1 .. size : nodes[j].event = "node" /\ nodes[j].seq = c + j
  <2>1. DOMAIN batch = 1 .. size /\ DOMAIN nodes = 1 .. size BY <1>3, <1>6
  <2>2. ASSUME NEW j \in 1 .. size
        PROVE  nodes[j] \in Messages /\ nodes[j].event = "node" /\ nodes[j].seq = c + j
    <3>1. batch[j] = c + j /\ c + j \in Int /\ nodes[j] = Events!Node(batch[j]) BY <1>0, <1>3, <2>1
    <3>2. 0 \in Nat /\ NoWord \in Words BY DEF Words
    <3> QED BY <3>1, <3>2, MessagesAre
  <2>3. nodes = [j \in 1 .. size |-> nodes[j]] BY <2>1
  <2> QED BY <1>6, <2>1, <2>2, <2>3
<1>8. last \in Messages /\ last.event = "done" /\ last.due = stream.due
  <2>1. 0 \in Int OBVIOUS
  <2> QED BY <1>0, <2>1, MessagesAre
<1>9. batch # <<>> => Events!Last(batch) = c + size
  <2>1. batch # <<>> => size \in 1 .. size BY <1>3, <1>6
  <2> QED BY <1>3, <2>1 DEF Events!Last
<1>10. batch = <<>> => size = 0 OBVIOUS
<1> HIDE DEF batch, size, nodes, close, last
<1>11. late' \in Nat /\ late' <= Page /\ (open' => late' = 0)
  BY <1>0, <1>1, <1>2, <1>4, <1>6
<1>12. CASE close = <<>>
  <2> DEFINE next == IF batch = <<>> THEN c ELSE Events!Last(batch)
             r == [stream EXCEPT !.at = "check", !.status = NoWord, !.due = 0, !.cursor = next]
  <2>1. next = c + size /\ next \in Int
    <3> HIDE DEF c
    <3> QED BY <1>0, <1>6, <1>9, <1>10 DEF c
  <2>2. stream' = r BY <1>4, <1>12
  <2>3. 0 \in Nat /\ NoWord \in Words BY DEF Words
  <2> HIDE DEF next
  <2>4. r \in Streams /\ r.at = "check" /\ r.due = 0 /\ r.cursor = next BY <1>0, <2>1, <2>3 DEF Streams
  <2> HIDE DEF r
  <2>5. wire' = wire \o nodes /\ wire' \in Seq(Messages) BY <1>0, <1>4, <1>7, <1>12
  <2>6. Len(wire') = k + size
        /\ \A i \in 1 .. k + size : wire'[i] = IF i <= k THEN wire[i] ELSE nodes[i - k]
    BY <1>0, <1>7, <2>5, Joined
  <2>7. ASSUME NEW i \in 1 .. k + size
        PROVE  wire'[i].event = "node" /\ wire'[i].seq = m + i - 1 /\ wire'[i].seq < n
    <3>1. CASE i <= k
      <4>1. wire'[i] = wire[i] /\ i \in DOMAIN wire BY <1>0, <2>6, <3>1
      <4>2. wire[i].event # "done" /\ wire[i] \in Messages BY <1>0, <1>1, <1>2, <4>1 DEF Comes
      <4>3. wire[i].event = "node" BY <4>2 DEF Messages
      <4> QED BY <1>0, <1>2, <4>1, <4>3 DEF Comes
    <3>2. CASE ~(i <= k)
      <4> HIDE DEF c, m, k, n
      <4>1. i - k \in 1 .. size BY <1>2, <1>6, <3>2
      <4>2. wire'[i].event = "node" /\ wire'[i].seq = c + (i - k) BY <1>7, <2>6, <3>2, <4>1
      <4>3. c + (i - k) = m + i - 1 /\ c + (i - k) < n BY <1>0, <1>2, <1>6, <4>1 DEF c
      <4> QED BY <4>2, <4>3
    <3> QED BY <3>1, <3>2
  <2>8. Comes' BY <1>1, <2>5, <2>6, <2>7 DEF Comes
  <2>9. Shows' BY <1>0, <1>1, <1>2 DEF Shows
  <2>10. stream'.cursor + 1 = m + Len(wire') /\ stream'.cursor < n
    <3>1. /\ c \in Int /\ c + 1 = m + k /\ c + size < n /\ size \in Nat /\ m \in Nat /\ k \in Nat /\ n \in Nat
          /\ stream'.cursor = c + size /\ Len(wire') = k + size
      BY <1>0, <1>2, <1>6, <2>1, <2>2, <2>4, <2>6
    <3> HIDE DEF c, m, k, n
    <3> QED BY <3>1
  <2>11. Serves' BY <1>0, <1>1, <1>2, <1>11, <2>2, <2>4, <2>10 DEF Serves
  <2> QED BY <1>0, <1>1, <1>11, <2>2, <2>4, <2>5, <2>8, <2>9, <2>11, FollowersKeep
<1>13. CASE close # <<>>
  <2>1. close = <<last>> /\ size < Page /\ stream' = Events!NoStream BY <1>4, <1>5, <1>13
  <2>2. stream' \in Streams /\ stream'.at = "off" /\ stream'.due = 0 BY <2>1, ConstantsOfEvents
  <2>3. wire' = wire \o (nodes \o <<last>>) /\ wire' \in Seq(Messages) BY <1>0, <1>4, <1>7, <1>8, <2>1
  <2>4. Len(wire') = k + size + 1
        /\ \A i \in 1 .. k + size + 1 :
             wire'[i] = IF i <= k THEN wire[i] ELSE IF i <= k + size THEN nodes[i - k] ELSE last
    <3> DEFINE rest == nodes \o <<last>>
    <3>1. <<last>> \in Seq(Messages) /\ Len(<<last>>) = 1 /\ <<last>>[1] = last BY <1>8
    <3>2. /\ rest \in Seq(Messages) /\ Len(rest) = size + 1
          /\ \A i \in 1 .. size + 1 : rest[i] = IF i <= size THEN nodes[i] ELSE <<last>>[i - size]
      BY <1>7, <3>1, Joined
    <3> HIDE DEF rest
    <3>3. /\ Len(wire') = k + (size + 1)
          /\ \A i \in 1 .. k + (size + 1) : wire'[i] = IF i <= k THEN wire[i] ELSE rest[i - k]
      BY <1>0, <2>3, <3>2, Joined DEF rest
    <3> HIDE DEF m, k, n, c
    <3>4. ASSUME NEW i \in 1 .. k + size + 1, ~(i <= k)
          PROVE  wire'[i] = IF i <= k + size THEN nodes[i - k] ELSE last
      <4>1. i - k \in 1 .. size + 1 /\ (i - k <= size <=> i <= k + size) /\ (~(i <= k + size) => i - k - size = 1)
        BY <1>2, <1>6, <3>4
      <4>2. wire'[i] = rest[i - k] BY <1>2, <1>6, <3>3, <3>4
      <4> QED BY <3>1, <3>2, <4>1, <4>2
    <3> QED BY <1>2, <1>6, <3>3, <3>4
  <2>5. ASSUME NEW i \in 1 .. k + size + 1
        PROVE  /\ wire'[i].event = "node" => wire'[i].seq = m + i - 1 /\ wire'[i].seq < n
               /\ wire'[i].event = "done" => i = k + size + 1 /\ wire'[i].due < m + i
    <3>1. CASE i <= k
      <4>1. wire'[i] = wire[i] /\ i \in DOMAIN wire BY <1>0, <2>4, <3>1
      <4>2. wire[i].event # "done" BY <1>0, <1>1, <1>2, <4>1 DEF Comes
      <4> QED BY <1>0, <1>2, <4>1, <4>2 DEF Comes
    <3>2. CASE ~(i <= k) /\ i <= k + size
      <4> HIDE DEF c, m, k, n
      <4>1. i - k \in 1 .. size BY <1>2, <1>6, <3>2
      <4>2. wire'[i].event = "node" /\ wire'[i].seq = c + (i - k) BY <1>7, <2>4, <3>2, <4>1
      <4>3. c + (i - k) = m + i - 1 /\ c + (i - k) < n BY <1>0, <1>2, <1>6, <4>1 DEF c
      <4> QED BY <4>2, <4>3
    <3>3. CASE ~(i <= k + size)
      <4> HIDE DEF c, m, k, n
      <4>1. i = k + size + 1 /\ ~(i <= k) BY <1>2, <1>6, <3>3
      <4>2. wire'[i] = last BY <2>4, <3>3, <4>1
      <4>3. stream.due < m + i BY <1>0, <1>2, <1>6, <2>1, <4>1 DEF c
      <4> QED BY <1>8, <4>1, <4>2, <4>3
    <3> QED BY <3>1, <3>2, <3>3
  <2>6. Comes'
    <3>1. DOMAIN wire' = 1 .. k + size + 1 BY <2>3, <2>4
    <3>2. view'.events = view.events /\ log' = log BY <1>1
    <3> QED BY <2>2, <2>4, <2>5, <3>1, <3>2 DEF Comes
  <2>7. Shows' BY <1>0, <1>1, <1>2 DEF Shows
  <2>8. Serves' BY <1>0, <1>1, <1>11, <2>2 DEF Serves
  <2> QED BY <1>0, <1>1, <1>11, <2>2, <2>3, <2>6, <2>7, <2>8, FollowersKeep
<1> QED BY <1>12, <1>13

\* An event that arrives is the one after those that are shown.
LEMMA NodeKeeps ==
  ASSUME EventsInv, Events!ReceiveNode
  PROVE  EventsInv'
<1>0. /\ EventsTyped /\ Shows /\ Comes /\ Serves /\ Len(log) \in Nat /\ late \in Nat /\ open \in BOOLEAN
      /\ stream \in Streams /\ wire \in Seq(Messages) /\ view \in Views
      /\ view.events \in Seq(Nat) /\ view.due \in Nat
  BY DEF EventsInv, EventsTyped, Views
<1> DEFINE m == Len(view.events)
           k == Len(wire)
           n == Len(log)
<1>1. /\ view.at = "live" /\ wire # <<>> /\ Head(wire).event = "node" /\ wire' = Tail(wire)
      /\ UNCHANGED <<log, status, tx, open, stream, late>>
  BY DEF Events!ReceiveNode
<1>2. wire[1].seq = m /\ m < n /\ k \in Nat /\ 1 \in DOMAIN wire /\ k > 0 /\ n \in Nat /\ m \in Nat
  <2>1. k \in Nat /\ k > 0 /\ 1 \in DOMAIN wire /\ Head(wire) = wire[1] BY <1>0, <1>1
  <2> QED BY <1>0, <1>1, <2>1 DEF Comes
<1>3. ~Events!Seen(wire[1].seq)
  <2>1. \A i \in DOMAIN view.events : view.events[i] # m BY <1>0 DEF Shows
  <2> QED BY <1>2, <2>1 DEF Events!Seen
<1> DEFINE nodes == Append(view.events, m)
           r == [view EXCEPT !.events = nodes]
<1>4. view' = r
  <2>1. Head(wire) = wire[1] BY <1>0, <1>1
  <2>2. Head(wire).seq = m BY <1>2, <2>1
  <2>3. ~Events!Seen(Head(wire).seq) BY <1>3, <2>1
  <2>4. view' = [view EXCEPT !.events = Append(view.events, Head(wire).seq)] BY <2>3 DEF Events!ReceiveNode
  <2> HIDE DEF m
  <2> QED BY <2>2, <2>4
<1>5. nodes \in Seq(Nat) /\ Len(nodes) = m + 1
      /\ \A i \in 1 .. m + 1 : nodes[i] = i - 1
  <2>1. nodes \in Seq(Nat) /\ Len(nodes) = m + 1 /\ nodes[m + 1] = m
        /\ \A i \in 1 .. m : nodes[i] = view.events[i]
    BY <1>0, <1>2
  <2>2. \A i \in 1 .. m : view.events[i] = i - 1 BY <1>0 DEF Shows
  <2> QED BY <1>2, <2>1, <2>2
<1> HIDE DEF nodes
<1>6. r \in Views /\ r.at = "live" /\ r.due = view.due /\ r.events = nodes
  BY <1>0, <1>1, <1>5 DEF Views
<1> HIDE DEF r
<1>7. /\ wire' \in Seq(Messages) /\ Len(wire') = k - 1 /\ DOMAIN wire' = 1 .. k - 1
      /\ \A i \in 1 .. k - 1 : wire'[i] = wire[i + 1]
  BY <1>0, <1>1, <1>2
<1>8. Len(view'.events) = m + 1 BY <1>4, <1>5, <1>6
<1>9. view.due = 0 BY <1>0, <1>1 DEF Shows
<1>10. Shows'
  <2>1. m + 1 <= n BY <1>2
  <2>2. view'.events = nodes /\ view'.due = 0 /\ view'.at = "live" /\ log' = log BY <1>1, <1>4, <1>6, <1>9
  <2>3. \A i \in DOMAIN nodes : nodes[i] = i - 1 BY <1>5
  <2>4. 0 <= m + 1 /\ 0 <= n BY <1>2
  <2> QED BY <1>8, <2>1, <2>2, <2>3, <2>4 DEF Shows
<1>11. Serves'
  <2>1. stream.at # "off" => stream.cursor + 1 = (m + 1) + (k - 1)
    <3>1. stream.at # "off" => stream.cursor + 1 = m + k BY <1>0 DEF Serves
    <3> HIDE DEF m, k
    <3> QED BY <1>2, <3>1
  <2> QED BY <1>0, <1>1, <1>7, <1>8, <2>1 DEF Serves
<1>12. Comes'
  <2> SUFFICES ASSUME NEW i \in 1 .. k - 1
               PROVE  /\ wire'[i].event = "node" => wire'[i].seq = (m + 1) + i - 1 /\ wire'[i].seq < n
                      /\ wire'[i].event = "done" => /\ i = k - 1 /\ stream.at = "off"
                                                    /\ wire'[i].due < (m + 1) + i
    BY <1>1, <1>7, <1>8 DEF Comes
  <2>1. wire'[i] = wire[i + 1] /\ i + 1 \in DOMAIN wire /\ i \in Nat BY <1>0, <1>2, <1>7
  <2>2. /\ wire[i + 1].event = "node" => wire[i + 1].seq = m + (i + 1) - 1 /\ wire[i + 1].seq < n
        /\ wire[i + 1].event = "done" => /\ i + 1 = k /\ stream.at = "off"
                                         /\ wire[i + 1].due < m + (i + 1)
    BY <1>0, <1>1, <2>1 DEF Comes
  <2> HIDE DEF m, k, n
  <2>3. m + (i + 1) - 1 = (m + 1) + i - 1 /\ m + (i + 1) = (m + 1) + i /\ (i + 1 = k => i = k - 1)
    BY <1>2, <2>1
  <2> QED BY <2>1, <2>2, <2>3
<1> QED BY <1>0, <1>1, <1>4, <1>6, <1>7, <1>10, <1>11, <1>12, FollowersKeep

\* done comes after the events it was counted with.
LEMMA DoneKeeps ==
  ASSUME EventsInv, Events!ReceiveDone
  PROVE  EventsInv'
<1>0. /\ EventsTyped /\ Shows /\ Comes /\ Serves /\ Len(log) \in Nat /\ late \in Nat /\ open \in BOOLEAN
      /\ stream \in Streams /\ wire \in Seq(Messages) /\ view \in Views /\ Len(view.events) \in Nat
      /\ view.due \in Nat
  BY DEF EventsInv, EventsTyped, Views
<1> DEFINE last == Head(wire)
           r == [view EXCEPT !.at = "finishing", !.status = last.status, !.due = last.due]
<1>1. /\ view.at = "live" /\ wire # <<>> /\ last.event = "done" /\ wire' = <<>> /\ view' = r
      /\ stream' = Events!NoStream /\ UNCHANGED <<log, status, tx, open, late>>
  BY DEF Events!ReceiveDone
<1>2. last = wire[1] /\ 1 \in DOMAIN wire /\ last \in Messages BY <1>0, <1>1
<1>3. last.due < Len(view.events) + 1 BY <1>0, <1>1, <1>2 DEF Comes
<1>4. last.due \in Nat /\ last.status \in Words BY <1>2 DEF Messages
<1> HIDE DEF last
<1>5. r \in Views /\ r.at = "finishing" /\ r.due = last.due /\ r.events = view.events
  BY <1>0, <1>4 DEF Views
<1> HIDE DEF r
<1>6. stream' \in Streams /\ stream'.at = "off" /\ stream'.due = 0 BY <1>1, ConstantsOfEvents
<1>7. wire' \in Seq(Messages) /\ DOMAIN wire' = {} BY <1>1
<1>8. last.due <= Len(view.events) BY <1>0, <1>3, <1>4
<1>9. Len(view.events) <= Len(log) BY <1>0 DEF Shows
<1>10. last.due <= Len(log) BY <1>0, <1>4, <1>8, <1>9
<1>11. Shows' BY <1>0, <1>1, <1>5, <1>6, <1>8, <1>10 DEF Shows
<1>12. Comes' BY <1>7 DEF Comes
<1>13. Serves' BY <1>0, <1>1, <1>6 DEF Serves
<1> QED BY <1>0, <1>1, <1>5, <1>6, <1>7, <1>11, <1>12, <1>13, FollowersKeep

\* What reconnects goes on after the last event that was shown.
LEMMA CutKeeps ==
  ASSUME EventsInv, Events!Cut
  PROVE  EventsInv'
<1>0. /\ EventsTyped /\ Shows /\ Comes /\ Serves /\ Len(log) \in Nat /\ late \in Nat /\ open \in BOOLEAN
      /\ stream \in Streams /\ wire \in Seq(Messages) /\ view \in Views /\ view.events \in Seq(Nat)
      /\ view.due \in Nat
  BY DEF EventsInv, EventsTyped, Views
<1> DEFINE m == Len(view.events)
<1>1. view.at = "live" /\ wire' = <<>> /\ UNCHANGED <<log, status, tx, open, late>> BY DEF Events!Cut
<1>2. /\ wire' \in Seq(Messages) /\ DOMAIN wire' = {} /\ Len(wire') = 0 /\ view.due = 0 /\ m \in Nat
      /\ m <= Len(log)
  BY <1>0, <1>1 DEF Shows
<1>3. CASE stream' = Events!NoStream /\ view' = [view EXCEPT !.at = "polling"]
  <2>1. view' \in Views /\ view'.at = "polling" /\ view'.due = view.due /\ view'.events = view.events
    BY <1>0, <1>3 DEF Views
  <2>2. stream' \in Streams /\ stream'.at = "off" /\ stream'.due = 0 BY <1>3, ConstantsOfEvents
  <2>3. Shows' BY <1>0, <1>1, <1>2, <2>1, <2>2 DEF Shows
  <2>4. Comes' BY <1>2 DEF Comes
  <2>5. Serves' BY <1>0, <1>1, <2>2 DEF Serves
  <2> QED BY <1>0, <1>1, <1>2, <2>1, <2>2, <2>3, <2>4, <2>5, FollowersKeep
<1>4. CASE /\ stream' = [Events!NoStream EXCEPT !.at = IF open THEN "check" ELSE "off",
                           !.cursor = IF view.events = <<>> THEN Events!None ELSE Events!Last(view.events)]
           /\ view' = IF open THEN view ELSE [view EXCEPT !.at = "over"]
  <2> DEFINE s == Events!NoStream
             at == IF open THEN "check" ELSE "off"
             cursor == IF view.events = <<>> THEN Events!None ELSE Events!Last(view.events)
  <2>1. s \in Streams /\ s.due = 0 BY ConstantsOfEvents
  <2>2. cursor = m - 1 /\ cursor \in Int
    <3>1. CASE view.events = <<>> BY <3>1, ConstantsOfEvents
    <3>2. CASE view.events # <<>>
      <4>1. m \in DOMAIN view.events BY <1>0, <3>2
      <4>2. view.events[m] = m - 1 BY <1>0, <4>1 DEF Shows
      <4> QED BY <1>2, <3>2, <4>2 DEF Events!Last
    <3> QED BY <3>1, <3>2
  <2>3. stream' = [s EXCEPT !.at = at, !.cursor = cursor] BY <1>4
  <2>4. at \in {"off", "check", "page"} /\ at # "page" /\ (at # "off" <=> open) BY <1>0
  <2> HIDE DEF s, at, cursor
  <2>5. stream' \in Streams /\ stream'.at = at /\ stream'.due = 0 /\ stream'.cursor = m - 1
    BY <2>1, <2>2, <2>3, <2>4 DEF Streams
  <2>6. /\ view' \in Views /\ view'.due = 0 /\ view'.events = view.events
        /\ view'.at = IF open THEN "live" ELSE "over"
    BY <1>0, <1>1, <1>2, <1>4 DEF Views
  <2>7. (m - 1) + 1 = m + 0 /\ m - 1 < Len(log)
    <3> HIDE DEF m
    <3> QED BY <1>0, <1>2
  <2>8. Shows' BY <1>0, <1>1, <1>2, <2>4, <2>5, <2>6 DEF Shows
  <2>9. Comes' BY <1>2 DEF Comes
  <2>10. Serves' BY <1>0, <1>1, <1>2, <2>4, <2>5, <2>6, <2>7 DEF Serves
  <2> QED BY <1>0, <1>1, <1>2, <2>5, <2>6, <2>8, <2>9, <2>10, FollowersKeep
<1> QED BY <1>3, <1>4 DEF Events!Cut

\* Steps of a view that does not follow the stream.
LEMMA ViewMoves ==
  ASSUME EventsInv, UNCHANGED <<log, status, tx, open, stream, wire, late>>, view.at # "live",
         view' \in Views, view'.at # "live", view'.events = view.events \/ view'.events = log,
         view'.due <= Len(log),
         view'.at \notin {"finished", "polled"} => Len(view'.events) >= view'.due
  PROVE  EventsInv'
<1>0. /\ EventsTyped /\ Numbers /\ Shows /\ Comes /\ Serves /\ late \in Nat /\ open \in BOOLEAN
      /\ stream \in Streams /\ wire \in Seq(Messages) /\ Len(log) \in Nat
  BY DEF EventsInv, EventsTyped
<1>1. stream.at = "off" BY <1>0 DEF Shows
<1>2. /\ \A i \in DOMAIN view'.events : view'.events[i] = i - 1
      /\ Len(view'.events) <= Len(log)
  <2>1. CASE view'.events = view.events BY <1>0, <2>1 DEF Shows
  <2>2. CASE view'.events = log BY <1>0, <2>2 DEF Numbers
  <2> QED BY <2>1, <2>2
<1>3. Shows' BY <1>1, <1>2 DEF Shows
<1>4. Comes' BY DEF Comes
<1>5. Serves' BY <1>0, <1>1 DEF Serves
<1> QED BY <1>0, <1>3, <1>4, <1>5, FollowersKeep

\* A fetched run is the whole history.
LEMMA ViewKeeps ==
  ASSUME EventsInv,
         Events!ReadRun \/ Events!ShowRun \/ Events!FetchFails \/ Events!Reopen
  PROVE  EventsInv'
<1>0. /\ EventsTyped /\ Shows /\ view \in Views /\ status \in Words /\ log \in Seq(Nat) /\ Len(log) \in Nat
      /\ Len(view.events) \in Nat /\ view.due \in Nat
  BY DEF EventsInv, EventsTyped, Views, Words
<1>1. UNCHANGED <<log, status, tx, open, stream, wire, late>>
  BY DEF Events!ReadRun, Events!ShowRun, Events!FetchFails, Events!Reopen
<1>2. /\ view.due <= Len(log) /\ Len(view.events) <= Len(log)
      /\ view.at \notin {"finished", "polled"} => Len(view.events) >= view.due
  BY <1>0 DEF Shows
<1>3. CASE Events!ReadRun
  <2>1. view.at \in {"finishing", "polling"} BY <1>3 DEF Events!ReadRun, Events!Fetching
  <2>2. PICK at \in {"polled", "finished"} :
          view' = [view EXCEPT !.status = status, !.due = Len(log), !.at = at]
    BY <1>3 DEF Events!ReadRun
  <2>3. view' \in Views /\ view'.at = at /\ view'.due = Len(log) /\ view'.events = view.events
    BY <1>0, <2>2 DEF Views
  <2> QED BY <1>0, <1>1, <2>1, <2>3, ViewMoves
<1>4. CASE Events!ShowRun
  <2>1. view.at \in {"polled", "finished"} BY <1>4 DEF Events!ShowRun
  <2>2. PICK at \in {"polling", "over"} : view' = [view EXCEPT !.events = log, !.at = at]
    BY <1>4 DEF Events!ShowRun
  <2>3. view' \in Views /\ view'.at = at /\ view'.due = view.due /\ view'.events = log
    BY <1>0, <2>2 DEF Views
  <2> QED BY <1>0, <1>1, <1>2, <2>1, <2>3, ViewMoves
<1>5. CASE Events!FetchFails \/ Events!Reopen
  <2>1. view.at \in {"finishing", "polling", "over"}
    BY <1>5 DEF Events!FetchFails, Events!Reopen, Events!Fetching
  <2>2. PICK at \in {"polling", "over"} : view' = [view EXCEPT !.at = at]
    BY <1>5 DEF Events!FetchFails, Events!Reopen
  <2>3. view' \in Views /\ view'.at = at /\ view'.due = view.due /\ view'.events = view.events
    BY <1>0, <2>2 DEF Views
  <2> QED BY <1>0, <1>1, <1>2, <2>1, <2>3, ViewMoves
<1> QED BY <1>3, <1>4, <1>5

\* The invariant holds at the start.
LEMMA EventsStart == Page \in Nat \ {0} /\ Events!Init => EventsInv
<1> SUFFICES ASSUME Page \in Nat \ {0}, Events!Init PROVE EventsInv OBVIOUS
<1>1. /\ log = <<>> /\ status = "queued" /\ open = TRUE /\ late = 0 /\ tx = [w \in Writers |-> -1]
      /\ wire = <<>> /\ stream = [Events!NoStream EXCEPT !.at = "check"]
      /\ view = [at |-> "live", events |-> <<>>, status |-> "running", due |-> 0]
  BY DEF Events!Init, Events!None
<1>2. /\ Events!NoStream \in Streams /\ Events!NoStream.due = 0 /\ Events!NoStream.cursor = -1
  BY ConstantsOfEvents
<1>3. stream \in Streams /\ stream.at = "check" /\ stream.due = 0 /\ stream.cursor = -1
  BY <1>1, <1>2 DEF Streams
<1>4. status \in Events!Statuses /\ "running" \in Words BY <1>1 DEF Events!Statuses, Words
<1>5. view \in Views /\ view.at = "live" /\ view.due = 0 /\ view.events = <<>> BY <1>1, <1>4 DEF Views
<1>6. log \in Seq(Nat) /\ wire \in Seq(Messages) /\ tx \in [Writers -> Int]
      /\ Len(log) = 0 /\ Len(wire) = 0 /\ Len(view.events) = 0 /\ DOMAIN log = {} /\ DOMAIN wire = {}
      /\ DOMAIN view.events = {} /\ \A w \in Writers : tx[w] = -1
  BY <1>1, <1>5
<1>7. EventsTyped BY <1>1, <1>3, <1>4, <1>5, <1>6 DEF EventsTyped
<1>8. Numbers
  <2>1. \A i \in DOMAIN log : log[i] = i - 1 BY <1>6
  <2>2. \A w \in Writers : tx[w] = -1 BY <1>6
  <2> QED BY <2>1, <2>2 DEF Numbers
<1>9. Shows BY <1>5, <1>6 DEF Shows
<1>10. Comes
  <2>1. DOMAIN wire = {} BY <1>6
  <2> QED BY <2>1 DEF Comes
<1>11. Serves BY <1>1, <1>3, <1>6 DEF Serves
<1> QED BY <1>7, <1>8, <1>9, <1>10, <1>11 DEF EventsInv

\* The invariant is kept by every step.
LEMMA EventsKeep == EventsInv /\ [Events!Next]_(Events!vars) => EventsInv'
<1> SUFFICES ASSUME EventsInv, [Events!Next]_(Events!vars) PROVE EventsInv' OBVIOUS
<1>1. CASE UNCHANGED Events!vars
  BY <1>1 DEF Events!vars, EventsInv, EventsTyped, Numbers, Shows, Comes, Serves
<1>2. ASSUME NEW w \in Writers, Events!Allocate(w) \/ Events!Commit(w) \/ Events!Rollback(w)
      PROVE  EventsInv'
  BY <1>2, WritersKeep
<1>3. CASE \/ Events!EndSession \/ Events!Check \/ Events!ReadPage \/ Events!ReceiveNode
           \/ Events!ReceiveDone \/ Events!Cut
  BY <1>3, SessionKeeps, CheckKeeps, PageKeeps, NodeKeeps, DoneKeeps, CutKeeps
<1>4. CASE Events!ReadRun \/ Events!ShowRun \/ Events!FetchFails \/ Events!Reopen BY <1>4, ViewKeeps
<1> QED BY <1>1, <1>2, <1>3, <1>4 DEF Events!Next

\* The invariant says what is to be shown.
LEMMA EventsHold == EventsInv => Events!EventsComplete
BY DEF EventsInv, Shows, Serves, Events!EventsComplete

\* A status that is shown as where the run has come to has all its events with it,
\* in order and once, and a session that has ended is told one page at most
\* (_event, events, Store.run).
THEOREM HistoryComplete == Page \in Nat \ {0} /\ Events!Spec => []Events!EventsComplete
<1> QED BY EventsHold, EventsStart, EventsKeep, PTL DEF Events!Spec

-----------------------------------------------------------------------------
(***************************************************************************)
(* Startup: a process that is ready finds its schema and its queue.        *)
(***************************************************************************)
CONSTANTS Processes, Newest, MaxRunEvents, MaxStarts
VARIABLES db, runs, upgrade, procs
Begin == INSTANCE Startup WITH MaxEvents <- MaxRunEvents

AllParts == Begin!Baseline \cup Begin!Tolerated \cup {<<"foreign", 1>>} \cup {<<"revision", r>> : r \in 2 .. Newest + 1}
Schemas == [shape : SUBSET AllParts, version : 0 .. Newest + 1, done : SUBSET Begin!Migrations]
Attending == {"opened", "found", "ready"}
Stages == {"off", "starting", "stopped"} \cup Attending

SchemaInv ==
  /\ db \in Schemas /\ Begin!VersionTells /\ (db.version = 0 => db.done = {})
  /\ DOMAIN procs = Processes
  /\ \A p \in Processes :
       /\ procs[p] \in [at : Stages, found : SUBSET DOMAIN runs, starts : Int]
       /\ procs[p].at \in Attending => db.version = Newest /\ db.done = Begin!Migrations

\* A run before its events have become rows, and from then on.
EventSet == [seq : Nat, label : Nat]
RunSet ==
  [doc : Seq(EventSet), rows : Seq(EventSet), counter : Nat, cited : {0, 1},
   job : {"none", "queued", "running", "success"}, status : {"queued", "running", "success"}]
Unmoved(entry) ==
  /\ entry.counter = 0 /\ Len(entry.rows) <= Len(entry.doc) /\ entry.job \in {"none", "queued"}
  /\ \A i \in 1 .. Len(entry.doc) : entry.doc[i].label \in {0, 3}
Moved(entry) ==
  /\ entry.doc = <<>> /\ entry.cited <= entry.counter
  /\ \A i \in 1 .. Len(entry.rows) : entry.rows[i].label <= entry.counter

RunsInv ==
  \A r \in DOMAIN runs :
    /\ runs[r] \in RunSet
    /\ runs[r].job # "none" => runs[r].job = runs[r].status
    /\ IF "events" \in db.done THEN Moved(runs[r]) ELSE Unmoved(runs[r])

QueueInv ==
  \A p \in Processes :
    /\ procs[p].at = "found" => Begin!Jobless \subseteq procs[p].found
    /\ procs[p].at = "ready" => Begin!Jobless = {}

BeginInv == SchemaInv /\ RunsInv /\ QueueInv

LEMMA MaxOfFew ==
  ASSUME NEW S, S \subseteq {0, 1, 3}, S # {}
  PROVE  Begin!Max(S) \in S /\ \A x \in S : x <= Begin!Max(S)
<1>1. \E m \in S : \A x \in S : m >= x
  <2>1. CASE 3 \in S BY <2>1
  <2>2. CASE 3 \notin S /\ 1 \in S BY <2>2
  <2>3. CASE 3 \notin S /\ 1 \notin S
    <3>1. 0 \in S /\ \A x \in S : x = 0 BY <2>3
    <3> QED BY <3>1
  <2> QED BY <2>1, <2>2, <2>3
<1>2. Begin!Max(S) \in S /\ \A x \in S : Begin!Max(S) >= x BY <1>1 DEF Begin!Max
<1> QED BY <1>2

LEMMA MaxOfTwo ==
  ASSUME NEW x \in Int, NEW y \in Int
  PROVE  Begin!Max({x, y}) \in {x, y} /\ x <= Begin!Max({x, y}) /\ y <= Begin!Max({x, y})
<1>1. \E m \in {x, y} : \A z \in {x, y} : m >= z
  <2>1. CASE x >= y BY <2>1
  <2>2. CASE y >= x BY <2>2
  <2> QED BY <2>1, <2>2
<1>2. Begin!Max({x, y}) \in {x, y} /\ \A z \in {x, y} : Begin!Max({x, y}) >= z BY <1>1 DEF Begin!Max
<1> QED BY <1>2

\* The events of a document become rows.
LEMMA RowsOfRun ==
  ASSUME NEW entry \in RunSet, Unmoved(entry), Begin!Fits(entry)
  PROVE  LET new == Begin!WithRows(entry) IN
         /\ new \in RunSet /\ new.job = entry.job /\ new.status = entry.status /\ Moved(new)
         /\ Begin!History(new) = Begin!History(entry)
         /\ entry.doc = <<>> => Len(new.rows) = Len(entry.rows)
<1> DEFINE new == Begin!WithRows(entry)
           S == {entry.counter, entry.cited} \cup {entry.doc[i].label : i \in DOMAIN entry.doc}
           rest == SubSeq(entry.doc, Len(entry.rows) + 1, Len(entry.doc))
           high == Begin!HighWater(entry)
<1>1. /\ entry.doc \in Seq(EventSet) /\ entry.rows \in Seq(EventSet) /\ entry.counter = 0 /\ entry.cited \in {0, 1}
      /\ Len(entry.rows) <= Len(entry.doc) /\ DOMAIN entry.doc = 1 .. Len(entry.doc) /\ DOMAIN entry.rows = 1 .. Len(entry.rows)
      /\ \A i \in 1 .. Len(entry.doc) : entry.doc[i].label \in {0, 3}
  BY DEF RunSet, Unmoved
<1>2. high \in {0, 1, 3} /\ \A x \in S : x <= high
  <2>1. S \subseteq {0, 1, 3} /\ S # {} BY <1>1
  <2>2. high = Begin!Max(S) BY DEF Begin!HighWater
  <2> HIDE DEF S, high
  <2> QED BY <2>1, <2>2, MaxOfFew
<1>3. rest \in Seq(EventSet) /\ Len(rest) = Len(entry.doc) - Len(entry.rows)
      /\ \A i \in 1 .. Len(rest) : rest[i] = entry.doc[Len(entry.rows) + i]
  <2> DEFINE m == Len(entry.rows)
             n == Len(entry.doc)
  <2>1. m \in Nat /\ n \in Nat /\ m <= n /\ entry.doc \in Seq(EventSet) BY <1>1
  <2>2. rest = SubSeq(entry.doc, m + 1, n) OBVIOUS
  <2> HIDE DEF m, rest
  <2>3. rest \in Seq(EventSet) /\ Len(rest) = n - m BY <2>1, <2>2
  <2>4. \A i \in 1 .. Len(rest) : rest[i] = entry.doc[m + i] BY <2>1, <2>2, <2>3
  <2> QED BY <2>3, <2>4 DEF m
<1> DEFINE both == entry.rows \o rest
<1>11. new = [entry EXCEPT !.rows = both, !.doc = <<>>, !.counter = high] BY DEF Begin!WithRows
<1> HIDE DEF new, rest, high, both
<1>4. /\ new.rows = entry.rows \o rest /\ new.doc = <<>> /\ new.counter = high /\ new.cited = entry.cited
      /\ new.job = entry.job /\ new.status = entry.status
  BY <1>11 DEF RunSet, both
<1>5. /\ new.rows \in Seq(EventSet) /\ Len(new.rows) = Len(entry.doc)
      /\ \A i \in 1 .. Len(entry.doc) : new.rows[i] = IF i <= Len(entry.rows) THEN entry.rows[i] ELSE rest[i - Len(entry.rows)]
  <2>1. Len(entry.rows) + Len(rest) = Len(entry.doc) BY <1>1, <1>3
  <2>2. /\ entry.rows \o rest \in Seq(EventSet) /\ Len(entry.rows \o rest) = Len(entry.rows) + Len(rest)
        /\ \A i \in 1 .. Len(entry.rows) + Len(rest) :
             (entry.rows \o rest)[i] = IF i <= Len(entry.rows) THEN entry.rows[i] ELSE rest[i - Len(entry.rows)]
    BY <1>1, <1>3, ConcatProperties
  <2> QED BY <1>4, <2>1, <2>2
<1>6. \A i \in 1 .. Len(entry.doc) : new.rows[i] = entry.doc[i]
  <2> SUFFICES ASSUME NEW i \in 1 .. Len(entry.doc) PROVE new.rows[i] = entry.doc[i]
    OBVIOUS
  <2>1. CASE i <= Len(entry.rows)
    <3>1. i \in 1 .. Len(entry.rows) BY <1>1, <2>1
    <3> QED BY <1>1, <1>5, <2>1, <3>1 DEF Begin!Fits
  <2>2. CASE ~(i <= Len(entry.rows))
    <3>1. i - Len(entry.rows) \in 1 .. Len(rest) /\ Len(entry.rows) + (i - Len(entry.rows)) = i BY <1>1, <1>3, <2>2
    <3> QED BY <1>3, <1>5, <2>2, <3>1
  <2> QED BY <2>1, <2>2
<1>7. Moved(new)
  <2>1. entry.cited <= high BY <1>2
  <2>2. \A i \in 1 .. Len(entry.doc) : entry.doc[i].label <= high BY <1>1, <1>2
  <2> QED BY <1>4, <1>5, <1>6, <2>1, <2>2 DEF Moved
<1>8. new \in RunSet
  <2>1. both \in Seq(EventSet) /\ <<>> \in Seq(EventSet) /\ high \in Nat BY <1>2, <1>4, <1>5 DEF both
  <2> QED BY <1>11, <2>1 DEF RunSet
<1>9. Begin!History(new) = Begin!History(entry)
  <2>1. SubSeq(new.doc, Len(new.rows) + 1, Len(new.doc)) = <<>> BY <1>4, <1>5
  <2>2. Begin!History(new) = new.rows BY <1>5, <2>1, ConcatEmptySeq DEF Begin!History
  <2> QED BY <1>4, <2>2 DEF Begin!History, rest
<1>10. entry.doc = <<>> => Len(new.rows) = Len(entry.rows) BY <1>1, <1>5
<1> QED BY <1>4, <1>7, <1>8, <1>9, <1>10 DEF new
-----------------------------------------------------------------------------
LEMMA PartsApart ==
  /\ Begin!Baseline \cap Begin!Tolerated = {} /\ Begin!Added \subseteq Begin!Baseline
  /\ \A r : <<"revision", r>> \notin Begin!Baseline \cup Begin!Tolerated
<1>1. \A x \in Begin!Baseline : x[1] \in {"table", "column", "index", "unique", "type"}
  BY DEF Begin!Baseline, Begin!Parts
<1>5. \A names : \A x \in Begin!Parts(names) : x[1] \in names BY DEF Begin!Parts
<1>2. \A x \in Begin!Tolerated : x[1] \in {"retired table", "spare index"} BY <1>5 DEF Begin!Tolerated
<1>3. Begin!Added \subseteq Begin!Baseline BY DEF Begin!Added, Begin!Baseline, Begin!Parts
<1>4. \A r : <<"revision", r>>[1] = "revision" OBVIOUS
<1> QED BY <1>1, <1>2, <1>3, <1>4

\* The revisions after version v bring a database at version v up to date.
LEMMA UpgradeComplete ==
  ASSUME Newest \in Nat \ {0}, NEW v \in 1 .. Newest, NEW shape, shape \ Begin!Tolerated = Begin!VersionedShape(v)
  PROVE  (shape \cup Begin!Revisions(v + 1 .. Newest)) \ Begin!Tolerated = Begin!VersionedShape(Newest)
<1>1. (2 .. v) \cup (v + 1 .. Newest) = 2 .. Newest OBVIOUS
<1>2. Begin!Revisions(v + 1 .. Newest) \cap Begin!Tolerated = {} BY PartsApart DEF Begin!Revisions
<1>3. Begin!Revisions(2 .. Newest) = Begin!Revisions(2 .. v) \cup Begin!Revisions(v + 1 .. Newest)
  BY <1>1 DEF Begin!Revisions
<1> QED BY <1>2, <1>3 DEF Begin!VersionedShape

LEMMA UpgradeTyped ==
  ASSUME Newest \in Nat \ {0}, NEW d \in Schemas
  PROVE  Begin!Upgraded(d) \in Schemas /\ Begin!Upgraded(d).version = Newest /\ Begin!Upgraded(d).done = d.done
         /\ Begin!Upgraded(d).shape = d.shape \cup Begin!Later(d) \cup (IF d.shape = {} THEN Begin!Baseline ELSE {})
<1> DEFINE shape == d.shape \cup Begin!Later(d) \cup (IF d.shape = {} THEN Begin!Baseline ELSE {})
<1>1. Begin!Upgraded(d) = [d EXCEPT !.shape = shape, !.version = Newest] BY DEF Begin!Upgraded
<1>2. Begin!Later(d) \subseteq AllParts
  <2>1. d.version \in Nat BY DEF Schemas
  <2>2. \A v \in Nat : v + 1 .. Newest \subseteq 1 .. Newest /\ (v # 0 => v + 1 .. Newest \subseteq 2 .. Newest) OBVIOUS
  <2> QED BY <2>1, <2>2 DEF Begin!Later, Begin!Unversioned, Begin!Revisions, AllParts
<1>3. shape \subseteq AllParts BY <1>2 DEF Schemas, AllParts
<1> HIDE DEF shape
<1>4. Newest \in 0 .. Newest + 1 OBVIOUS
<1>5. /\ Begin!Upgraded(d) \in Schemas /\ Begin!Upgraded(d).version = Newest /\ Begin!Upgraded(d).done = d.done
      /\ Begin!Upgraded(d).shape = shape
  BY <1>1, <1>3, <1>4 DEF Schemas
<1> QED BY <1>5 DEF shape

LEMMA LegacyColumns ==
  ASSUME SchemaInv
  PROVE  LET old == Begin!WithLegacyColumns(db) IN
         old \in Schemas /\ old.version = db.version /\ old.done = db.done /\ (db.version # 0 => old = db)
<1> DEFINE old == Begin!WithLegacyColumns(db)
<1>1. db \in Schemas BY DEF SchemaInv
<1>2. CASE Begin!Legacy(db)
  <2> DEFINE shape == db.shape \cup Begin!Added
  <2>1. shape \subseteq AllParts BY <1>1, PartsApart DEF Schemas, AllParts
  <2>2. old = [db EXCEPT !.shape = shape] /\ db.version = 0
    BY <1>2 DEF Begin!WithLegacyColumns, Begin!Legacy, Begin!Unversioned
  <2> HIDE DEF shape, old
  <2>3. old \in Schemas /\ old.version = db.version /\ old.done = db.done BY <1>1, <2>1, <2>2 DEF Schemas
  <2> QED BY <2>2, <2>3 DEF old
<1>3. CASE ~Begin!Legacy(db) BY <1>1, <1>3 DEF Begin!WithLegacyColumns
<1> QED BY <1>2, <1>3

\* Whoever opens a database leaves it as this build expects it.
LEMMA PreparesSchema ==
  ASSUME Newest \in Nat \ {0}, SchemaInv,
         NEW d, d = Begin!Prepared(Begin!WithLegacyColumns(db)), d # Begin!Refused, Begin!Readable(d, Begin!Migrations)
  PROVE  /\ d \in Schemas /\ d.version = Newest /\ d.shape \ Begin!Tolerated = Begin!VersionedShape(Newest)
         /\ d.done = db.done
<1> DEFINE old == Begin!WithLegacyColumns(db)
           one == [old EXCEPT !.version = 1]
<1>1. db \in Schemas /\ Begin!VersionTells /\ (db.version = 0 => db.done = {}) BY DEF SchemaInv
<1>2. old \in Schemas /\ old.version = db.version /\ old.done = db.done /\ (db.version # 0 => old = db)
  BY LegacyColumns
<1> HIDE DEF old
<1>3. one \in Schemas /\ one.shape = old.shape /\ one.version = 1 /\ one.done = old.done
  BY <1>2 DEF Schemas
<1> HIDE DEF one
<1>4. CASE old.version = 0 /\ old.shape = {}
  <2>1. d = Begin!Upgraded(old) BY <1>4 DEF Begin!Prepared, Begin!Unversioned, old
  <2>2. Begin!Later(old) = Begin!Revisions(2 .. Newest) BY <1>4 DEF Begin!Later, Begin!Unversioned
  <2>3. d.shape = Begin!VersionedShape(Newest)
    BY <1>2, <1>4, <2>1, <2>2, UpgradeTyped DEF Begin!VersionedShape
  <2>4. d.shape \ Begin!Tolerated = d.shape
    BY <2>3, PartsApart DEF Begin!VersionedShape, Begin!Revisions
  <2> QED BY <1>2, <2>1, <2>3, <2>4, UpgradeTyped
<1>5. CASE old.version = 0 /\ old.shape # {}
  <2>1. Begin!Differences(old.shape) = {} /\ (d = one \/ d = Begin!Upgraded(one))
    BY <1>5 DEF Begin!Prepared, Begin!Unversioned, old, one
  <2>2. old.shape \ Begin!Tolerated = Begin!Baseline
    BY <2>1, PartsApart DEF Begin!Differences
  <2>3. Begin!VersionedShape(1) = Begin!Baseline
    BY DEF Begin!VersionedShape, Begin!Revisions
  <2>4. CASE d = one
    <3>1. d.done = {} BY <1>1, <1>2, <1>3, <1>5, <2>4
    <3>2. Begin!AtHead(d.shape) BY <3>1 DEF Begin!Readable, Begin!Migrations
    <3>3. Begin!Revisions(2 .. Newest) = {}
      BY <1>3, <2>2, <2>4, <3>2, PartsApart DEF Begin!AtHead, Begin!Revisions
    <3>4. Newest = 1
      <4>1. SUFFICES ASSUME Newest # 1 PROVE FALSE OBVIOUS
      <4>2. 2 \in 2 .. Newest BY <4>1
      <4>3. <<"revision", 2>> \in Begin!Revisions(2 .. Newest) BY <4>2 DEF Begin!Revisions
      <4> QED BY <3>3, <4>3
    <3> QED BY <1>2, <1>3, <2>2, <2>3, <2>4, <3>4
  <2>5. CASE d = Begin!Upgraded(one)
    <3>1. Begin!Later(one) = Begin!Revisions(1 + 1 .. Newest) BY <1>3 DEF Begin!Later, Begin!Unversioned
    <3>2. d.shape = old.shape \cup Begin!Later(one) BY <1>3, <1>5, <2>5, UpgradeTyped
    <3> QED BY <1>2, <1>3, <2>2, <2>3, <2>5, <3>1, <3>2, UpgradeTyped, UpgradeComplete
  <2> QED BY <2>1, <2>4, <2>5
<1>6. CASE old.version # 0
  <2>1. old = db BY <1>2, <1>6
  <2>2. CASE old.version = Newest
    <3>1. d = db BY <2>1, <2>2, <1>6 DEF Begin!Prepared, Begin!Unversioned, old
    <3>2. Newest \in 1 .. Newest OBVIOUS
    <3> QED BY <1>1, <2>1, <2>2, <3>1, <3>2 DEF Begin!VersionTells
  <2>3. CASE old.version # Newest
    <3>1. d = Begin!Upgraded(old) /\ ~(old.version > Newest)
      BY <2>3, <1>6 DEF Begin!Prepared, Begin!Unversioned, old
    <3>2. old.version \in 1 .. Newest BY <1>2, <1>6, <3>1 DEF Schemas
    <3>3. old.shape \ Begin!Tolerated = Begin!VersionedShape(old.version)
      BY <1>1, <2>1, <3>2 DEF Begin!VersionTells
    <3>4. Begin!Later(old) = Begin!Revisions(old.version + 1 .. Newest) BY <1>6 DEF Begin!Later, Begin!Unversioned
    <3>5. old.shape # {} BY <3>3, PartsApart DEF Begin!VersionedShape, Begin!Baseline, Begin!Parts
    <3>6. d.shape = old.shape \cup Begin!Revisions(old.version + 1 .. Newest)
      BY <1>2, <3>1, <3>4, <3>5, UpgradeTyped
    <3> QED BY <1>2, <3>1, <3>2, <3>3, <3>6, UpgradeTyped, UpgradeComplete
  <2> QED BY <2>2, <2>3
<1> QED BY <1>4, <1>5, <1>6
LEMMA PreparesDone ==
  ASSUME Begin!Prepared(Begin!WithLegacyColumns(db)) # Begin!Refused, SchemaInv, Newest \in Nat \ {0}
  PROVE  Begin!Prepared(Begin!WithLegacyColumns(db)).done = db.done
<1> DEFINE old == Begin!WithLegacyColumns(db)
           one == [old EXCEPT !.version = 1]
           d == Begin!Prepared(old)
<1>1. old \in Schemas /\ old.done = db.done BY LegacyColumns
<1> HIDE DEF old
<1>2. one \in Schemas /\ one.done = old.done BY <1>1 DEF Schemas
<1> HIDE DEF one
<1>3. d = old \/ d = one \/ d = Begin!Upgraded(old) \/ d = Begin!Upgraded(one)
  BY DEF Begin!Prepared, old, one
<1> QED BY <1>1, <1>2, <1>3, UpgradeTyped DEF old

-----------------------------------------------------------------------------
ProcSet == [at : Stages, found : SUBSET DOMAIN runs, starts : Int]

\* One process moves on, or stops.
LEMMA ProcessMoves ==
  ASSUME BeginInv, NEW p \in Processes, NEW new \in ProcSet, procs' = [procs EXCEPT ![p] = new], UNCHANGED <<db, runs, upgrade>>,
         new.at \in Attending => db.version = Newest /\ db.done = Begin!Migrations,
         new.at = "found" => Begin!Jobless \subseteq new.found, new.at = "ready" => Begin!Jobless = {}
  PROVE  BeginInv'
<1>1. SchemaInv' BY DEF BeginInv, SchemaInv, Begin!VersionTells, ProcSet
<1>2. RunsInv' BY DEF BeginInv, RunsInv
<1>3. Begin!Jobless' = Begin!Jobless BY DEF Begin!Jobless, Begin!Runs
<1>4. QueueInv' BY <1>3 DEF BeginInv, QueueInv, SchemaInv
<1> QED BY <1>1, <1>2, <1>4 DEF BeginInv

\* The runs change, each keeping its job or being given one.
LEMMA RunsMove ==
  ASSUME BeginInv, UNCHANGED <<db, upgrade>>, DOMAIN runs' = DOMAIN runs, RunsInv', Begin!Jobless' \subseteq Begin!Jobless,
         DOMAIN procs' = Processes,
         \A p \in Processes : \/ procs'[p] = procs[p]
                              \/ /\ procs'[p] \in ProcSet /\ procs'[p].at # "found" /\ procs[p].at \in Attending
                                 /\ procs'[p].at = "ready" => Begin!Jobless' = {}
  PROVE  BeginInv'
<1>1. SchemaInv' BY DEF BeginInv, SchemaInv, Begin!VersionTells, ProcSet
<1>2. QueueInv' BY DEF BeginInv, QueueInv
<1> QED BY <1>1, <1>2 DEF BeginInv

LEMMA StartStep ==
  ASSUME BeginInv, NEW p \in Processes, Begin!Start(p) PROVE BeginInv'
<1> DEFINE n == procs[p].starts + 1
           new == [procs[p] EXCEPT !.at = "starting", !.starts = n]
<1>3. procs[p] \in ProcSet /\ DOMAIN procs = Processes BY DEF BeginInv, SchemaInv, ProcSet
<1>4. n \in Int BY <1>3 DEF ProcSet
<1>1. procs' = [procs EXCEPT ![p] = new] /\ UNCHANGED <<db, runs, upgrade>>
  <2>1. procs' = [procs EXCEPT ![p].at = "starting", ![p].starts = @ + 1] /\ UNCHANGED <<db, runs, upgrade>>
    BY DEF Begin!Start
  <2>2. procs' = [procs EXCEPT ![p].at = "starting", ![p].starts = n] BY <2>1, <1>3 DEF ProcSet
  <2> HIDE DEF n
  <2> QED BY <2>1, <2>2, <1>3
<1> HIDE DEF n
<1>2. new \in ProcSet /\ new.at = "starting" BY <1>3, <1>4 DEF ProcSet, Stages
<1> HIDE DEF new
<1> QED BY <1>1, <1>2, ProcessMoves DEF Attending

\* A process stops, with or without what it found.
LEMMA Stops ==
  ASSUME BeginInv, NEW p \in Processes, NEW found \in SUBSET DOMAIN runs, UNCHANGED <<db, runs, upgrade>>,
         procs' = [procs EXCEPT ![p] = [procs[p] EXCEPT !.at = "stopped", !.found = found]]
  PROVE  BeginInv'
<1> DEFINE new == [procs[p] EXCEPT !.at = "stopped", !.found = found]
<1>1. procs[p] \in ProcSet BY DEF BeginInv, SchemaInv, ProcSet
<1>2. new \in ProcSet /\ new.at = "stopped" BY <1>1 DEF ProcSet, Stages
<1> HIDE DEF new
<1> QED BY <1>2, ProcessMoves DEF Attending, new

LEMMA StopsAt ==
  ASSUME BeginInv, NEW p \in Processes, UNCHANGED <<db, runs, upgrade>>, procs' = [procs EXCEPT ![p].at = "stopped"]
  PROVE  BeginInv'
<1> DEFINE new == [procs[p] EXCEPT !.at = "stopped"]
<1>1. procs[p] \in ProcSet /\ procs' = [procs EXCEPT ![p] = new] BY DEF BeginInv, SchemaInv, ProcSet
<1>2. new \in ProcSet /\ new.at = "stopped" BY <1>1 DEF ProcSet, Stages
<1> HIDE DEF new
<1> QED BY <1>1, <1>2, ProcessMoves DEF Attending

LEMMA FindStep ==
  ASSUME BeginInv, NEW p \in Processes, Begin!FindJobless(p) PROVE BeginInv'
<1>1. UNCHANGED <<db, runs, upgrade>> /\ procs[p].at = "opened" /\ procs[p] \in ProcSet
  BY DEF Begin!FindJobless, BeginInv, SchemaInv, ProcSet
<1>2. CASE procs' = [procs EXCEPT ![p].at = "stopped"] BY <1>1, <1>2, StopsAt
<1>3. CASE procs' = [procs EXCEPT ![p] = [@ EXCEPT !.at = "found", !.found = Begin!Jobless]]
  <2> DEFINE new == [procs[p] EXCEPT !.at = "found", !.found = Begin!Jobless]
  <2>1. Begin!Jobless \subseteq DOMAIN runs BY DEF Begin!Jobless, Begin!Runs
  <2>2. procs' = [procs EXCEPT ![p] = new] BY <1>1, <1>3 DEF BeginInv, SchemaInv
  <2>3. new \in ProcSet /\ new.at = "found" /\ new.found = Begin!Jobless BY <1>1, <2>1 DEF ProcSet, Stages, Attending
  <2>4. db.version = Newest /\ db.done = Begin!Migrations BY <1>1 DEF BeginInv, SchemaInv, Attending
  <2> HIDE DEF new
  <2> QED BY <1>1, <2>2, <2>3, <2>4, ProcessMoves
<1> QED BY <1>2, <1>3 DEF Begin!FindJobless

LEMMA CrashStep ==
  ASSUME BeginInv, NEW p \in Processes, Begin!Crash(p) PROVE BeginInv'
<1>1. procs' = [procs EXCEPT ![p] = [procs[p] EXCEPT !.at = "stopped", !.found = {}]]
  BY DEF Begin!Crash, BeginInv, SchemaInv
<1>2. {} \in SUBSET DOMAIN runs OBVIOUS
<1> QED BY <1>1, <1>2, Stops DEF Begin!Crash

LEMMA GiveStep ==
  ASSUME BeginInv, NEW p \in Processes, Begin!GiveJobs(p) PROVE BeginInv'
<1> DEFINE found == procs[p].found
<1>1. UNCHANGED <<db, upgrade>> /\ procs[p].at = "found" /\ procs[p] \in ProcSet /\ Begin!Jobless \subseteq found
  BY DEF Begin!GiveJobs, BeginInv, SchemaInv, ProcSet, QueueInv
<1>2. CASE ~(\A r \in found : runs[r].job = "none")
  <2>1. procs' = [procs EXCEPT ![p] = [procs[p] EXCEPT !.at = "stopped", !.found = {}]] /\ UNCHANGED runs
    BY <1>2 DEF Begin!GiveJobs, BeginInv, SchemaInv
  <2>2. {} \in SUBSET DOMAIN runs OBVIOUS
  <2> QED BY <1>1, <2>1, <2>2, Stops
<1>3. CASE \A r \in found : runs[r].job = "none"
  <2> DEFINE new == [procs[p] EXCEPT !.at = "ready", !.found = {}]
             given(r) == [runs[r] EXCEPT !.job = "queued", !.status = "queued"]
  <2>1. /\ procs' = [procs EXCEPT ![p] = new]
        /\ runs' = [r \in DOMAIN runs |-> IF r \in found THEN given(r) ELSE runs[r]]
    BY <1>3 DEF Begin!GiveJobs, BeginInv, SchemaInv, Begin!Runs
  <2>2. new \in ProcSet /\ new.at = "ready" BY <1>1 DEF ProcSet, Stages, Attending
  <2>3. \A r \in DOMAIN runs :
          /\ given(r) \in RunSet /\ given(r).job = "queued" /\ given(r).status = "queued"
          /\ Moved(runs[r]) => Moved(given(r))
          /\ Unmoved(runs[r]) => Unmoved(given(r))
    <3> SUFFICES ASSUME NEW r \in DOMAIN runs
                 PROVE  /\ given(r) \in RunSet /\ given(r).job = "queued" /\ given(r).status = "queued"
                        /\ Moved(runs[r]) => Moved(given(r))
                        /\ Unmoved(runs[r]) => Unmoved(given(r))
      OBVIOUS
    <3>1. runs[r] \in RunSet BY DEF BeginInv, RunsInv
    <3>2. /\ given(r) \in RunSet /\ given(r).job = "queued" /\ given(r).status = "queued"
          /\ given(r).doc = runs[r].doc /\ given(r).rows = runs[r].rows /\ given(r).counter = runs[r].counter
          /\ given(r).cited = runs[r].cited
      BY <3>1 DEF RunSet
    <3> QED BY <3>2 DEF Moved, Unmoved
  <2> HIDE DEF new, given
  <2>4. DOMAIN runs' = DOMAIN runs BY <2>1
  <2>5. RunsInv' BY <1>1, <2>1, <2>3, <2>4 DEF BeginInv, RunsInv
  <2>6. Begin!Jobless' = {} BY <1>1, <2>1, <2>3, <2>4 DEF Begin!Jobless, Begin!Runs
  <2>7. DOMAIN procs' = Processes /\ procs'[p] = new /\ \A q \in Processes : q # p => procs'[q] = procs[q]
    BY <2>1 DEF BeginInv, SchemaInv
  <2> QED BY <1>1, <2>2, <2>4, <2>5, <2>6, <2>7, RunsMove DEF Attending
<1> QED BY <1>2, <1>3

LEMMA OpenStep ==
  ASSUME Newest \in Nat \ {0}, BeginInv, NEW p \in Processes, Begin!Open(p) PROVE BeginInv'
<1> DEFINE d == Begin!Prepared(Begin!WithLegacyColumns(db))
           moved == [r \in DOMAIN runs |-> Begin!WithRows(runs[r])]
<1>1. SchemaInv /\ RunsInv /\ QueueInv /\ procs[p] \in ProcSet BY DEF BeginInv, SchemaInv, ProcSet
<1>2. CASE UNCHANGED <<db, runs>> /\ procs' = [procs EXCEPT ![p].at = "stopped"]
  BY <1>2, StopsAt DEF Begin!Open
<1>3. CASE /\ d # Begin!Refused /\ Begin!Readable(d, Begin!Migrations)
           /\ "events" \in d.done \/ \A r \in DOMAIN runs : Begin!InOrder(runs[r]) /\ Begin!Fits(runs[r])
           /\ db' = [d EXCEPT !.done = Begin!Migrations]
           /\ runs' = IF "events" \in d.done THEN runs ELSE moved
           /\ procs' = [procs EXCEPT ![p].at = "opened"]
  <2> DEFINE new == [procs[p] EXCEPT !.at = "opened"]
  <2>1. /\ d \in Schemas /\ d.version = Newest /\ d.shape \ Begin!Tolerated = Begin!VersionedShape(Newest)
        /\ d.done = db.done
    BY <1>1, <1>3, PreparesSchema
  <2> HIDE DEF d
  <2>2. /\ db' \in Schemas /\ db'.version = Newest /\ db'.shape = d.shape /\ db'.done = Begin!Migrations
    BY <1>3, <2>1 DEF Schemas
  <2>3. Begin!VersionTells' BY <2>1, <2>2 DEF Begin!VersionTells
  <2>4. procs' = [procs EXCEPT ![p] = new] BY <1>1, <1>3 DEF SchemaInv
  <2>5. new \in ProcSet /\ new.at = "opened" BY <1>1 DEF ProcSet, Stages, Attending
  <2> HIDE DEF new
  <2>6. /\ DOMAIN runs' = DOMAIN runs
        /\ \A r \in DOMAIN runs : /\ runs'[r] \in RunSet /\ Moved(runs'[r])
                                  /\ runs'[r].job = runs[r].job /\ runs'[r].status = runs[r].status
    <3>1. CASE "events" \in d.done BY <1>1, <1>3, <2>1, <3>1 DEF RunsInv
    <3>2. CASE "events" \notin d.done
      <4>1. runs' = moved BY <1>3, <3>2
      <4>2. \A r \in DOMAIN runs : runs[r] \in RunSet /\ Unmoved(runs[r]) /\ Begin!Fits(runs[r])
        BY <1>1, <1>3, <2>1, <3>2 DEF RunsInv
      <4> QED BY <4>1, <4>2, RowsOfRun
    <3> QED BY <3>1, <3>2
  <2>7. "events" \in db'.done BY <2>2 DEF Begin!Migrations
  <2>8. RunsInv' BY <1>1, <2>6, <2>7 DEF RunsInv
  <2>9. Begin!Jobless' = Begin!Jobless BY <2>6 DEF Begin!Jobless, Begin!Runs
  <2>10. DOMAIN procs' = Processes /\ procs'[p] = new /\ \A q \in Processes : q # p => procs'[q] = procs[q]
    BY <1>1, <2>4 DEF SchemaInv
  <2>11. SchemaInv' BY <1>1, <2>2, <2>3, <2>5, <2>6, <2>10 DEF SchemaInv, ProcSet
  <2>12. QueueInv' BY <1>1, <2>5, <2>9, <2>10 DEF QueueInv
  <2> QED BY <2>8, <2>11, <2>12 DEF BeginInv
<1> QED BY <1>2, <1>3 DEF Begin!Open, Begin!Runs

\* What a worker does with a run: it takes its job, or finishes with an event.
Finished(entry) ==
  [entry EXCEPT !.job = "success", !.status = "success", !.counter = @ + 1,
              !.rows = Append(@, [seq |-> Len(@) + 1, label |-> entry.counter + 1])]
Taken(entry) == [entry EXCEPT !.job = "running", !.status = "running"]

LEMMA FinishedRun ==
  ASSUME NEW entry \in RunSet, Moved(entry)
  PROVE  LET new == Finished(entry)
             event == [seq |-> Len(entry.rows) + 1, label |-> entry.counter + 1] IN
         /\ new \in RunSet /\ Moved(new) /\ new.job = "success" /\ new.status = "success" /\ new.doc = <<>>
         /\ new.rows = Append(entry.rows, event) /\ event \in EventSet
<1> DEFINE event == [seq |-> Len(entry.rows) + 1, label |-> entry.counter + 1]
           lines == Append(entry.rows, event)
           new == Finished(entry)
<1>1. entry.rows \in Seq(EventSet) /\ entry.counter \in Nat /\ entry.doc = <<>> BY DEF RunSet, Moved
<1>2. event \in EventSet /\ event.label = entry.counter + 1 BY <1>1 DEF EventSet
<1> DEFINE n == entry.counter + 1
<1>3. new = [entry EXCEPT !.job = "success", !.status = "success", !.counter = n, !.rows = lines]
  BY DEF Finished, RunSet
<1>7. n \in Nat BY <1>1
<1> HIDE DEF event, new, n
<1>4. lines \in Seq(EventSet) /\ Len(lines) = Len(entry.rows) + 1 /\ lines[Len(entry.rows) + 1] = event
      /\ \A i \in 1 .. Len(entry.rows) : lines[i] = entry.rows[i]
  BY <1>1, <1>2
<1> HIDE DEF lines
<1>5. /\ new \in RunSet /\ new.job = "success" /\ new.status = "success" /\ new.doc = entry.doc /\ new.rows = lines
      /\ new.counter = n /\ new.cited = entry.cited
  BY <1>1, <1>3, <1>4, <1>7 DEF RunSet
<1>6. Moved(new)
  <2>1. \A i \in 1 .. Len(entry.rows) + 1 : i \in 1 .. Len(entry.rows) \/ i = Len(entry.rows) + 1 BY <1>1
  <2>5. \A i \in 1 .. Len(entry.rows) : entry.rows[i] \in EventSet BY <1>1
  <2>2. \A i \in 1 .. Len(entry.rows) : entry.rows[i].label <= entry.counter /\ entry.rows[i].label \in Nat
    BY <2>5 DEF Moved, EventSet
  <2>3. \A i \in 1 .. Len(new.rows) : new.rows[i].label <= new.counter
    <3>1. Len(new.rows) = Len(entry.rows) + 1 /\ new.counter = entry.counter + 1 BY <1>4, <1>5 DEF n
    <3>2. \A i \in 1 .. Len(entry.rows) : new.rows[i] = entry.rows[i] BY <1>4, <1>5
    <3>3. new.rows[Len(entry.rows) + 1].label = entry.counter + 1 BY <1>2, <1>4, <1>5
    <3>4. \A i \in 1 .. Len(entry.rows) : new.rows[i].label <= entry.counter + 1 BY <1>1, <2>2, <3>2
    <3> QED BY <1>1, <2>1, <3>1, <3>3, <3>4
  <2>4. new.cited <= new.counter BY <1>5, <1>1 DEF Moved, RunSet, n
  <2> QED BY <1>1, <1>5, <2>3, <2>4 DEF Moved
<1> QED BY <1>1, <1>2, <1>5, <1>6 DEF event, lines, new

LEMMA WorksOnOne ==
  ASSUME BeginInv, NEW p \in Processes, Begin!Work(p)
  PROVE  \E r \in DOMAIN runs :
           /\ \/ runs[r].job = "queued" /\ runs'[r] = Taken(runs[r])
              \/ runs[r].job = "running" /\ runs'[r] = Finished(runs[r])
           /\ DOMAIN runs' = DOMAIN runs /\ \A q \in DOMAIN runs : q # r => runs'[q] = runs[q]
<1>1. ASSUME NEW r \in DOMAIN runs, runs' = [runs EXCEPT ![r].job = "running", ![r].status = "running"]
      PROVE  runs'[r] = Taken(runs[r]) /\ DOMAIN runs' = DOMAIN runs /\ \A q \in DOMAIN runs : q # r => runs'[q] = runs[q]
  BY <1>1 DEF Taken
<1>2. ASSUME NEW r \in DOMAIN runs, runs[r] \in RunSet,
             runs' = [runs EXCEPT ![r].job = "success", ![r].status = "success", ![r].counter = @ + 1,
                        ![r].rows = Append(@, [seq |-> Len(@) + 1, label |-> runs[r].counter + 1])]
      PROVE  runs'[r] = Finished(runs[r]) /\ DOMAIN runs' = DOMAIN runs /\ \A q \in DOMAIN runs : q # r => runs'[q] = runs[q]
  <2> DEFINE n == runs[r].counter + 1
             lines == Append(runs[r].rows, [seq |-> Len(runs[r].rows) + 1, label |-> n])
  <2>1. runs' = [runs EXCEPT ![r].job = "success", ![r].status = "success", ![r].counter = n, ![r].rows = lines]
    BY <1>2 DEF RunSet
  <2>2. Finished(runs[r]) = [runs[r] EXCEPT !.job = "success", !.status = "success", !.counter = n, !.rows = lines]
    BY DEF Finished
  <2> HIDE DEF n, lines
  <2> QED BY <2>1, <2>2
<1>3. PICK r \in DOMAIN runs :
       \/ runs[r].job = "queued" /\ runs' = [runs EXCEPT ![r].job = "running", ![r].status = "running"]
       \/ /\ runs[r].job = "running"
          /\ runs' = [runs EXCEPT ![r].job = "success", ![r].status = "success", ![r].counter = @ + 1,
                        ![r].rows = Append(@, [seq |-> Len(@) + 1, label |-> runs[r].counter + 1])]
  BY DEF Begin!Work, Begin!Runs
<1>4. runs[r] \in RunSet BY DEF BeginInv, RunsInv
<1> QED BY <1>1, <1>2, <1>3, <1>4

LEMMA WorkStep ==
  ASSUME BeginInv, NEW p \in Processes, Begin!Work(p) PROVE BeginInv'
<1>1. PICK r \in DOMAIN runs : /\ runs'[r] = Taken(runs[r]) \/ runs'[r] = Finished(runs[r])
                               /\ DOMAIN runs' = DOMAIN runs /\ \A q \in DOMAIN runs : q # r => runs'[q] = runs[q]
  BY WorksOnOne
<1>2. UNCHANGED <<db, upgrade, procs>> /\ "events" \in db.done
  BY DEF Begin!Work, BeginInv, SchemaInv, Attending, Begin!Migrations
<1>3. runs[r] \in RunSet /\ Moved(runs[r]) BY <1>2 DEF BeginInv, RunsInv
<1>4. runs'[r] \in RunSet /\ Moved(runs'[r]) /\ runs'[r].job # "none" /\ runs'[r].job = runs'[r].status
  <2>1. /\ Taken(runs[r]) \in RunSet /\ Moved(Taken(runs[r])) /\ Taken(runs[r]).job = "running"
        /\ Taken(runs[r]).status = "running"
    <3> DEFINE new == Taken(runs[r])
    <3>1. /\ new \in RunSet /\ new.job = "running" /\ new.status = "running"
          /\ new.doc = runs[r].doc /\ new.rows = runs[r].rows /\ new.counter = runs[r].counter /\ new.cited = runs[r].cited
      BY <1>3 DEF RunSet, Taken
    <3> QED BY <1>3, <3>1 DEF Moved
  <2> QED BY <1>1, <1>3, <2>1, FinishedRun
<1>6. RunsInv' BY <1>1, <1>2, <1>4 DEF BeginInv, RunsInv
<1>7. Begin!Jobless' \subseteq Begin!Jobless BY <1>1, <1>4 DEF Begin!Jobless, Begin!Runs
<1> QED BY <1>1, <1>2, <1>6, <1>7, RunsMove DEF BeginInv, SchemaInv
-----------------------------------------------------------------------------
LEMMA BeginStart == Newest \in Nat \ {0} /\ MaxRunEvents \in Nat /\ Begin!Init => BeginInv
<1> SUFFICES ASSUME Newest \in Nat \ {0}, MaxRunEvents \in Nat, Begin!Init PROVE BeginInv
  OBVIOUS
<1>1. procs = [p \in Processes |-> [at |-> "off", found |-> {}, starts |-> 0]] BY DEF Begin!Init
<1>2. QueueInv BY <1>1 DEF QueueInv
<1>3. ASSUME db \in Schemas, Begin!VersionTells, db.version = 0 => db.done = {} PROVE SchemaInv
  BY <1>1, <1>3 DEF SchemaInv, Stages, Attending
<1>4. CASE \E entry \in Begin!OldRuns : db = Begin!Database(Begin!Baseline \ Begin!Added, Begin!Unversioned, {}) /\ runs = <<entry>>
  <2> PICK entry \in Begin!OldRuns :
        db = [shape |-> Begin!Baseline \ Begin!Added, version |-> 0, done |-> {}] /\ runs = <<entry>>
    BY <1>4 DEF Begin!Database, Begin!Unversioned
  <2>1. db \in Schemas /\ db.version = 0 /\ db.done = {}
    <3> DEFINE shape == Begin!Baseline \ Begin!Added
    <3>1. shape \subseteq AllParts /\ db = [shape |-> shape, version |-> 0, done |-> {}] BY DEF AllParts
    <3> HIDE DEF shape
    <3> QED BY <3>1 DEF Schemas
  <2>2. SchemaInv BY <1>3, <2>1 DEF Begin!VersionTells
  <2>10. PICK doc \in Begin!Documents, cited \in {0, 1},
             js \in {<<"none", "running">>, <<"queued", "queued">>, <<"none", "success">>} :
          entry \in {Begin!Run(doc, SubSeq(doc, 1, n), cited, js[1], js[2]) : n \in 0 .. Len(doc)}
    BY DEF Begin!OldRuns
  <2>3. PICK n \in 0 .. Len(doc) :
          entry = [doc |-> doc, rows |-> SubSeq(doc, 1, n), counter |-> 0, cited |-> cited, job |-> js[1], status |-> js[2]]
    BY <2>10 DEF Begin!Run
  <2>4. doc \in Seq(EventSet) /\ \A i \in 1 .. Len(doc) : doc[i].label \in {0, 3}
    <3>1. CASE doc = <<Begin!Event(2, 0)>>
      <4>1. Begin!Event(2, 0) \in EventSet /\ Begin!Event(2, 0).label = 0 BY DEF Begin!Event, EventSet
      <4> QED BY <3>1, <4>1
    <3>2. ASSUME NEW m \in 0 .. MaxRunEvents, NEW labels \in [1 .. m -> {0, 3}], doc = [i \in 1 .. m |-> Begin!Event(i, labels[i])]
          PROVE  doc \in Seq(EventSet) /\ \A i \in 1 .. Len(doc) : doc[i].label \in {0, 3}
      <4>1. \A i \in 1 .. m : Begin!Event(i, labels[i]) \in EventSet /\ Begin!Event(i, labels[i]).label \in {0, 3}
        <5> SUFFICES ASSUME NEW i \in 1 .. m
                     PROVE  Begin!Event(i, labels[i]) \in EventSet /\ Begin!Event(i, labels[i]).label \in {0, 3}
          OBVIOUS
        <5>1. i \in Nat /\ labels[i] \in {0, 3} OBVIOUS
        <5> QED BY <5>1 DEF Begin!Event, EventSet
      <4>2. doc \in [1 .. m -> EventSet] /\ \A i \in 1 .. m : doc[i].label \in {0, 3} BY <3>2, <4>1
      <4>3. Len(doc) = m BY <4>2
      <4> QED BY <4>2, <4>3
    <3> QED BY <3>1, <3>2 DEF Begin!Documents
  <2> DEFINE lines == SubSeq(doc, 1, n)
  <2>5. lines \in Seq(EventSet) /\ Len(lines) = n /\ n <= Len(doc) BY <2>4
  <2> HIDE DEF lines
  <2>6. entry = [doc |-> doc, rows |-> lines, counter |-> 0, cited |-> cited, job |-> js[1], status |-> js[2]] BY <2>3 DEF lines
  <2>7. entry \in RunSet /\ (entry.job # "none" => entry.job = entry.status) /\ entry.job \in {"none", "queued"}
    BY <2>4, <2>5, <2>6 DEF RunSet
  <2>8. Unmoved(entry) BY <2>4, <2>5, <2>6, <2>7 DEF Unmoved
  <2>9. RunsInv BY <2>1, <2>7, <2>8 DEF RunsInv
  <2> QED BY <1>2, <2>2, <2>9 DEF BeginInv
<1>5. CASE /\ db \in Begin!Databases
           /\ runs = IF db.shape = {} THEN <<>>
                     ELSE <<Begin!Run(<<>>, <<>>, 0, "none", "running"), Begin!Run(<<>>, <<>>, 0, "queued", "queued")>>
  <2>1. \A r \in DOMAIN runs : \/ runs[r] = Begin!Run(<<>>, <<>>, 0, "none", "running")
                               \/ runs[r] = Begin!Run(<<>>, <<>>, 0, "queued", "queued")
    BY <1>5
  <2>2. ASSUME NEW job \in {"none", "queued"}, NEW state \in {"running", "queued"}, job = "none" \/ job = state
        PROVE  LET entry == Begin!Run(<<>>, <<>>, 0, job, state) IN
               entry \in RunSet /\ entry.job = job /\ entry.status = state /\ Moved(entry) /\ Unmoved(entry)
    BY DEF Begin!Run, RunSet, Moved, Unmoved
  <2>3. RunsInv BY <2>1, <2>2 DEF RunsInv
  <2>4. Begin!Baseline \cup Begin!Tolerated \cup {<<"foreign", 1>>} \cup {<<"revision", 2>>} \subseteq AllParts
    BY DEF AllParts
  <2>5. CASE db.version = 0 /\ db.done = {} /\ db \in Schemas
    BY <1>2, <1>3, <2>3, <2>5 DEF BeginInv, Begin!VersionTells
  <2>6. CASE db = Begin!Database({}, Begin!Unversioned, {})
    <3>1. db.version = 0 /\ db.done = {} /\ db \in Schemas
      BY <2>6 DEF Begin!Database, Begin!Unversioned, Schemas
    <3> QED BY <2>5, <3>1
  <2>7. ASSUME NEW s \in Begin!OldShapes, db = Begin!Database(s, Begin!Unversioned, {}) PROVE BeginInv
    <3>1. s \subseteq AllParts
      <4>1. Begin!Parts({"foreign"}) = {<<"foreign", 1>>} /\ Begin!Revisions({2}) = {<<"revision", 2>>}
        BY DEF Begin!Parts, Begin!Revisions
      <4> QED BY <2>4, <4>1 DEF Begin!OldShapes
    <3>2. db.version = 0 /\ db.done = {} /\ db \in Schemas
      BY <2>7, <3>1 DEF Begin!Database, Begin!Unversioned, Schemas
    <3> QED BY <2>5, <3>2
  <2>8. ASSUME NEW v \in 1 .. Newest, db = Begin!Database(Begin!VersionedShape(v), v, Begin!Migrations) PROVE BeginInv
    <3>1. Begin!VersionedShape(v) \subseteq AllParts
      <4>1. 2 .. v \subseteq 2 .. Newest + 1 OBVIOUS
      <4> QED BY <4>1 DEF Begin!VersionedShape, AllParts, Begin!Revisions
    <3>2. db = [shape |-> Begin!VersionedShape(v), version |-> v, done |-> Begin!Migrations]
      BY <2>8 DEF Begin!Database
    <3>3. db \in Schemas /\ db.version = v /\ db.shape = Begin!VersionedShape(v) BY <3>1, <3>2 DEF Schemas
    <3>4. db.shape \ Begin!Tolerated = Begin!VersionedShape(v)
      BY <3>3, PartsApart DEF Begin!VersionedShape, Begin!Revisions
    <3> QED BY <1>2, <1>3, <2>3, <3>3, <3>4 DEF BeginInv, Begin!VersionTells
  <2>9. CASE db = Begin!Database(Begin!VersionedShape(Newest) \cup Begin!Revisions({Newest + 1}), Newest + 1, Begin!Migrations)
    <3> DEFINE shape == Begin!VersionedShape(Newest) \cup Begin!Revisions({Newest + 1})
    <3>1. shape \subseteq AllParts
      <4>1. 2 .. Newest \subseteq 2 .. Newest + 1 /\ Newest + 1 \in 2 .. Newest + 1 OBVIOUS
      <4> QED BY <4>1 DEF Begin!VersionedShape, AllParts, Begin!Revisions
    <3>2. db = [shape |-> shape, version |-> Newest + 1, done |-> Begin!Migrations]
      BY <2>9 DEF Begin!Database
    <3> HIDE DEF shape
    <3>3. db \in Schemas /\ db.version = Newest + 1 BY <3>1, <3>2 DEF Schemas
    <3> QED BY <1>2, <1>3, <2>3, <3>3 DEF BeginInv, Begin!VersionTells
  <2> QED BY <1>5, <2>6, <2>7, <2>8, <2>9 DEF Begin!Databases
<1> QED BY <1>4, <1>5 DEF Begin!Init

LEMMA BeginStep == Newest \in Nat \ {0} /\ BeginInv /\ [Begin!Next]_(Begin!vars) => BeginInv'
<1> SUFFICES ASSUME Newest \in Nat \ {0}, BeginInv, [Begin!Next]_(Begin!vars) PROVE BeginInv'
  OBVIOUS
<1>1. CASE UNCHANGED Begin!vars
  BY <1>1 DEF Begin!vars, BeginInv, SchemaInv, RunsInv, QueueInv, Begin!VersionTells, Begin!Jobless, Begin!Runs
<1> QED BY <1>1, StartStep, OpenStep, FindStep, GiveStep, CrashStep, WorkStep DEF Begin!Next

-----------------------------------------------------------------------------
\* What HistoryStep says of one run.
KeepsHistory(old, new) ==
  /\ SubSeq(Begin!History(new), 1, Len(Begin!History(old))) = Begin!History(old)
  /\ old.job # "none" => new.job # "none" /\ (old.status = "success" => new = old)
  /\ old.job = "running" => new.job # "queued"
  /\ Len(new.rows) > Len(old.rows) /\ old.doc = <<>> =>
       \A i \in DOMAIN old.rows : Begin!Last(new.rows).label > Begin!Max({old.rows[i].label, old.cited})

LEMMA HistoryTyped ==
  ASSUME NEW entry \in RunSet, Moved(entry) \/ Unmoved(entry)
  PROVE  Begin!History(entry) \in Seq(EventSet) /\ (entry.doc = <<>> => Begin!History(entry) = entry.rows)
<1>1. entry.rows \in Seq(EventSet) /\ entry.doc \in Seq(EventSet) BY DEF RunSet
<1>2. CASE entry.doc = <<>>
  <2>1. Len(entry.rows) + 1 \in Int /\ Len(entry.doc) = 0 /\ Len(entry.rows) + 1 > 0 BY <1>1, <1>2
  <2>2. SubSeq(entry.doc, Len(entry.rows) + 1, Len(entry.doc)) = <<>> BY <2>1, SubSeqEmpty
  <2> QED BY <1>1, <2>2, ConcatEmptySeq DEF Begin!History
<1>3. CASE entry.doc # <<>>
  <2> DEFINE m == Len(entry.rows)
             n == Len(entry.doc)
  <2>1. m \in Nat /\ n \in Nat /\ m <= n BY <1>1, <1>3 DEF Moved, Unmoved
  <2> HIDE DEF m
  <2>2. SubSeq(entry.doc, m + 1, n) \in Seq(EventSet) BY <1>1, <2>1
  <2> QED BY <1>1, <1>3, <2>2, ConcatProperties DEF Begin!History, m
<1> QED BY <1>2, <1>3

LEMMA KeepsAsIs ==
  ASSUME NEW old \in RunSet, Moved(old) \/ Unmoved(old), NEW new, Begin!History(new) = Begin!History(old),
         Len(new.rows) = Len(old.rows) \/ old.doc # <<>>, old.job # "none" => new.job # "none" /\ (old.status = "success" => new = old),
         old.job = "running" => new.job # "queued"
  PROVE  KeepsHistory(old, new)
<1>1. Begin!History(old) \in Seq(EventSet) BY HistoryTyped
<1>2. SubSeq(Begin!History(new), 1, Len(Begin!History(old))) = Begin!History(old) BY <1>1, SubSeqFull
<1>3. Len(old.rows) \in Nat BY DEF RunSet
<1> QED BY <1>2, <1>3 DEF KeepsHistory

LEMMA KeepsFinished ==
  ASSUME NEW old \in RunSet, Moved(old), old.job = "running", old.status = "running" PROVE KeepsHistory(old, Finished(old))
<1> DEFINE new == Finished(old)
           event == [seq |-> Len(old.rows) + 1, label |-> old.counter + 1]
           n == Len(old.rows)
<1>1. /\ new \in RunSet /\ Moved(new) /\ new.job = "success" /\ new.doc = <<>>
      /\ new.rows = Append(old.rows, event) /\ event \in EventSet
  BY FinishedRun
<1>2. old.rows \in Seq(EventSet) /\ n \in Nat /\ old.doc = <<>> /\ old.counter \in Nat /\ old.cited \in Nat /\ event.label = old.counter + 1
  BY DEF RunSet, Moved
<1> HIDE DEF new, event
<1>3. Begin!History(new) = new.rows /\ Begin!History(old) = old.rows BY <1>1, <1>2, HistoryTyped
<1>4. new.rows \in Seq(EventSet) /\ Len(new.rows) = n + 1 /\ new.rows[n + 1] = event
      /\ \A i \in 1 .. n : new.rows[i] = old.rows[i]
  BY <1>1, <1>2
<1>5. SubSeq(new.rows, 1, n) = old.rows
  <2>1. SubSeq(new.rows, 1, n) \in Seq(EventSet) /\ Len(SubSeq(new.rows, 1, n)) = n
        /\ \A i \in 1 .. n : SubSeq(new.rows, 1, n)[i] = new.rows[i]
    BY <1>2, <1>4
  <2> QED BY <1>2, <1>4, <2>1, SeqEqual
<1>6. \A i \in DOMAIN old.rows : Begin!Last(new.rows).label > Begin!Max({old.rows[i].label, old.cited})
  <2>6. DOMAIN old.rows = 1 .. n BY <1>2
  <2> HIDE DEF n
  <2> TAKE i \in DOMAIN old.rows
  <2>1. Begin!Last(new.rows).label = old.counter + 1 BY <1>2, <1>4 DEF Begin!Last
  <2>2. old.rows[i] \in EventSet BY <1>2, <2>6
  <2>3. old.rows[i].label \in Nat /\ old.rows[i].label <= old.counter /\ old.cited <= old.counter
    BY <2>2, <2>6 DEF EventSet, Moved, n
  <2>5. old.rows[i].label \in Int /\ old.cited \in Int BY <1>2, <2>3
  <2>4. Begin!Max({old.rows[i].label, old.cited}) \in {old.rows[i].label, old.cited} BY <2>5, MaxOfTwo
  <2> QED BY <1>2, <2>1, <2>3, <2>4
<1> QED BY <1>1, <1>3, <1>5, <1>6 DEF KeepsHistory, new

LEMMA HistoryKept == Newest \in Nat \ {0} /\ BeginInv /\ Begin!Next => Begin!HistoryStep
<1> SUFFICES ASSUME Newest \in Nat \ {0}, BeginInv, NEW p \in Processes,
                    Begin!Start(p) \/ Begin!Open(p) \/ Begin!FindJobless(p) \/ Begin!GiveJobs(p) \/ Begin!Crash(p) \/ Begin!Work(p),
                    NEW r \in DOMAIN runs
             PROVE  KeepsHistory(runs[r], runs'[r])
  BY DEF Begin!Next, Begin!HistoryStep, Begin!Runs, KeepsHistory
<1> DEFINE entry == runs[r]
<1>1. /\ entry \in RunSet /\ (entry.job # "none" => entry.job = entry.status)
      /\ IF "events" \in db.done THEN Moved(entry) ELSE Unmoved(entry)
  BY DEF BeginInv, RunsInv
<1> HIDE DEF entry
<1>2. CASE runs'[r] = entry BY <1>1, <1>2, KeepsAsIs DEF entry
<1>3. CASE Begin!Start(p) \/ Begin!FindJobless(p) \/ Begin!Crash(p)
  BY <1>2, <1>3 DEF Begin!Start, Begin!FindJobless, Begin!Crash, entry
<1>4. CASE Begin!Open(p)
  <2>1. CASE runs' # runs
    <3>1. /\ "events" \notin Begin!Prepared(Begin!WithLegacyColumns(db)).done /\ Begin!Fits(entry)
          /\ runs'[r] = Begin!WithRows(entry) /\ Begin!Prepared(Begin!WithLegacyColumns(db)).done = db.done
      <4> DEFINE d == Begin!Prepared(Begin!WithLegacyColumns(db))
      <4>1. d # Begin!Refused /\ Begin!Readable(d, Begin!Migrations) /\ "events" \notin d.done
            /\ (\A q \in DOMAIN runs : Begin!Fits(runs[q])) /\ runs' = [q \in DOMAIN runs |-> Begin!WithRows(runs[q])]
        BY <1>4, <2>1 DEF Begin!Open, Begin!Runs
      <4> HIDE DEF d
      <4>2. d.done = db.done BY <4>1, PreparesDone DEF d, BeginInv
      <4> QED BY <4>1, <4>2 DEF entry, d
    <3>2. Unmoved(entry) BY <1>1, <3>1
    <3>3. /\ Begin!History(runs'[r]) = Begin!History(entry) /\ runs'[r].job = entry.job /\ runs'[r].status = entry.status
          /\ (entry.doc = <<>> => Len(runs'[r].rows) = Len(entry.rows))
      BY <1>1, <3>1, <3>2, RowsOfRun
    <3>4. entry.job \in {"none", "queued"} /\ (entry.job # "none" => entry.status # "success") BY <1>1, <3>2 DEF Unmoved
    <3> QED BY <1>1, <3>2, <3>3, <3>4, KeepsAsIs DEF entry
  <2> QED BY <1>2, <2>1 DEF entry
<1>5. CASE Begin!GiveJobs(p)
  <2>1. CASE runs'[r] # entry
    <3> DEFINE new == [entry EXCEPT !.job = "queued", !.status = "queued"]
    <3>1. entry.job = "none" /\ runs'[r] = new
      BY <1>5, <2>1 DEF Begin!GiveJobs, Begin!Runs, entry
    <3>2. new.rows = entry.rows /\ new.doc = entry.doc BY <1>1 DEF RunSet
    <3> HIDE DEF new
    <3>3. Begin!History(new) = Begin!History(entry) BY <3>2 DEF Begin!History
    <3> QED BY <1>1, <3>1, <3>2, <3>3, KeepsAsIs DEF entry
  <2> QED BY <1>2, <2>1
<1>6. CASE Begin!Work(p)
  <2>1. "events" \in db.done BY <1>6 DEF Begin!Work, BeginInv, SchemaInv, Attending, Begin!Migrations
  <2>2. CASE entry.job = "running" /\ runs'[r] = Finished(entry)
    BY <1>1, <2>1, <2>2, KeepsFinished DEF entry
  <2>3. CASE entry.job = "queued" /\ runs'[r] = Taken(entry)
    <3> DEFINE new == Taken(entry)
    <3>1. new.rows = entry.rows /\ new.doc = entry.doc /\ new.job = "running" BY <1>1 DEF RunSet, Taken
    <3> HIDE DEF new
    <3>2. Begin!History(new) = Begin!History(entry) BY <3>1 DEF Begin!History
    <3> QED BY <1>1, <2>3, <3>1, <3>2, KeepsAsIs DEF entry, new
  <2> QED BY <1>2, <1>6, <2>2, <2>3, WorksOnOne DEF entry
<1> QED BY <1>3, <1>4, <1>5, <1>6

\* The invariant says what a process that is ready finds.
LEMMA BeginHolds == Newest \in Nat \ {0} /\ BeginInv => Begin!VersionTells /\ Begin!ReadyMeansReady
<1> SUFFICES ASSUME Newest \in Nat \ {0}, BeginInv PROVE Begin!VersionTells /\ Begin!ReadyMeansReady
  OBVIOUS
<1>1. Newest \in 1 .. Newest OBVIOUS
<1>2. ASSUME NEW p \in Processes, procs[p].at = "ready"
      PROVE  /\ Begin!AtHead(db.shape) /\ db.version = Newest
             /\ \A r \in DOMAIN runs : runs[r].doc = <<>> /\ (runs[r].status \in Begin!Unfinished => runs[r].job # "none")
  <2>1. db.version = Newest /\ "events" \in db.done
    BY <1>2 DEF BeginInv, SchemaInv, Attending, Begin!Migrations
  <2>2. Begin!AtHead(db.shape)
    BY <1>1, <2>1 DEF BeginInv, SchemaInv, Begin!VersionTells, Begin!AtHead, Begin!VersionedShape
  <2>3. \A r \in DOMAIN runs : runs[r].doc = <<>> BY <2>1 DEF BeginInv, RunsInv, Moved
  <2>4. Begin!Jobless = {} BY <1>2 DEF BeginInv, QueueInv
  <2> QED BY <2>1, <2>2, <2>3, <2>4 DEF Begin!Jobless, Begin!Runs
<1> QED BY <1>2 DEF Begin!ReadyMeansReady, Begin!Runs, BeginInv, SchemaInv

\* The version recorded in a database is what its schema is, whoever starts on it
\* and whenever a process stops; a process that is ready finds the schema of its
\* build, every event in its row and every unfinished run in the queue; and no
\* step loses an event, gives a cited label again or takes back a worker's result
\* (schema.py, storage.py Store, migrations).
THEOREM StartsOnWhatItExpects ==
  /\ Newest \in Nat \ {0} /\ MaxRunEvents \in Nat /\ Begin!Spec => [](Begin!VersionTells /\ Begin!ReadyMeansReady)
  /\ Newest \in Nat \ {0} /\ MaxRunEvents \in Nat /\ Begin!Spec => [][Begin!HistoryStep]_(Begin!vars)
<1>1. CASE Newest \in Nat \ {0} /\ MaxRunEvents \in Nat
  <2>1. Begin!Init => BeginInv BY <1>1, BeginStart
  <2>2. BeginInv /\ [Begin!Next]_(Begin!vars) => BeginInv' BY <1>1, BeginStep
  <2>3. BeginInv => Begin!VersionTells /\ Begin!ReadyMeansReady BY <1>1, BeginHolds
  <2>4. BeginInv /\ [Begin!Next]_(Begin!vars) => [Begin!HistoryStep]_(Begin!vars) BY <1>1, HistoryKept
  <2> QED BY <2>1, <2>2, <2>3, <2>4, PTL DEF Begin!Spec
<1> QED BY <1>1

-----------------------------------------------------------------------------
(***************************************************************************)
(* RunView: the events under a run are its own.                            *)
(***************************************************************************)
CONSTANTS Runs, MaxPending
VARIABLES server, run, events, running, busy, active, pending, crossed
View == INSTANCE RunView

RunWords == {"none", "running", "awaiting_approval", "over", "waiting", "failed", "ok"}
RunIds == Runs \cup {0}
AskedKinds == {"validate", "load", "start", "finish", "listing", "recover", "page", "timer", "approve", "reject", "resume", "show"}
Asked == [kind : AskedKinds,
          id : RunIds, answer : RunWords, same : BOOLEAN, busy : BOOLEAN]
ViewTyped ==
  /\ server \in [Runs -> RunWords] /\ running \in BOOLEAN /\ busy \in BOOLEAN /\ crossed \in BOOLEAN
  /\ run \in [id : RunIds, status : RunWords] /\ (run.id = 0 => run.status = "none")
  /\ stream \in [id : RunIds, open : BOOLEAN] /\ (stream.id = 0 => ~stream.open)
  /\ active \in RunIds /\ pending \subseteq Asked
  /\ \A r \in pending : (r.kind \notin {"validate", "load"} => r.id \in Runs) /\ (r.busy => r.kind \in {"recover", "page"})

Blank == run.id = 0 /\ events = {} /\ stream.id = 0

\* Unless names were crossed, one run has the view: what is shown, followed and
\* awaited, and what is asked of the run shown, are of that one.
OneRun ==
  /\ events \subseteq {run.id}
  /\ stream.id \in {0, run.id}
  /\ active \in {0, run.id} \/ Blank
  /\ \A r \in pending : r.same =>
       /\ r.kind \in {"approve", "reject", "resume"} => r.id = run.id
       /\ r.kind = "start" => Blank /\ active = 0
  /\ \A r, x \in pending : r.kind = "start" /\ x.kind = "start" /\ r.same /\ x.same => r = x

\* Somebody will let the user on.
Following(r) == r.kind \in {"recover", "timer"} \/ (r.kind \in {"finish", "listing"} /\ stream.id = r.id)
Attended ==
  running => /\ active # 0
             /\ (stream.id = active /\ stream.open) \/ \E r \in pending : r.id = active /\ Following(r)

Busying(r) == r.kind \in {"validate", "start", "approve", "reject", "resume"} \/ r.busy

ViewInv ==
  /\ ViewTyped
  /\ ~crossed => OneRun /\ Attended
  /\ busy => \E r \in pending : Busying(r)

LEMMA RequestTyped ==
  ASSUME NEW kind \in AskedKinds,
         NEW id \in RunIds
  PROVE  /\ View!Request(kind, id) \in Asked /\ View!Request(kind, id).kind = kind /\ View!Request(kind, id).id = id
         /\ View!Request(kind, id).same /\ ~View!Request(kind, id).busy
BY DEF View!Request, Asked, AskedKinds, View!Waiting, RunWords

\* Requests that lose sight of the view are otherwise what they were.
LEMMA UnsameTyped ==
  ASSUME NEW requests, requests \subseteq Asked
  PROVE  /\ View!Unsame(requests) \subseteq Asked
         /\ \A x \in View!Unsame(requests) : ~x.same /\ \E r \in requests : x.kind = r.kind /\ x.id = r.id /\ x.busy = r.busy
         /\ \A r \in requests : \E x \in View!Unsame(requests) : x.kind = r.kind /\ x.id = r.id /\ x.busy = r.busy
<1>1. \A r \in requests : LET x == [r EXCEPT !.same = FALSE] IN
        x \in Asked /\ ~x.same /\ x.kind = r.kind /\ x.id = r.id /\ x.busy = r.busy
  BY DEF Asked
<1> QED BY <1>1 DEF View!Unsame

LEMMA ViewStep == 0 \notin Runs /\ ViewInv /\ [View!Next]_(View!vars) => ViewInv'
<1> SUFFICES ASSUME 0 \notin Runs, ViewInv, [View!Next]_(View!vars)
             PROVE  ViewInv'
  OBVIOUS
<1>t. ViewTyped /\ (~crossed => OneRun /\ Attended) /\ (busy => \E r \in pending : Busying(r))
  BY DEF ViewInv
<1>i. 0 \in RunIds /\ Runs \subseteq RunIds BY DEF RunIds
<1>1. CASE View!Work
  <2>1. UNCHANGED <<run, events, running, active, stream, busy, pending, crossed>> /\ server' \in [Runs -> RunWords]
    BY <1>1, <1>t DEF View!Work, View!view, ViewTyped, RunWords
  <2> QED BY <1>t, <2>1 DEF ViewInv, ViewTyped, OneRun, Attended, Blank, Following, Busying
<1>2. ASSUME NEW r \in pending, View!Served(r)
      PROVE  ViewInv'
  <2>1. UNCHANGED <<run, events, running, active, stream, busy, crossed>> BY <1>2 DEF View!Served, View!view
  <2>2. server' \in [Runs -> RunWords]
    BY <1>2, <1>t DEF View!Served, View!Serves, ViewTyped, RunWords
  <2>3. PICK word \in RunWords : pending' = (pending \ {r}) \cup {[r EXCEPT !.answer = word]}
    BY <1>2, <1>t DEF View!Served, View!Serves, View!Turns, ViewTyped, View!Failed, RunWords, View!None, RunIds, Asked
  <2> DEFINE new == [r EXCEPT !.answer = word]
  <2>4. new \in Asked /\ new.kind = r.kind /\ new.id = r.id /\ (new.same <=> r.same) /\ (new.busy <=> r.busy)
    BY <1>t DEF ViewTyped, Asked
  <2>9. pending' = (pending \ {r}) \cup {new} BY <2>3
  <2> HIDE DEF new
  <2>5. ViewTyped' BY <1>t, <2>1, <2>2, <2>4, <2>9 DEF ViewTyped
  <2>6. ~crossed' => OneRun'
    BY <1>t, <2>1, <2>4, <2>9 DEF OneRun, Blank
  <2>7. ~crossed' => Attended'
    BY <1>t, <2>1, <2>4, <2>9 DEF Attended, Following
  <2>8. busy' => \E x \in pending' : Busying(x)
    BY <1>t, <2>1, <2>4, <2>9 DEF Busying
  <2> QED BY <2>5, <2>6, <2>7, <2>8 DEF ViewInv
<1>3. CASE View!Start
  <2> DEFINE new == View!Request("validate", 0)
  <2>1. /\ UNCHANGED <<server, run, events, running, active, stream, crossed>> /\ busy' = TRUE
        /\ pending' = pending \cup {new}
    BY <1>3 DEF View!Start, View!Asks, View!view, View!None
  <2>2. new \in Asked /\ new.kind = "validate" /\ new.id = 0 /\ ~new.busy BY <1>i, RequestTyped DEF AskedKinds
  <2> HIDE DEF new
  <2> QED BY <1>t, <2>1, <2>2 DEF ViewInv, ViewTyped, OneRun, Attended, Blank, Following, Busying
<1>4. CASE View!Load
  <2> DEFINE new == View!Request("load", 0)
  <2>1. /\ UNCHANGED <<server, run, events, running, active, stream, crossed, busy>>
        /\ pending' = pending \cup {new}
    BY <1>4 DEF View!Load, View!Asks, View!view, View!None
  <2>2. new \in Asked /\ new.kind = "load" /\ new.id = 0 /\ ~new.busy BY <1>i, RequestTyped DEF AskedKinds
  <2> HIDE DEF new
  <2> QED BY <1>t, <2>1, <2>2 DEF ViewInv, ViewTyped, OneRun, Attended, Blank, Following, Busying
<1>5. ASSUME NEW kind \in {"approve", "reject", "resume"}, View!Decide(kind) \/ (kind = "resume" /\ View!Resume),
             kind = "resume" => View!Resume
      PROVE  ViewInv'
  <2> DEFINE new == View!Request(kind, run.id)
  <2>1. /\ UNCHANGED <<server, run, events, running, active, stream, crossed>> /\ busy' = TRUE
        /\ pending' = pending \cup {new} /\ run.status \in {"awaiting_approval", "over"}
    BY <1>5 DEF View!Decide, View!Resume, View!Asks, View!view
  <2>2. run.id \in Runs BY <1>t, <2>1 DEF ViewTyped, RunIds
  <2>3. new \in Asked /\ new.kind = kind /\ new.id = run.id /\ ~new.busy BY <1>i, <2>2, RequestTyped DEF AskedKinds
  <2> HIDE DEF new
  <2> QED BY <1>t, <2>1, <2>2, <2>3 DEF ViewInv, ViewTyped, OneRun, Attended, Blank, Following, Busying
<1>6. CASE View!NodeEvent
  <2>1. UNCHANGED <<server, run, running, active, stream, crossed, busy, pending>> /\ stream.open
        /\ events' = events \cup {stream.id}
    BY <1>6 DEF View!NodeEvent
  <2> QED BY <1>t, <2>1 DEF ViewInv, ViewTyped, OneRun, Attended, Blank, Following, Busying
<1>7. CASE View!StreamEnds
  <2>1. PICK kind \in {"finish", "recover"} :
          /\ UNCHANGED <<server, run, events, running, active, crossed, busy>> /\ stream.open
          /\ stream' = [stream EXCEPT !.open = FALSE] /\ pending' = pending \cup {View!Request(kind, stream.id)}
    BY <1>7 DEF View!StreamEnds, View!Asks
  <2> DEFINE new == View!Request(kind, stream.id)
  <2>2. stream.id \in Runs /\ stream'.id = stream.id /\ stream' \in [id : RunIds, open : BOOLEAN] /\ ~stream'.open
    BY <1>t, <2>1 DEF ViewTyped, RunIds
  <2>3. new \in Asked /\ new.kind = kind /\ new.id = stream.id /\ ~new.busy BY <1>i, <2>2, RequestTyped DEF AskedKinds
  <2> HIDE DEF new
  <2>4. pending' = pending \cup {new} BY <2>1 DEF new
  <2>5. ViewTyped' BY <1>t, <2>1, <2>2, <2>3, <2>4 DEF ViewTyped
  <2>6. ~crossed' => OneRun' BY <1>t, <2>1, <2>2, <2>3, <2>4 DEF OneRun, Blank
  <2>7. ~crossed' => Attended' BY <1>t, <2>1, <2>2, <2>3, <2>4 DEF Attended, Following
  <2>8. busy' => \E x \in pending' : Busying(x) BY <1>t, <2>1, <2>4 DEF Busying
  <2> QED BY <2>5, <2>6, <2>7, <2>8 DEF ViewInv
<1>8. ASSUME NEW r \in pending, r.kind = "validate", View!Validated(r)
      PROVE  ViewInv'
  <2>1. CASE r.answer = "failed"
    <3>1. /\ UNCHANGED <<server, run, events, running, active, stream, crossed>> /\ busy' = FALSE
          /\ pending' = pending \ {r}
      BY <1>8, <2>1, <1>t DEF View!Validated, View!view, View!Turns, View!Failed, ViewTyped
    <3> QED BY <1>8, <1>t, <3>1 DEF ViewInv, ViewTyped, OneRun, Attended, Blank, Following, Busying
  <2>2. CASE r.answer # "failed"
    <3>1. PICK id \in Runs : pending' = View!Unsame(pending \ {r}) \cup {View!Request("start", id)}
      BY <1>8, <2>2 DEF View!Validated, View!Failed
    <3>2. /\ run' = [id |-> 0, status |-> "none"] /\ events' = {} /\ stream' = [id |-> 0, open |-> FALSE] /\ active' = 0
          /\ UNCHANGED <<server, running, busy>> /\ crossed' = (crossed \/ running)
      BY <1>8, <2>2 DEF View!Validated, View!Failed, View!ClearRun, View!NoRun, View!NoStream, View!None
    <3> DEFINE new == View!Request("start", id)
               old == View!Unsame(pending \ {r})
    <3>3. new \in Asked /\ new.kind = "start" /\ new.id = id /\ ~new.busy BY <1>i, RequestTyped DEF AskedKinds
    <3>4. /\ old \subseteq Asked
          /\ \A x \in old : ~x.same /\ \E y \in pending : x.kind = y.kind /\ x.id = y.id /\ x.busy = y.busy
      BY <1>t, UnsameTyped DEF ViewTyped
    <3>5. pending' = old \cup {new} BY <3>1
    <3> HIDE DEF new, old
    <3>6. ViewTyped' BY <1>t, <1>i, <3>2, <3>3, <3>4, <3>5 DEF ViewTyped, RunWords
    <3>7. ~crossed' => OneRun' BY <1>t, <3>2, <3>3, <3>4, <3>5 DEF OneRun, Blank
    <3>8. ~crossed' => Attended' BY <3>2 DEF Attended
    <3>9. busy' => \E x \in pending' : Busying(x) BY <3>3, <3>5 DEF Busying
    <3> QED BY <3>6, <3>7, <3>8, <3>9 DEF ViewInv
  <2> QED BY <2>1, <2>2
<1>9. ASSUME NEW r \in pending, r.kind = "start", View!Started(r)
      PROVE  ViewInv'
  <2>0. busy' = FALSE /\ pending' = pending \ {r} /\ UNCHANGED <<server, events>>
    BY <1>9 DEF View!Started, View!Turns
  <2>1. CASE r.answer = "failed"
    <3>1. UNCHANGED <<run, running, active, stream, crossed>>
      BY <1>9, <2>1 DEF View!Started, View!Failed
    <3> QED BY <1>9, <1>t, <2>0, <3>1 DEF ViewInv, ViewTyped, OneRun, Attended, Blank, Following, Busying
  <2>2. CASE r.answer # "failed"
    <3>1. /\ run' = [id |-> r.id, status |-> "running"] /\ running' = TRUE /\ active' = r.id
          /\ stream' = [id |-> r.id, open |-> TRUE] /\ crossed' = (crossed \/ ~r.same)
      BY <1>9, <2>2 DEF View!Started, View!Show, View!Failed
    <3>2. r.id \in Runs BY <1>9, <1>t DEF ViewTyped
    <3>3. ViewTyped' BY <1>t, <1>i, <2>0, <3>1, <3>2 DEF ViewTyped, RunWords
    <3>4. ~crossed' => OneRun'
      BY <1>9, <1>t, <2>0, <3>1, <3>2 DEF OneRun, Blank, ViewTyped
    <3>5. Attended' BY <3>1, <3>2 DEF Attended
    <3> QED BY <2>0, <3>3, <3>4, <3>5 DEF ViewInv
  <2> QED BY <2>1, <2>2
<1>10. ASSUME NEW r \in pending, r.kind = "finish", View!Finished(r)
      PROVE  ViewInv'
  <2>0. UNCHANGED <<server, stream, busy, crossed>> BY <1>10 DEF View!Finished
  <2>1. r.id \in Runs /\ r \in Asked BY <1>10, <1>t DEF ViewTyped
  <2>b. ASSUME pending \ {r} \subseteq pending'
        PROVE  busy' => \E x \in pending' : Busying(x)
    <3>1. ~Busying(r) BY <1>10, <1>t DEF Busying, ViewTyped
    <3> QED BY <1>t, <2>0, <2>b, <3>1 DEF Busying
  <2>2. CASE stream.id # r.id
    <3>1. UNCHANGED <<run, events, running, active>> /\ pending' = pending \ {r}
      BY <1>10, <2>2 DEF View!Finished, View!SameStream, View!Turns
    <3>2. ViewTyped' BY <1>t, <2>0, <3>1 DEF ViewTyped
    <3>3. ~crossed' => OneRun' BY <1>t, <2>0, <3>1 DEF OneRun, Blank
    <3>4. ~crossed' => Attended' BY <1>10, <1>t, <2>0, <2>2, <3>1 DEF Attended, Following
    <3> QED BY <2>b, <3>1, <3>2, <3>3, <3>4 DEF ViewInv
  <2>3. CASE stream.id = r.id /\ r.answer = "failed"
    <3>1. UNCHANGED <<run, events>> /\ running' = FALSE /\ active' = 0 /\ pending' = pending \ {r}
      BY <1>10, <2>3 DEF View!Finished, View!SameStream, View!Failed, View!None, View!Turns, View!LetsOn
    <3>2. ViewTyped' BY <1>t, <1>i, <2>0, <3>1 DEF ViewTyped
    <3>3. ~crossed' => OneRun' BY <1>t, <2>0, <3>1 DEF OneRun, Blank
    <3> QED BY <2>b, <3>1, <3>2, <3>3 DEF ViewInv, Attended
  <2>4. CASE stream.id = r.id /\ r.answer # "failed"
    <3> DEFINE new == View!Request("listing", r.id)
    <3>1. /\ UNCHANGED <<running, active>> /\ run' = [id |-> r.id, status |-> r.answer] /\ events' = {r.id}
          /\ pending' = (pending \ {r}) \cup {new}
      BY <1>10, <2>4 DEF View!Finished, View!SameStream, View!Failed, View!Show, View!Turns
    <3>2. new \in Asked /\ new.kind = "listing" /\ new.id = r.id /\ ~new.busy BY <1>i, <2>1, RequestTyped DEF AskedKinds
    <3> HIDE DEF new
    <3>3. ViewTyped' BY <1>t, <1>i, <2>0, <2>1, <3>1, <3>2 DEF ViewTyped, Asked
    <3>4. ~crossed' => OneRun' BY <1>10, <1>t, <2>0, <2>1, <2>4, <3>1, <3>2 DEF OneRun, Blank, ViewTyped
    <3>5. ~crossed' => Attended' BY <1>10, <1>t, <2>0, <2>1, <2>4, <3>1, <3>2 DEF Attended, Following
    <3> QED BY <2>b, <3>1, <3>3, <3>4, <3>5 DEF ViewInv
  <2> QED BY <2>2, <2>3, <2>4
<1>20. ASSUME NEW r \in pending, r.kind = "listing", View!Listed(r)
      PROVE  ViewInv'
  <2>0. UNCHANGED <<server, run, events, stream, busy, crossed>> /\ pending' = pending \ {r}
    BY <1>20 DEF View!Listed, View!Turns
  <2>1. ViewTyped'
    <3>1. running' \in BOOLEAN /\ active' \in RunIds
      BY <1>20, <1>t, <1>i DEF View!Listed, View!LetsOn, View!None, ViewTyped
    <3> QED BY <1>t, <2>0, <3>1 DEF ViewTyped
  <2>2. ~crossed' => OneRun'
    <3>1. active' \in {0, active} BY <1>20 DEF View!Listed, View!LetsOn, View!None
    <3> QED BY <1>t, <2>0, <3>1 DEF OneRun, Blank
  <2>3. ~crossed' => Attended'
    <3>1. CASE stream.id = r.id BY <1>20, <3>1 DEF View!Listed, View!SameStream, View!LetsOn, Attended
    <3>2. CASE stream.id # r.id
      <4>1. UNCHANGED <<running, active>> BY <1>20, <3>2 DEF View!Listed, View!SameStream
      <4> QED BY <1>20, <1>t, <2>0, <3>2, <4>1 DEF Attended, Following
    <3> QED BY <3>1, <3>2
  <2>4. busy' => \E x \in pending' : Busying(x)
    <3>1. ~Busying(r) BY <1>20, <1>t DEF Busying, ViewTyped
    <3> QED BY <1>t, <2>0, <3>1 DEF Busying
  <2> QED BY <2>1, <2>2, <2>3, <2>4 DEF ViewInv
<1>11. ASSUME NEW r \in pending, r.kind = "recover", View!Recovered(r)
      PROVE  ViewInv'
  <2>0. UNCHANGED <<server, stream, crossed>> BY <1>11 DEF View!Recovered
  <2>1. r.id \in Runs /\ r \in Asked BY <1>11, <1>t DEF ViewTyped
  <2>b. ASSUME pending \ {r} \subseteq pending', busy' = (busy /\ ~r.busy)
        PROVE  busy' => \E x \in pending' : Busying(x)
    BY <1>11, <1>t, <2>b DEF Busying
  <2>c. busy' = (busy /\ ~r.busy) => busy' \in BOOLEAN BY <1>t DEF ViewTyped
  <2>2. CASE r.answer = "failed"
    <3>1. /\ running' = FALSE /\ active' = 0 /\ pending' = pending \ {r} /\ UNCHANGED <<run, events>>
          /\ busy' = (busy /\ ~r.busy)
      BY <1>11, <2>2 DEF View!Recovered, View!Failed, View!None, View!Turns, View!LetsOn, View!Ends
    <3>2. ViewTyped' BY <1>t, <1>i, <2>0, <2>c, <3>1 DEF ViewTyped
    <3>3. ~crossed' => OneRun' BY <1>t, <2>0, <3>1 DEF OneRun, Blank
    <3> QED BY <2>b, <3>1, <3>2, <3>3 DEF ViewInv, Attended
  <2>3. CASE r.answer # "failed" /\ active # r.id
    <3>1. pending' = pending \ {r} /\ busy' = (busy /\ ~r.busy) /\ UNCHANGED <<run, events, running, active>>
      BY <1>11, <2>3 DEF View!Recovered, View!Failed, View!Turns, View!Awaited, View!Ends
    <3>2. ViewTyped' BY <1>t, <2>0, <2>c, <3>1 DEF ViewTyped
    <3>3. ~crossed' => OneRun' BY <1>t, <2>0, <3>1 DEF OneRun, Blank
    <3>4. ~crossed' => Attended' BY <1>t, <2>0, <2>3, <3>1 DEF Attended, Following
    <3> QED BY <2>b, <3>1, <3>2, <3>3, <3>4 DEF ViewInv
  <2>4. CASE r.answer # "failed" /\ active = r.id
    <3>1. run' = [id |-> r.id, status |-> r.answer] /\ events' = {r.id}
      BY <1>11, <2>4 DEF View!Recovered, View!Failed, View!Awaited, View!Show
    <3>2. CASE View!Goes(r.answer)
      <4> DEFINE new == View!Request("timer", r.id)
      <4>1. pending' = (pending \ {r}) \cup {new} /\ busy' = (busy /\ ~r.busy) /\ UNCHANGED <<running, active>>
        BY <1>11, <2>4, <3>2 DEF View!Recovered, View!Failed, View!Turns, View!Awaited
      <4>2. new \in Asked /\ new.kind = "timer" /\ new.id = r.id /\ ~new.busy BY <1>i, <2>1, RequestTyped DEF AskedKinds
      <4> HIDE DEF new
      <4>3. ViewTyped' BY <1>t, <1>i, <2>0, <2>1, <2>c, <3>1, <4>1, <4>2 DEF ViewTyped, Asked
      <4>4. ~crossed' => OneRun' BY <1>t, <2>0, <2>1, <2>4, <3>1, <4>1, <4>2 DEF OneRun, Blank, ViewTyped
      <4>5. ~crossed' => Attended' BY <1>t, <2>0, <2>4, <3>1, <4>1, <4>2 DEF Attended, Following
      <4> QED BY <2>b, <4>1, <4>3, <4>4, <4>5 DEF ViewInv
    <3>3. CASE ~View!Goes(r.answer)
      <4> DEFINE new == [View!Request("page", r.id) EXCEPT !.busy = r.busy]
      <4>1. /\ pending' = (pending \ {r}) \cup {new} /\ running' = FALSE /\ active' = 0 /\ busy' = busy
        BY <1>11, <2>4, <3>3 DEF View!Recovered, View!Failed, View!Turns, View!Awaited, View!None, View!LetsOn
      <4>2. new \in Asked /\ new.kind = "page" /\ new.id = r.id /\ (new.busy <=> r.busy)
        <5>1. View!Request("page", r.id) \in Asked /\ View!Request("page", r.id).kind = "page"
              /\ View!Request("page", r.id).id = r.id
          BY <1>i, <2>1, RequestTyped DEF AskedKinds
        <5> QED BY <2>1, <5>1 DEF Asked
      <4> HIDE DEF new
      <4>3. ViewTyped' BY <1>t, <1>i, <2>0, <2>1, <3>1, <4>1, <4>2 DEF ViewTyped, Asked
      <4>4. ~crossed' => OneRun' BY <1>t, <2>0, <2>1, <2>4, <3>1, <4>1, <4>2 DEF OneRun, Blank, ViewTyped
      <4>5. busy' => \E x \in pending' : Busying(x) BY <1>11, <1>t, <4>1, <4>2 DEF Busying
      <4> QED BY <4>1, <4>3, <4>4, <4>5 DEF ViewInv, Attended
    <3> QED BY <3>2, <3>3
  <2> QED BY <2>2, <2>3, <2>4
<1>21. ASSUME NEW r \in pending, r.kind = "page", View!Paged(r)
      PROVE  ViewInv'
  <2>0. /\ UNCHANGED <<server, run, events, stream, crossed>> /\ pending' = pending \ {r}
        /\ busy' = (busy /\ ~r.busy)
    BY <1>21 DEF View!Paged, View!Ends, View!Turns
  <2>1. (running' = FALSE /\ active' = 0) \/ UNCHANGED <<running, active>>
    BY <1>21 DEF View!Paged, View!LetsOn, View!None
  <2>2. busy' \in BOOLEAN BY <1>t, <2>0 DEF ViewTyped
  <2>3. ViewTyped' BY <1>t, <1>i, <2>0, <2>1, <2>2 DEF ViewTyped
  <2>4. ~crossed' => OneRun' BY <1>t, <2>0, <2>1 DEF OneRun, Blank
  <2>5. ~crossed' => Attended' BY <1>21, <1>t, <2>0, <2>1 DEF Attended, Following
  <2>6. busy' => \E x \in pending' : Busying(x) BY <1>21, <1>t, <2>0 DEF Busying
  <2> QED BY <2>3, <2>4, <2>5, <2>6 DEF ViewInv
<1>12. ASSUME NEW r \in pending, r.kind = "timer", View!Timer(r)
      PROVE  ViewInv'
  <2>0. UNCHANGED <<server, run, events, running, active, stream, busy, crossed>>
        /\ pending' = (pending \ {r}) \cup (IF active = r.id THEN {View!Request("recover", r.id)} ELSE {})
    BY <1>12 DEF View!Timer, View!view, View!Turns, View!Awaited
  <2> DEFINE new == View!Request("recover", r.id)
  <2>1. r.id \in Runs BY <1>12, <1>t DEF ViewTyped
  <2>2. new \in Asked /\ new.kind = "recover" /\ new.id = r.id /\ ~new.busy BY <1>i, <2>1, RequestTyped DEF AskedKinds
  <2> HIDE DEF new
  <2>3. pending \ {r} \subseteq pending' /\ pending' \subseteq (pending \ {r}) \cup {new} /\ (active = r.id => new \in pending')
    BY <2>0 DEF new
  <2>4. ViewTyped' BY <1>t, <2>0, <2>1, <2>2, <2>3 DEF ViewTyped
  <2>5. ~crossed' => OneRun' BY <1>t, <2>0, <2>2, <2>3 DEF OneRun, Blank
  <2>6. ~crossed' => Attended' BY <1>t, <2>0, <2>2, <2>3 DEF Attended, Following
  <2>7. busy' => \E x \in pending' : Busying(x)
    <3>1. ~r.busy BY <1>12, <1>t DEF ViewTyped
    <3> QED BY <1>12, <1>t, <2>0, <2>3, <3>1 DEF Busying
  <2> QED BY <2>4, <2>5, <2>6, <2>7 DEF ViewInv
<1>13. ASSUME NEW r \in pending, r.kind \in {"approve", "reject"}, View!Decided(r)
      PROVE  ViewInv'
  <2>0. UNCHANGED <<server, run, events, stream, crossed>> BY <1>13 DEF View!Decided
  <2>1. r.id \in Runs /\ r \in Asked BY <1>13, <1>t DEF ViewTyped
  <2>2. CASE ~r.same
    <3>1. busy' = FALSE /\ pending' = pending \ {r} /\ UNCHANGED <<running, active>>
      BY <1>13, <2>2 DEF View!Decided, View!Turns
    <3> QED BY <1>13, <1>t, <2>0, <3>1 DEF ViewInv, ViewTyped, OneRun, Attended, Blank, Following, Busying
  <2>3. CASE r.same
    <3> DEFINE new == [View!Request("recover", r.id) EXCEPT !.busy = TRUE]
    <3>1. /\ active' = r.id /\ running' = (IF r.answer = "failed" THEN running ELSE r.kind = "approve")
          /\ pending' = (pending \ {r}) \cup {new} /\ busy' = busy
      BY <1>13, <2>3 DEF View!Decided, View!Turns, View!Failed
    <3>2. new \in Asked /\ new.kind = "recover" /\ new.id = r.id /\ new.busy
      <4>1. View!Request("recover", r.id) \in Asked /\ View!Request("recover", r.id).kind = "recover"
            /\ View!Request("recover", r.id).id = r.id
        BY <1>i, <2>1, RequestTyped DEF AskedKinds
      <4> QED BY <4>1 DEF Asked
    <3> HIDE DEF new
    <3>3. ViewTyped' BY <1>t, <1>i, <2>0, <2>1, <3>1, <3>2 DEF ViewTyped, RunWords
    <3>4. ~crossed' => OneRun' BY <1>13, <1>t, <2>0, <2>1, <2>3, <3>1, <3>2 DEF OneRun, Blank
    <3>5. Attended' BY <2>1, <3>1, <3>2 DEF Attended, Following
    <3>6. busy' => \E x \in pending' : Busying(x) BY <3>1, <3>2 DEF Busying
    <3> QED BY <3>3, <3>4, <3>5, <3>6 DEF ViewInv
  <2> QED BY <2>2, <2>3
<1>14. ASSUME NEW r \in pending, r.kind = "resume", View!Resumed(r)
      PROVE  ViewInv'
  <2>0. UNCHANGED <<server, events, stream>> /\ busy' = FALSE BY <1>14 DEF View!Resumed
  <2>1. r.id \in Runs /\ r \in Asked BY <1>14, <1>t DEF ViewTyped
  <2>2. CASE r.answer = "failed"
    <3>1. pending' = pending \ {r} /\ UNCHANGED <<run, running, active, crossed>>
      BY <1>14, <2>2 DEF View!Resumed, View!Turns, View!Failed
    <3> QED BY <1>14, <1>t, <2>0, <3>1 DEF ViewInv, ViewTyped, OneRun, Attended, Blank, Following, Busying
  <2>3. CASE r.answer # "failed"
    <3> DEFINE new == View!Request("recover", r.id)
    <3>1. /\ run' = [id |-> r.id, status |-> "running"] /\ running' = TRUE /\ active' = r.id
          /\ pending' = (pending \ {r}) \cup {new} /\ crossed' = (crossed \/ ~r.same)
      BY <1>14, <2>3 DEF View!Resumed, View!Turns, View!Failed, View!Show
    <3>2. new \in Asked /\ new.kind = "recover" /\ new.id = r.id /\ ~new.busy BY <1>i, <2>1, RequestTyped DEF AskedKinds
    <3> HIDE DEF new
    <3>3. ViewTyped' BY <1>t, <1>i, <2>0, <2>1, <3>1, <3>2 DEF ViewTyped, RunWords
    <3>4. ~crossed' => OneRun' BY <1>14, <1>t, <2>0, <2>1, <3>1, <3>2 DEF OneRun, Blank
    <3>5. Attended' BY <2>1, <3>1, <3>2 DEF Attended, Following
    <3> QED BY <2>0, <3>3, <3>4, <3>5 DEF ViewInv
  <2> QED BY <2>2, <2>3
<1>15. ASSUME NEW id \in Runs, View!Open(id)
      PROVE  ViewInv'
  <2> DEFINE new == View!Request("show", id)
             old == View!Unsame(pending)
  <2>1. /\ run' = [id |-> 0, status |-> "none"] /\ events' = {} /\ stream' = [id |-> 0, open |-> FALSE] /\ active' = id
        /\ pending' = old \cup {new} /\ crossed' = FALSE /\ UNCHANGED <<server, running, busy>> /\ ~running
    BY <1>15 DEF View!Open, View!ClearRun, View!NoRun, View!NoStream, View!None
  <2>2. new \in Asked /\ new.kind = "show" /\ new.id = id /\ ~new.busy BY <1>i, RequestTyped DEF AskedKinds
  <2>3. /\ old \subseteq Asked
        /\ \A x \in old : ~x.same /\ \E y \in pending : x.kind = y.kind /\ x.id = y.id /\ x.busy = y.busy
        /\ \A y \in pending : \E x \in old : x.kind = y.kind /\ x.id = y.id /\ x.busy = y.busy
    BY <1>t, UnsameTyped DEF ViewTyped
  <2> HIDE DEF new, old
  <2>8. pending' \subseteq Asked /\ \A r \in pending' :
           (r.kind \notin {"validate", "load"} => r.id \in Runs) /\ (r.busy => r.kind \in {"recover", "page"})
    BY <1>t, <2>1, <2>2, <2>3 DEF ViewTyped
  <2>4. ViewTyped' BY <1>t, <1>i, <2>1, <2>8 DEF ViewTyped, RunWords
  <2>5. OneRun' BY <2>1, <2>2, <2>3 DEF OneRun, Blank
  <2>6. Attended' BY <2>1 DEF Attended
  <2>7. busy' => \E x \in pending' : Busying(x) BY <1>t, <2>1, <2>3 DEF Busying
  <2> QED BY <2>4, <2>5, <2>6, <2>7 DEF ViewInv
<1>16. ASSUME NEW r \in pending, r.kind = "show", View!Opened(r)
      PROVE  ViewInv'
  <2>0. UNCHANGED <<server, active, stream, busy, crossed>> BY <1>16 DEF View!Opened
  <2>1. r.id \in Runs /\ r \in Asked BY <1>16, <1>t DEF ViewTyped
  <2>b. ASSUME pending \ {r} \subseteq pending'
        PROVE  busy' => \E x \in pending' : Busying(x)
    <3>1. ~r.busy BY <1>16, <1>t DEF ViewTyped
    <3> QED BY <1>16, <1>t, <2>0, <2>b, <3>1 DEF Busying
  <2>2. CASE r.answer = "failed" \/ active # r.id
    <3>1. pending' = pending \ {r} /\ UNCHANGED <<run, events, running>>
      BY <1>16, <2>2 DEF View!Opened, View!Turns, View!Failed, View!Awaited
    <3>2. ViewTyped' BY <1>t, <2>0, <3>1 DEF ViewTyped
    <3>3. ~crossed' => OneRun' BY <1>t, <2>0, <3>1 DEF OneRun, Blank
    <3>4. ~crossed' => Attended' BY <1>16, <1>t, <2>0, <3>1 DEF Attended, Following
    <3> QED BY <2>b, <3>1, <3>2, <3>3, <3>4 DEF ViewInv
  <2>3. CASE ~(r.answer = "failed" \/ active # r.id)
    <3> DEFINE new == View!Request("recover", r.id)
    <3>1. /\ run' = [id |-> r.id, status |-> r.answer] /\ events' = {r.id} /\ running' = View!Goes(r.answer)
          /\ pending' = (pending \ {r}) \cup (IF View!Goes(r.answer) THEN {new} ELSE {})
      BY <1>16, <2>3 DEF View!Opened, View!Turns, View!Failed, View!Awaited, View!Show
    <3>2. new \in Asked /\ new.kind = "recover" /\ new.id = r.id /\ ~new.busy BY <1>i, <2>1, RequestTyped DEF AskedKinds
    <3>3. View!Goes(r.answer) \in BOOLEAN BY DEF View!Goes
    <3> HIDE DEF new
    <3>4. pending \ {r} \subseteq pending' /\ pending' \subseteq (pending \ {r}) \cup {new} /\ (running' => new \in pending')
      BY <3>1
    <3>5. ViewTyped' BY <1>t, <1>i, <2>0, <2>1, <3>1, <3>2, <3>3, <3>4 DEF ViewTyped, Asked
    <3>6. ~crossed' => OneRun' BY <1>t, <2>0, <2>1, <2>3, <3>1, <3>2, <3>4 DEF OneRun, Blank, ViewTyped
    <3>7. Attended' BY <2>0, <2>1, <2>3, <3>1, <3>2, <3>4 DEF Attended, Following
    <3> QED BY <2>b, <3>4, <3>5, <3>6, <3>7 DEF ViewInv
  <2> QED BY <2>2, <2>3
<1>17. ASSUME NEW r \in pending, r.kind = "load", View!Loaded(r)
      PROVE  ViewInv'
  <2>0. UNCHANGED <<server, running, busy>> BY <1>17 DEF View!Loaded
  <2>1. ~r.busy BY <1>17, <1>t DEF ViewTyped
  <2>2. CASE r.answer = "failed"
    <3>1. pending' = pending \ {r} /\ UNCHANGED <<run, events, active, stream, crossed>>
      BY <1>17, <2>2 DEF View!Loaded, View!Turns, View!Failed
    <3> QED BY <1>17, <1>t, <2>0, <2>1, <3>1 DEF ViewInv, ViewTyped, OneRun, Attended, Blank, Following, Busying
  <2>3. CASE r.answer # "failed"
    <3> DEFINE old == View!Unsame(pending \ {r})
    <3>1. /\ run' = [id |-> 0, status |-> "none"] /\ events' = {} /\ stream' = [id |-> 0, open |-> FALSE] /\ active' = 0
          /\ pending' = old /\ crossed' = (crossed \/ running)
      BY <1>17, <2>3 DEF View!Loaded, View!Failed, View!ClearRun, View!NoRun, View!NoStream, View!None
    <3>2. /\ old \subseteq Asked
          /\ \A x \in old : ~x.same /\ \E y \in pending : x.kind = y.kind /\ x.id = y.id /\ x.busy = y.busy
          /\ \A y \in pending \ {r} : \E x \in old : x.kind = y.kind /\ x.id = y.id /\ x.busy = y.busy
      BY <1>t, UnsameTyped DEF ViewTyped
    <3> HIDE DEF old
    <3>3. ViewTyped' BY <1>t, <1>i, <2>0, <3>1, <3>2 DEF ViewTyped, RunWords
    <3>4. OneRun' BY <3>1, <3>2 DEF OneRun, Blank
    <3>5. ~crossed' => Attended' BY <2>0, <3>1 DEF Attended
    <3>6. busy' => \E x \in pending' : Busying(x) BY <1>17, <1>t, <2>0, <2>1, <3>1, <3>2 DEF Busying
    <3> QED BY <3>3, <3>4, <3>5, <3>6 DEF ViewInv
  <2> QED BY <2>2, <2>3
<1>18. CASE UNCHANGED View!vars
  BY <1>18, <1>t DEF View!vars, View!view, ViewInv, ViewTyped, OneRun, Attended, Blank, Following, Busying
<1>19. ASSUME NEW r \in pending, View!Answers(r)
       PROVE  ViewInv'
  <2>1. r.kind \in AskedKinds
    BY <1>t DEF ViewTyped, Asked
  <2> QED BY <1>8, <1>9, <1>10, <1>11, <1>12, <1>13, <1>14, <1>16, <1>17, <1>19, <1>20, <1>21, <2>1 DEF View!Answers, AskedKinds
<1> QED BY <1>1, <1>2, <1>3, <1>4, <1>5, <1>6, <1>7, <1>15, <1>18, <1>19 DEF View!Next

\* The invariant holds at the start.
LEMMA ViewStart == View!Init => ViewInv
<1> SUFFICES ASSUME View!Init PROVE ViewInv
  OBVIOUS
<1>1. /\ run = [id |-> 0, status |-> "none"] /\ stream = [id |-> 0, open |-> FALSE]
      /\ events = {} /\ running = FALSE /\ busy = FALSE /\ active = 0 /\ pending = {} /\ crossed = FALSE
  BY DEF View!Init, View!NoRun, View!NoStream, View!None
<1>2. server \in [Runs -> RunWords]
  BY DEF View!Init, RunWords
<1>3. ViewTyped BY <1>1, <1>2 DEF ViewTyped, RunIds, RunWords
<1> QED BY <1>1, <1>3 DEF ViewInv, OneRun, Attended

\* It says what is to be shown.
LEMMA ViewHolds == ViewInv => View!EventsOfRun /\ View!Followed /\ View!BusyEnds
<1> SUFFICES ASSUME ViewInv PROVE View!EventsOfRun /\ View!Followed /\ View!BusyEnds
  OBVIOUS
<1>1. View!EventsOfRun BY DEF ViewInv, OneRun, View!EventsOfRun
<1>2. View!BusyEnds BY DEF ViewInv, Busying, View!BusyEnds
<1>3. stream.open => stream = [id |-> stream.id, open |-> TRUE]
  BY DEF ViewInv, ViewTyped
<1>4. View!Followed BY <1>3 DEF ViewInv, Attended, Following, View!Followed, View!None
<1> QED BY <1>1, <1>2, <1>4

\* The view of the browser: the events under a run are its own, editing comes
\* back, and so do the buttons (workflow-editor.tsx), whatever answers come late.
THEOREM ViewOfOneRun ==
  0 \notin Runs /\ View!Spec => [](View!EventsOfRun /\ View!Followed /\ View!BusyEnds)
<1>1. CASE 0 \notin Runs
  <2>1. ViewInv /\ [View!Next]_(View!vars) => ViewInv'
    BY <1>1, ViewStep
  <2> QED BY ViewStart, ViewHolds, <2>1, PTL DEF View!Spec
<1> QED BY <1>1

-----------------------------------------------------------------------------
(***************************************************************************)
(* ModelCalls: the tokens shown are what was spent.                        *)
(***************************************************************************)
CONSTANTS Attempts, MaxCalls, MaxTokens
VARIABLES provider, stage, attempt, usage, totals, made, charged, lost
Calls == INSTANCE ModelCalls

Usages == [dispatched : Nat, undelivered : Nat, received : BOOLEAN, valid : {0, 1, 2}, complete : BOOLEAN,
           prompt : Nat, completion : Nat, cache : Nat]
Totals == [prompt : Nat, completion : Nat, cache : Nat, calls : Nat, partial : Nat, unreported : Nat,
           unanswered : Nat]

CallsTyped ==
  /\ stage \in {"idle", "ready", "sending"} /\ usage \in Usages /\ totals \in Totals
  /\ charged \in [prompt : Nat, completion : Nat] /\ lost \in Nat

\* A call that goes on has counted no tokens yet; one that is over left nothing behind.
Uncounted ==
  /\ usage.valid = 0 /\ usage.complete
  /\ usage.prompt = 0 /\ usage.completion = 0 /\ usage.cache = 0
  /\ usage.undelivered + (IF stage = "sending" THEN 1 ELSE 0) <= usage.dispatched
  /\ stage = "idle" => usage = Calls!NewUsage

\* The tokens a call may have cost by now show in its usage: a response came, or
\* a request left that may have reached the provider, before the one being sent.
Traced ==
  \/ usage.received
  \/ usage.dispatched - (IF stage = "sending" THEN 1 ELSE 0) > usage.undelivered

NoTokens == [prompt |-> 0, completion |-> 0]

\* What the totals know of what was charged.
Balanced(t, c, l) ==
  /\ t.prompt <= c.prompt /\ t.completion <= c.completion /\ t.cache <= t.prompt
  /\ t.calls = 0 => t.prompt = 0 /\ t.completion = 0
  /\ t.partial + t.unreported + t.unanswered = 0 =>
       /\ t.prompt + t.completion + l >= c.prompt + c.completion
       /\ l = 0 => t.prompt = c.prompt /\ t.completion = c.completion

Charged == totals.calls + totals.unanswered = 0 /\ charged # NoTokens => Traced

CallsInv == CallsTyped /\ Uncounted /\ Balanced(totals, charged, lost) /\ Charged

\* A call that ends without counts.
LEMMA EndsUncounted ==
  ASSUME CallsInv, NEW u \in Usages, u.valid = 0, u.complete, u.prompt = 0, u.completion = 0, u.cache = 0,
         NEW c \in [prompt : Nat, completion : Nat], NEW l \in Nat,
         totals.prompt <= c.prompt, totals.completion <= c.completion, Balanced(totals, c, l) \/ u.received,
         Calls!Ends(u), charged' = c, lost' = l,
         totals.calls + totals.unanswered = 0 /\ c # NoTokens => u.received \/ u.dispatched > u.undelivered
  PROVE  CallsInv'
<1>1. CASE Calls!Status(u) = "nothing"
  <2>1. totals' = totals /\ stage' = "idle" /\ usage' = Calls!NewUsage
    BY <1>1 DEF Calls!Ends, Calls!Accounted
  <2>2. ~u.received /\ ~(u.dispatched > u.undelivered)
    BY <1>1 DEF Calls!Status, Usages
  <2>3. Balanced(totals, c, l) BY <2>2
  <2> QED BY <2>1, <2>2, <2>3 DEF CallsInv, CallsTyped, Uncounted, Charged, Calls!NewUsage, Usages
<1>2. CASE Calls!Status(u) = "unreported"
  <2>1. totals' = [prompt |-> totals.prompt + u.prompt, completion |-> totals.completion + u.completion,
                   cache |-> totals.cache + u.cache, calls |-> totals.calls + 1 - 0,
                   partial |-> totals.partial + 0, unreported |-> totals.unreported + 1,
                   unanswered |-> totals.unanswered + 0]
    BY <1>2 DEF Calls!Ends, Calls!Accounted
  <2>2. /\ totals'.prompt = totals.prompt /\ totals'.completion = totals.completion
        /\ totals'.cache = totals.cache /\ totals'.calls = totals.calls + 1
        /\ totals'.unreported = totals.unreported + 1 /\ totals'.partial \in Nat
        /\ totals'.unanswered \in Nat /\ totals' \in Totals
    BY <2>1 DEF CallsInv, CallsTyped, Totals
  <2>3. stage' = "idle" /\ usage' = Calls!NewUsage
    BY DEF Calls!Ends
  <2>4. CallsTyped' /\ Uncounted'
    BY <2>2, <2>3 DEF CallsInv, CallsTyped, Uncounted, Calls!NewUsage, Usages
  <2>5. totals \in Totals /\ totals.cache <= totals.prompt BY DEF CallsInv, CallsTyped, Balanced
  <2>6. Balanced(totals', c, l) /\ totals'.calls + totals'.unanswered # 0
    BY <2>2, <2>5 DEF Totals, Balanced
  <2> QED BY <2>4, <2>6 DEF CallsInv, Charged
<1>3. CASE Calls!Status(u) = "unanswered"
  <2>1. totals' = [prompt |-> totals.prompt + u.prompt, completion |-> totals.completion + u.completion,
                   cache |-> totals.cache + u.cache, calls |-> totals.calls + 1 - 1,
                   partial |-> totals.partial + 0, unreported |-> totals.unreported + 0,
                   unanswered |-> totals.unanswered + 1]
    BY <1>3 DEF Calls!Ends, Calls!Accounted
  <2>2. /\ totals'.prompt = totals.prompt /\ totals'.completion = totals.completion
        /\ totals'.cache = totals.cache /\ totals'.calls = totals.calls
        /\ totals'.unanswered = totals.unanswered + 1 /\ totals'.partial \in Nat
        /\ totals'.unreported \in Nat /\ totals' \in Totals
    BY <2>1 DEF CallsInv, CallsTyped, Totals
  <2>3. stage' = "idle" /\ usage' = Calls!NewUsage
    BY DEF Calls!Ends
  <2>4. CallsTyped' /\ Uncounted'
    BY <2>2, <2>3 DEF CallsInv, CallsTyped, Uncounted, Calls!NewUsage, Usages
  <2>5. totals \in Totals /\ totals.cache <= totals.prompt /\ (totals.calls = 0 => totals.prompt = 0 /\ totals.completion = 0)
    BY DEF CallsInv, CallsTyped, Balanced
  <2>6. Balanced(totals', c, l) /\ totals'.calls + totals'.unanswered # 0
    BY <2>2, <2>5 DEF Totals, Balanced
  <2> QED BY <2>4, <2>6 DEF CallsInv, Charged
<1>4. Calls!Status(u) \in {"nothing", "unreported", "unanswered"}
  BY DEF Calls!Status, Usages
<1> QED BY <1>1, <1>2, <1>3, <1>4

\* A call that is tried again, or ends without counts.
LEMMA BusyUncounted ==
  ASSUME CallsInv, NEW u \in Usages, u.valid = 0, u.complete, u.prompt = 0, u.completion = 0, u.cache = 0,
         NEW c \in [prompt : Nat, completion : Nat], NEW l \in Nat,
         Balanced(totals, c, l), u.undelivered <= u.dispatched, Calls!Busy(u) \/ Calls!Ends(u), charged' = c, lost' = l,
         totals.calls + totals.unanswered = 0 /\ c # NoTokens => u.received \/ u.dispatched > u.undelivered
  PROVE  CallsInv'
<1>1. CASE Calls!Ends(u)
  <2>1. totals.prompt <= c.prompt /\ totals.completion <= c.completion BY DEF Balanced
  <2> QED BY <1>1, <2>1, EndsUncounted
<1>2. CASE stage' = "ready" /\ usage' = u /\ totals' = totals
  BY <1>2 DEF CallsInv, CallsTyped, Uncounted, Charged, Traced, Usages
<1> QED BY <1>1, <1>2 DEF Calls!Busy

LEMMA CountsSame == \A S : Calls!Cardinality(S) = Cardinality(S)
  BY DEF Calls!Cardinality, Cardinality

\* A response whose counts are recorded.
LEMMA EndsRecorded ==
  ASSUME CallsInv, MaxTokens \in Nat,
         NEW base \in 0 .. MaxTokens, NEW read \in 0 .. MaxTokens, NEW write \in 0 .. MaxTokens,
         NEW out \in 0 .. MaxTokens,
         NEW body \in [base : {base, Calls!Bad}, out : {out, Calls!Bad},
                       read : Calls!Reports(read), write : Calls!Reports(write)],
         Calls!Ends(Calls!Recorded(usage, body)),
         Calls!Spends(IF provider = "claude" THEN base + read + write ELSE base, out),
         lost' = lost
  PROVE  CallsInv'
<1> DEFINE in == Calls!Input(body)
           spent == IF provider = "claude" THEN base + read + write ELSE base
           u == Calls!Recorded(usage, body)
<1>1. /\ body.base \in {base, -2} /\ body.out \in {out, -2}
      /\ body.read \in {read, -2, -1} /\ (body.read = -1 => read = 0)
      /\ body.write \in {write, -2, -1} /\ (body.write = -1 => write = 0)
  BY DEF Calls!Reports, Calls!Bad, Calls!Absent
<1>2. /\ Calls!Known(in.tokens) \in Nat /\ Calls!Known(in.tokens) <= spent
      /\ in.cache \in Nat /\ in.cache <= Calls!Known(in.tokens) /\ in.complete \in BOOLEAN
      /\ Calls!Count(in.tokens) /\ in.complete => Calls!Known(in.tokens) = spent
  <2>1. CASE provider = "claude"
    <3>1. /\ body.base \in Int /\ body.read \in Int /\ body.write \in Int
          /\ base \in Nat /\ read \in Nat /\ write \in Nat
      BY <1>1
    <3>2. /\ Calls!Known(body.base) \in 0 .. base /\ Calls!Known(body.read) \in 0 .. read
          /\ Calls!Known(body.write) \in 0 .. write
          /\ Calls!Count(body.base) => Calls!Known(body.base) = base
          /\ body.read # -2 => Calls!Known(body.read) = read
          /\ body.write # -2 => Calls!Known(body.write) = write
      BY <1>1, <3>1 DEF Calls!Known, Calls!Count
    <3>3. /\ in.cache = Calls!Known(body.read) + Calls!Known(body.write)
          /\ in.complete <=> Calls!Count(body.base) /\ body.read # -2 /\ body.write # -2
          /\ in.complete \in BOOLEAN
      BY <2>1 DEF Calls!Input, Calls!Bad
    <3>4. in.tokens = IF Calls!Count(body.base) \/ Calls!Count(body.read) \/ Calls!Count(body.write)
                      THEN Calls!Known(body.base) + Calls!Known(body.read) + Calls!Known(body.write) ELSE -1
      BY <2>1 DEF Calls!Input, Calls!Absent
    <3>5. Calls!Known(in.tokens) = Calls!Known(body.base) + Calls!Known(body.read) + Calls!Known(body.write)
      BY <3>1, <3>2, <3>4 DEF Calls!Known, Calls!Count
    <3> QED BY <2>1, <3>1, <3>2, <3>3, <3>5
  <2>2. CASE provider # "claude"
    BY <1>1, <2>2 DEF Calls!Input, Calls!Known, Calls!Count, Calls!Bad, Calls!Absent
  <2> QED BY <2>1, <2>2
<1>3. /\ Calls!Known(body.out) \in Nat /\ Calls!Known(body.out) <= out
      /\ Calls!Count(body.out) => Calls!Known(body.out) = out
  BY <1>1 DEF Calls!Known, Calls!Count
<1> DEFINE valid == {k \in {1, 2} : Calls!Count(<<in.tokens, body.out>>[k])}
<1>4. /\ Cardinality(valid) \in {0, 1, 2}
      /\ Cardinality(valid) = 2 => Calls!Count(in.tokens) /\ Calls!Count(body.out)
      /\ Cardinality(valid) = 0 => ~Calls!Count(in.tokens) /\ ~Calls!Count(body.out)
  <2>1. 1 \in valid <=> Calls!Count(in.tokens)
    OBVIOUS
  <2>2. 2 \in valid <=> Calls!Count(body.out)
    OBVIOUS
  <2> HIDE DEF in
  <2>3. valid \subseteq {1, 2}
    OBVIOUS
  <2> HIDE DEF valid
  <2>4. Cardinality({}) = 0 /\ Cardinality({1}) = 1 /\ Cardinality({2}) = 1 /\ Cardinality({1, 2}) = 2
    <3>1. IsFiniteSet({1}) /\ Cardinality({1}) = 1 /\ Cardinality({2}) = 1 /\ Cardinality({}) = 0
      BY FS_Singleton, FS_EmptySet
    <3>2. Cardinality({1} \cup {2}) = Cardinality({1}) + 1
      BY <3>1, FS_AddElement, 2 \notin {1}
    <3>3. {1, 2} = {1} \cup {2} OBVIOUS
    <3> QED BY <3>1, <3>2, <3>3
  <2>5. valid = {} \/ valid = {1} \/ valid = {2} \/ valid = {1, 2}
    <3>1. CASE 1 \in valid /\ 2 \in valid BY <2>3, <3>1
    <3>2. CASE 1 \in valid /\ 2 \notin valid BY <2>3, <3>2
    <3>3. CASE 1 \notin valid /\ 2 \in valid BY <2>3, <3>3
    <3>4. CASE 1 \notin valid /\ 2 \notin valid BY <2>3, <3>4
    <3> QED BY <3>1, <3>2, <3>3, <3>4
  <2> QED BY <2>1, <2>2, <2>4, <2>5
<1>5. /\ u.received /\ u.complete = in.complete /\ u.valid = Cardinality(valid)
      /\ u.prompt = Calls!Known(in.tokens) /\ u.completion = Calls!Known(body.out) /\ u.cache = in.cache
  BY CountsSame, <1>2, <1>3 DEF Calls!Recorded, CallsInv, CallsTyped, Uncounted, Usages
<1>6. /\ charged'.prompt = charged.prompt + spent /\ charged'.completion = charged.completion + out
      /\ charged' \in [prompt : Nat, completion : Nat] /\ spent \in Nat
  BY DEF CallsInv, CallsTyped, Calls!Spends
<1>7. stage' = "idle" /\ usage' = Calls!NewUsage /\ totals' = Calls!Accounted(u)
  BY DEF Calls!Ends
<1> DEFINE rec(p, r) ==
      [prompt |-> totals.prompt + u.prompt, completion |-> totals.completion + u.completion,
       cache |-> totals.cache + u.cache, calls |-> totals.calls + 1 - 0,
       partial |-> totals.partial + p, unreported |-> totals.unreported + r,
       unanswered |-> totals.unanswered + 0]
<1> HIDE DEF u, in, valid, spent
<1>8. \/ totals' = rec(0, 0) /\ Cardinality(valid) = 2 /\ u.complete
      \/ totals' = rec(0, 1)
      \/ totals' = rec(1, 0)
  <2>1. CASE Calls!Status(u) = "reported"
    BY <1>5, <1>7, <2>1 DEF Calls!Accounted, Calls!Status
  <2>2. CASE Calls!Status(u) = "unreported"
    BY <1>7, <2>2 DEF Calls!Accounted
  <2>3. CASE Calls!Status(u) = "partial"
    BY <1>7, <2>3 DEF Calls!Accounted
  <2>4. Calls!Status(u) \in {"reported", "unreported", "partial"}
    BY <1>4, <1>5 DEF Calls!Status
  <2> QED BY <2>1, <2>2, <2>3, <2>4
<1>9. /\ totals'.prompt = totals.prompt + Calls!Known(in.tokens)
      /\ totals'.completion = totals.completion + Calls!Known(body.out)
      /\ totals'.cache = totals.cache + in.cache /\ totals'.calls = totals.calls + 1
      /\ totals'.partial \in Nat /\ totals'.unreported \in Nat /\ totals'.unanswered = totals.unanswered
      /\ totals' \in Totals
      /\ \/ totals'.partial = totals.partial /\ totals'.unreported = totals.unreported
            /\ Calls!Known(in.tokens) = spent /\ Calls!Known(body.out) = out
         \/ totals'.partial + totals'.unreported + totals'.unanswered # 0
  <2>1. totals \in Totals BY DEF CallsInv, CallsTyped
  <2>2. Cardinality(valid) = 2 /\ u.complete => Calls!Known(in.tokens) = spent /\ Calls!Known(body.out) = out
    BY <1>2, <1>3, <1>4, <1>5
  <2> QED BY <1>2, <1>3, <1>5, <1>8, <2>1, <2>2 DEF Totals
<1>10. Balanced(totals', charged', lost')
  <2>1. totals \in Totals /\ charged \in [prompt : Nat, completion : Nat] /\ lost \in Nat
        /\ Balanced(totals, charged, lost)
    BY DEF CallsInv, CallsTyped
  <2> QED BY <1>2, <1>3, <1>6, <1>9, <2>1 DEF Balanced, Totals
<1>11. CallsTyped' /\ Uncounted'
  BY <1>6, <1>7, <1>9 DEF CallsInv, CallsTyped, Uncounted, Calls!NewUsage, Usages
<1>12. Charged'
  BY <1>9 DEF Charged, Totals, CallsInv, CallsTyped
<1> QED BY <1>10, <1>11, <1>12 DEF CallsInv

\* One step keeps the invariant.
LEMMA CallsStep ==
  ASSUME CallsInv, MaxTokens \in Nat, [Calls!Next]_(Calls!vars)
  PROVE  CallsInv'
<1>1. CASE Calls!Call
  BY <1>1 DEF Calls!Call, CallsInv, CallsTyped, Uncounted, Charged, Traced
<1>2. CASE Calls!Unprepared
  BY <1>2, EndsUncounted DEF Calls!Unprepared, CallsInv, CallsTyped, Uncounted, Charged, Traced, Balanced, Usages
<1>3. CASE Calls!Send
  BY <1>3 DEF Calls!Send, CallsInv, CallsTyped, Uncounted, Charged, Traced, Usages
<1>4. CASE Calls!Unconnected
  <2> DEFINE u == [usage EXCEPT !.undelivered = @ + 1]
  <2>1. /\ u \in Usages /\ u.valid = 0 /\ u.complete /\ u.prompt = 0 /\ u.completion = 0 /\ u.cache = 0
        /\ u.undelivered <= u.dispatched /\ u.received = usage.received
        /\ u.dispatched > u.undelivered <=> usage.dispatched - 1 > usage.undelivered
    BY <1>4 DEF Calls!Unconnected, CallsInv, CallsTyped, Uncounted, Usages
  <2>2. (Calls!Busy(u) \/ Calls!Ends(u)) /\ charged' = charged /\ lost' = lost /\ stage = "sending"
    BY <1>4 DEF Calls!Unconnected
  <2> HIDE DEF u
  <2> QED BY <2>1, <2>2, BusyUncounted DEF CallsInv, CallsTyped, Charged, Traced
<1>5. CASE Calls!Lost
  <2>1. PICK prompt \in {0, MaxTokens}, out \in {0, MaxTokens} :
             Calls!Spends(prompt, out) /\ lost' = lost + prompt + out
    BY <1>5 DEF Calls!Lost
  <2> DEFINE c == [prompt |-> charged.prompt + prompt, completion |-> charged.completion + out]
             l == lost + prompt + out
  <2>2. c \in [prompt : Nat, completion : Nat] /\ l \in Nat /\ charged' = c /\ lost' = l
    BY <2>1 DEF CallsInv, CallsTyped, Calls!Spends
  <2>3. Balanced(totals, c, l)
    BY DEF CallsInv, CallsTyped, Balanced, Totals
  <2>4. (Calls!Busy(usage) \/ Calls!Ends(usage)) /\ stage = "sending"
    BY <1>5 DEF Calls!Lost
  <2>5. usage.dispatched > usage.undelivered /\ usage.undelivered <= usage.dispatched
    BY <2>4 DEF CallsInv, CallsTyped, Uncounted, Usages
  <2> HIDE DEF c, l
  <2> QED BY <2>2, <2>3, <2>4, <2>5, BusyUncounted DEF CallsInv, CallsTyped, Uncounted
<1>6. CASE Calls!Cancelled
  BY <1>6, EndsUncounted DEF Calls!Cancelled, CallsInv, CallsTyped, Uncounted, Charged, Traced, Balanced, Usages
<1>7. CASE Calls!Refused
  <2> DEFINE u == [usage EXCEPT !.received = TRUE]
  <2>1. /\ u \in Usages /\ u.valid = 0 /\ u.complete /\ u.prompt = 0 /\ u.completion = 0 /\ u.cache = 0
        /\ u.undelivered <= u.dispatched /\ u.received
    <3>1. stage = "sending" BY <1>7 DEF Calls!Refused
    <3>2. /\ usage \in Usages /\ usage.valid = 0 /\ usage.complete /\ usage.prompt = 0 /\ usage.completion = 0
          /\ usage.cache = 0 /\ usage.undelivered + 1 <= usage.dispatched
      BY <3>1 DEF CallsInv, CallsTyped, Uncounted
    <3>3. u \in Usages /\ u.received BY <3>2 DEF Usages
    <3>4. /\ u.valid = usage.valid /\ u.prompt = usage.prompt /\ u.completion = usage.completion
          /\ u.cache = usage.cache /\ u.undelivered = usage.undelivered /\ u.dispatched = usage.dispatched
          /\ u.complete = usage.complete
      BY <3>2 DEF Usages
    <3>5. u.undelivered <= u.dispatched BY <3>2, <3>4 DEF Usages
    <3> QED BY <3>2, <3>3, <3>4, <3>5
  <2>2. (Calls!Busy(u) \/ Calls!Ends(u)) /\ charged' = charged /\ lost' = lost
    BY <1>7 DEF Calls!Refused
  <2> HIDE DEF u
  <2> QED BY <2>1, <2>2, BusyUncounted DEF CallsInv, CallsTyped
<1>8. CASE Calls!Answered
  <2>1. PICK base \in 0 .. MaxTokens, read \in 0 .. MaxTokens, write \in 0 .. MaxTokens, out \in 0 .. MaxTokens :
           /\ Calls!Spends(IF provider = "claude" THEN base + read + write ELSE base, out)
           /\ \/ Calls!Ends([usage EXCEPT !.received = TRUE])
              \/ \E body \in [base : {base, Calls!Bad}, out : {out, Calls!Bad},
                              read : Calls!Reports(read), write : Calls!Reports(write)] :
                   Calls!Ends(Calls!Recorded(usage, body))
    BY <1>8 DEF Calls!Answered
  <2>2. lost' = lost BY <1>8 DEF Calls!Answered
  <2>3. CASE Calls!Ends([usage EXCEPT !.received = TRUE])
    <3> DEFINE u == [usage EXCEPT !.received = TRUE]
               spent == IF provider = "claude" THEN base + read + write ELSE base
               c == [prompt |-> charged.prompt + spent, completion |-> charged.completion + out]
    <3>1. /\ u \in Usages /\ u.valid = 0 /\ u.complete /\ u.prompt = 0 /\ u.completion = 0 /\ u.cache = 0
          /\ u.received
      BY DEF CallsInv, CallsTyped, Uncounted, Usages
    <3>2. spent \in Nat OBVIOUS
    <3>3. charged' = c BY <2>1 DEF Calls!Spends
    <3> HIDE DEF spent
    <3>4. c \in [prompt : Nat, completion : Nat] /\ totals.prompt <= c.prompt /\ totals.completion <= c.completion
      BY <3>2 DEF CallsInv, CallsTyped, Balanced, Totals
    <3>5. Calls!Ends(u) BY <2>3
    <3> HIDE DEF u, c
    <3> QED BY <2>2, <3>1, <3>3, <3>4, <3>5, EndsUncounted DEF CallsInv, CallsTyped
  <2>4. CASE \E body \in [base : {base, Calls!Bad}, out : {out, Calls!Bad},
                          read : Calls!Reports(read), write : Calls!Reports(write)] :
               Calls!Ends(Calls!Recorded(usage, body))
    BY <2>1, <2>2, <2>4, EndsRecorded
  <2> QED BY <2>1, <2>3, <2>4
<1>9. CASE UNCHANGED Calls!vars
  BY <1>9 DEF Calls!vars, CallsInv, CallsTyped, Uncounted, Charged, Traced
<1> QED BY <1>1, <1>2, <1>3, <1>4, <1>5, <1>6, <1>7, <1>8, <1>9 DEF Calls!Next

\* The invariant holds at the start.
LEMMA CallsStart == Calls!Init => CallsInv
BY DEF Calls!Init, CallsInv, CallsTyped, Uncounted, Balanced, Charged, Calls!NewUsage, Usages, Totals, NoTokens

\* What the invariant says of the label.
LEMMA CallsTell == CallsInv => Calls!TotalsTell
<1> SUFFICES ASSUME CallsInv, stage = "idle"
             PROVE  Calls!TotalsTell
  BY DEF Calls!TotalsTell
<1>1. totals \in Totals /\ charged \in [prompt : Nat, completion : Nat] /\ lost \in Nat
      /\ Balanced(totals, charged, lost)
  BY DEF CallsInv, CallsTyped
<1>2. totals.calls + totals.unanswered = 0 => charged = [prompt |-> 0, completion |-> 0]
  BY DEF CallsInv, Charged, Traced, Uncounted, NoTokens, Calls!NewUsage
<1> DEFINE label == Calls!Label(totals)
<1>3. /\ label \in {"none", "exact", "tokens unknown", "not reported", "incomplete"}
      /\ label = "none" => totals.calls + totals.unanswered = 0
      /\ label = "exact" => totals.partial + totals.unreported + totals.unanswered = 0
      /\ label = "tokens unknown" => totals.calls = 0
      /\ label = "not reported" => totals.prompt + totals.completion = 0
  BY DEF Calls!Label
<1>4. totals.prompt <= charged.prompt /\ totals.completion <= charged.completion /\ totals.cache <= totals.prompt
  BY <1>1 DEF Balanced
<1>5. label = "exact" =>
        /\ totals.prompt + totals.completion + lost >= charged.prompt + charged.completion
        /\ lost = 0 => totals.prompt = charged.prompt /\ totals.completion = charged.completion
  BY <1>1, <1>3 DEF Balanced
<1>6. label \in {"tokens unknown", "not reported"} => totals.prompt + totals.completion = 0
  <2>1. totals.calls = 0 => totals.prompt + totals.completion = 0
    BY <1>1 DEF Balanced
  <2> HIDE DEF label
  <2> QED BY <1>3, <2>1
<1>7. label = "none" => charged = [prompt |-> 0, completion |-> 0]
  BY <1>2, <1>3
<1> HIDE DEF label
<1>8. CASE label = "none" BY <1>4, <1>7, <1>8 DEF Calls!TotalsTell, label
<1>9. CASE label = "exact" BY <1>4, <1>5, <1>9 DEF Calls!TotalsTell, label
<1>10. CASE label = "tokens unknown" BY <1>4, <1>6, <1>10 DEF Calls!TotalsTell, label
<1>11. CASE label = "not reported" BY <1>4, <1>6, <1>11 DEF Calls!TotalsTell, label
<1>12. CASE label = "incomplete" BY <1>4, <1>12 DEF Calls!TotalsTell, label
<1> QED BY <1>3, <1>8, <1>9, <1>10, <1>11, <1>12

\* What a run adds up tells what was spent (registry.py, usageLabel): whatever
\* the order of attempts, losses, refusals and answers, the totals never exceed
\* what the provider processed, and counts shown without a warning are exact.
THEOREM TotalsTellSpending ==
  MaxTokens \in Nat /\ Calls!Spec => []Calls!TotalsTell
<1>1. CASE MaxTokens \in Nat
  <2>1. CallsInv /\ [Calls!Next]_(Calls!vars) => CallsInv'
    BY <1>1, CallsStep
  <2> QED BY CallsStart, CallsTell, <2>1, PTL DEF Calls!Spec
<1> QED BY <1>1

-----------------------------------------------------------------------------
(***************************************************************************)
(* Retrieval: what was returned can be cited.                              *)
(***************************************************************************)
CONSTANTS Docs, MaxVersions
VARIABLES deleted, live, contents, segments, listed, reader
Search == INSTANCE Retrieval

\* What a request knows.
Fields == {"kind", "stage", "version", "allowed", "rows", "sources"}
Asking(r) == DOMAIN r = Fields /\ r = [x \in Fields |-> r[x]]

SearchTyped ==
  /\ active \in Nat /\ DOMAIN contents = 1 .. active /\ DOMAIN segments = 1 .. active
  /\ \A v \in 1 .. active :
       segments[v] \in [state : {"ready", "tombstone"}, retain : BOOLEAN, revoked : BOOLEAN, stored : SUBSET {"chunks", "vectors"}]
  /\ listed \subseteq [segment : 1 .. active, retain : BOOLEAN]
  /\ Asking(reader) /\ (reader.stage # "idle" => reader.version \in 1 .. active)

\* As long as the base is there, what was published can be cited.
EvidenceKept ==
  ~deleted =>
    /\ \A c \in listed : c.retain
    /\ \A v \in 1 .. active : "chunks" \in segments[v].stored /\ ~segments[v].revoked /\ Search!Citable(v)

SearchInv == SearchTyped /\ EvidenceKept

LEMMA BeginsAsks ==
  ASSUME NEW kind PROVE Search!Begins(kind).version = active /\ Asking(Search!Begins(kind))
<1>1. Asking(Search!Idle) BY DEF Search!Idle, Asking, Fields
<1> QED BY <1>1 DEF Search!Begins, Asking, Fields

LEMMA SearchStep == SearchInv /\ [Search!Next]_(Search!vars) => SearchInv'
<1> SUFFICES ASSUME SearchInv, [Search!Next]_(Search!vars)
             PROVE  SearchInv'
  OBVIOUS
<1>t. SearchTyped /\ EvidenceKept BY DEF SearchInv
<1>1. ASSUME UNCHANGED <<deleted, active, contents, segments, listed>>,
             Asking(reader'), reader'.stage # "idle" => reader'.version \in 1 .. active
      PROVE  SearchInv'
  BY <1>1, <1>t DEF SearchInv, SearchTyped, EvidenceKept, Search!Citable, Search!Ready
<1>2. CASE Search!Publish
  <2> DEFINE new == Search!Fresh
  <2>1. /\ ~deleted /\ active' = active + 1 /\ UNCHANGED <<deleted, listed, reader>>
        /\ contents' = [v \in 1 .. active + 1 |-> IF v = active + 1 THEN live ELSE contents[v]]
        /\ segments' = [v \in 1 .. active + 1 |-> IF v = active + 1 THEN new ELSE segments[v]]
    BY <1>2 DEF Search!Publish
  <2>2. new \in [state : {"ready", "tombstone"}, retain : BOOLEAN, revoked : BOOLEAN, stored : SUBSET {"chunks", "vectors"}]
        /\ "chunks" \in new.stored /\ ~new.revoked /\ new.state = "ready"
    BY DEF Search!Fresh
  <2> HIDE DEF new
  <2>3. active \in Nat BY <1>t DEF SearchTyped
  <2>4. /\ DOMAIN segments' = 1 .. active' /\ segments'[active'] = new
        /\ \A v \in 1 .. active : segments'[v] = segments[v]
        /\ 1 .. active' = (1 .. active) \cup {active'}
    BY <2>1, <2>3
  <2>5. SearchTyped' BY <1>t, <2>1, <2>2, <2>4 DEF SearchTyped
  <2>6. EvidenceKept' BY <1>t, <2>1, <2>2, <2>4 DEF EvidenceKept, Search!Citable, Search!Ready
  <2> QED BY <2>5, <2>6 DEF SearchInv
<1>3. CASE Search!DeleteBase
  BY <1>3, <1>t DEF Search!DeleteBase, SearchInv, SearchTyped, EvidenceKept
<1>4. ASSUME NEW d, Search!Remove(d) PROVE SearchInv'
  BY <1>4, <1>t DEF Search!Remove, SearchInv, SearchTyped, EvidenceKept, Search!Citable, Search!Ready
<1>5. ASSUME NEW v \in 1 .. active, Search!ListCleanup(v) PROVE SearchInv'
  <2>1. /\ listed' = {[segment |-> v, retain |-> ~deleted]}
        /\ UNCHANGED <<deleted, live, active, contents, segments, reader>>
    BY <1>5 DEF Search!ListCleanup
  <2>2. [segment |-> v, retain |-> ~deleted] \in [segment : 1 .. active, retain : BOOLEAN] OBVIOUS
  <2> QED BY <1>t, <2>1, <2>2 DEF SearchInv, SearchTyped, EvidenceKept, Search!Citable, Search!Ready
<1>6. ASSUME NEW c \in listed, Search!Tombstone(c) PROVE SearchInv'
  <2> DEFINE s == segments[c.segment]
             revoked == s.revoked \/ ~c.retain
             new == [state |-> "tombstone", stored |-> s.stored, revoked |-> revoked,
                     retain |-> c.retain /\ ~revoked /\ (s.state = "ready" \/ s.retain)]
  <2>1. /\ listed' = {} /\ segments' = [segments EXCEPT ![c.segment] = new]
        /\ UNCHANGED <<deleted, active, contents, reader>>
    BY <1>6 DEF Search!Tombstone
  <2>2. /\ c.segment \in 1 .. active /\ c.retain \in BOOLEAN
        /\ s \in [state : {"ready", "tombstone"}, retain : BOOLEAN, revoked : BOOLEAN, stored : SUBSET {"chunks", "vectors"}]
    BY <1>t DEF SearchTyped
  <2>3. new \in [state : {"ready", "tombstone"}, retain : BOOLEAN, revoked : BOOLEAN, stored : SUBSET {"chunks", "vectors"}]
        /\ new.stored = s.stored
    BY <2>2
  <2>4. ~deleted => ~new.revoked /\ new.retain /\ "chunks" \in new.stored
    BY <1>t, <2>2 DEF EvidenceKept, Search!Citable, Search!Ready
  <2> HIDE DEF new
  <2>5. SearchTyped' BY <1>t, <2>1, <2>2, <2>3 DEF SearchTyped
  <2>6. EvidenceKept' BY <1>t, <2>1, <2>2, <2>4 DEF EvidenceKept, Search!Citable, Search!Ready, SearchTyped
  <2> QED BY <2>5, <2>6 DEF SearchInv
<1>7. ASSUME NEW v \in 1 .. active, Search!Erase(v) PROVE SearchInv'
  <2> DEFINE kept == IF segments[v].retain THEN segments[v].stored \cap {"chunks"} ELSE {}
  <2>1. /\ segments[v].state = "tombstone" /\ UNCHANGED <<deleted, active, contents, listed, reader>>
        /\ segments' = [segments EXCEPT ![v].stored = kept]
    BY <1>7, <1>t DEF Search!Erase, SearchTyped
  <2>2. kept \subseteq {"chunks", "vectors"} OBVIOUS
  <2>3. ~deleted => "chunks" \in kept
    BY <1>t, <2>1 DEF EvidenceKept, Search!Citable, Search!Ready
  <2> HIDE DEF kept
  <2>4. SearchTyped' BY <1>t, <2>1, <2>2 DEF SearchTyped
  <2>5. EvidenceKept' BY <1>t, <2>1, <2>3 DEF EvidenceKept, Search!Citable, Search!Ready, SearchTyped
  <2> QED BY <2>4, <2>5 DEF SearchInv
<1>8. CASE Search!Resolve
  <2>1. active # 0 /\ active \in Nat BY <1>8, <1>t DEF Search!Resolve, SearchTyped
  <2>2. active \in 1 .. active BY <2>1
  <2>3. UNCHANGED <<deleted, active, contents, segments, listed>>
    BY <1>8 DEF Search!Resolve, Search!Goes
  <2>4. \A kind : Search!Begins(kind).version = active /\ Asking(Search!Begins(kind))
    BY BeginsAsks
  <2>5. reader'.version = active /\ Asking(reader')
    <3>1. CASE reader' = [Search!Begins("search") EXCEPT !.stage = "embed"]
      BY <3>1, <2>4 DEF Asking, Fields
    <3>2. ASSUME NEW d \in Docs, reader' = [Search!Begins("preview") EXCEPT !.stage = "ask", !.allowed = {d}]
          PROVE  reader'.version = active /\ Asking(reader')
      BY <3>2, <2>4 DEF Asking, Fields
    <3> QED BY <1>8, <3>1, <3>2 DEF Search!Resolve, Search!Goes
  <2> QED BY <1>1, <2>2, <2>3, <2>5
<1>9. CASE \/ Search!Ask \/ Search!Open \/ Search!Find \/ Search!Read \/ Search!Recheck \/ Search!Evidence
           \/ Search!Authority \/ Search!Unavailable
  <2>1. UNCHANGED <<deleted, active, contents, segments, listed>> /\ reader.stage # "idle"
    BY <1>9 DEF Search!Ask, Search!Open, Search!Find, Search!Read, Search!Recheck, Search!Evidence,
       Search!Authority, Search!Unavailable, Search!Goes, Search!Fails, Search!At
  <2>2. \/ reader' = Search!Idle
        \/ \E to : reader' = [reader EXCEPT !.stage = to]
        \/ \E to, found : reader' = [reader EXCEPT !.rows = found, !.stage = to]
        \/ \E to, sources : reader' = [reader EXCEPT !.sources = sources, !.stage = to]
    <3>1. CASE Search!Ask BY <3>1 DEF Search!Ask, Search!Goes, Search!Fails
    <3>2. CASE Search!Open BY <3>2 DEF Search!Open, Search!Goes, Search!Fails
    <3>3. CASE Search!Find BY <3>3 DEF Search!Find, Search!Goes, Search!Fails
    <3>4. CASE Search!Read BY <3>4 DEF Search!Read, Search!Goes, Search!Fails
    <3>5. CASE Search!Recheck BY <3>5 DEF Search!Recheck, Search!Goes, Search!Fails
    <3>6. CASE Search!Evidence BY <3>6 DEF Search!Evidence, Search!Goes, Search!Fails
    <3>7. CASE Search!Authority BY <3>7 DEF Search!Authority, Search!Goes, Search!Fails
    <3>8. CASE Search!Unavailable BY <3>8 DEF Search!Unavailable, Search!Goes, Search!Fails
    <3> QED BY <1>9, <3>1, <3>2, <3>3, <3>4, <3>5, <3>6, <3>7, <3>8
  <2>3. Asking(reader) /\ reader.version \in 1 .. active BY <1>t, <2>1 DEF SearchTyped
  <2>4. Asking(reader') /\ (reader'.stage # "idle" => reader'.version = reader.version)
    <3>1. CASE reader' = Search!Idle
      BY <3>1 DEF Asking, Fields, Search!Idle
    <3>2. CASE \E to : reader' = [reader EXCEPT !.stage = to]
      BY <3>2, <2>3 DEF Asking, Fields
    <3>3. CASE \E to, found : reader' = [reader EXCEPT !.rows = found, !.stage = to]
      BY <3>3, <2>3 DEF Asking, Fields
    <3>4. CASE \E to, sources : reader' = [reader EXCEPT !.sources = sources, !.stage = to]
      BY <3>4, <2>3 DEF Asking, Fields
    <3> QED BY <2>2, <3>1, <3>2, <3>3, <3>4
  <2> QED BY <1>1, <2>1, <2>3, <2>4
<1>10. CASE UNCHANGED Search!vars
  BY <1>10, <1>1, <1>t DEF Search!vars, SearchTyped
<1> QED
  <2>1. Search!Published = 1 .. active BY <1>t DEF SearchTyped, Search!Published
  <2> QED BY <1>2, <1>3, <1>4, <1>5, <1>6, <1>7, <1>8, <1>9, <1>10, <2>1 DEF Search!Next, Search!Changes

\* The invariant holds at the start.
LEMMA SearchStart == Search!Init => SearchInv
BY DEF Search!Init, Search!Idle, SearchInv, SearchTyped, EvidenceKept, Asking, Fields

\* It says that what was returned can be cited.
LEMMA SearchHolds == SearchInv => Search!StaysCitable
BY DEF SearchInv, SearchTyped, EvidenceKept, Search!StaysCitable, Search!SourcesHold, Search!Authorised, Search!At

\* What is about to be returned is of the version that was asked.
LEMMA ReturnsSources == SearchInv /\ [Search!Next]_(Search!vars) => [Search!Returns => Search!SourcesHold]_(Search!vars)
<1> SUFFICES ASSUME SearchInv, Search!Next, Search!Returns, reader.sources # {}
             PROVE  reader.sources \subseteq Search!Authorised(reader.version) /\ Search!Citable(reader.version)
  BY DEF Search!SourcesHold, Search!Returns
<1>1. Search!Authority
  <2>1. reader.stage = "authority" /\ reader'.stage = "returned" BY DEF Search!Returns, Search!At
  <2>2. ~Search!Changes
    BY <2>1 DEF Search!Changes, Search!Publish, Search!DeleteBase, Search!Remove, Search!ListCleanup,
       Search!Erase, Search!Tombstone
  <2>3. ~Search!Unavailable BY <2>1 DEF Search!Unavailable, Search!Goes, Search!Fails, Search!Idle
  <2>4. ~Search!Resolve /\ ~Search!Ask /\ ~Search!Open /\ ~Search!Find /\ ~Search!Read /\ ~Search!Recheck
        /\ ~Search!Evidence
    BY <2>1 DEF Search!Resolve, Search!Ask, Search!Open, Search!Find, Search!Read, Search!Recheck,
       Search!Evidence, Search!At
  <2> QED BY <2>2, <2>3, <2>4 DEF Search!Next
<1>2. reader.sources \subseteq Search!Authorised(reader.version)
  BY <1>1 DEF Search!Authority, Search!Goes, Search!Fails, Search!Idle, Search!Returns
<1> QED BY <1>2 DEF SearchInv, SearchTyped, EvidenceKept, Search!Authorised, Search!Returns, Search!At

\* A retrieval returns passages of documents that are still there, which can be
\* cited, and can be for as long as those documents are not removed
\* (kb_gateway.py, kb/search.py), whatever is published, tombstoned or erased.
THEOREM ReturnedCanBeCited ==
  /\ Search!Spec => []Search!StaysCitable
  /\ Search!Spec => [][Search!Returns => Search!SourcesHold]_(Search!vars)
<1> QED BY SearchStart, SearchHolds, ReturnsSources, SearchStep, PTL DEF Search!Spec
-----------------------------------------------------------------------------
(***************************************************************************)
(* Agents: an agent and its specialist, whose writes may wait for approval.*)
(* A call is known by the steps that lead to it.  What was approved or     *)
(* sent under a key is behind the agents (Past), and they were told of it  *)
(* once it is done; or it is the call they wait for (Knows).  That frames  *)
(* saved at a pause are no farther than the agents are now is what keeps   *)
(* this over a run that resumes.                                           *)
(***************************************************************************)
CONSTANTS Inputs, MaxSteps, MaxAttempts
VARIABLES gated, structured, job, spent, approvals, frames, stack, output
Crew == INSTANCE Agents

\* A call is known by the steps that lead to it: its agent's, and before that the
\* step at which the specialist was asked.
Targets == {"", "specialist", "write"}
Link(n, target) == [step |-> n, target |-> target]
Keys == {<<Link(n, "write")>> : n \in Nat} \cup {<<Link(n, "specialist"), Link(k, "write")>> : n, k \in Nat}
AgentSet ==
  [inv : {<<>>} \cup {<<Link(n, "specialist")>> : n \in Nat}, place : {<<>>} \cup {<<Link(n, "specialist")>> : n \in Nat},
   step : Nat, known : SUBSET Keys, denied : SUBSET Keys, cut : BOOLEAN, short : BOOLEAN, evidence : BOOLEAN,
   call : [target : Targets, input : Inputs \cup {0}]]

\* What a call returns fits its agent.
Fits(got) ==
  /\ got.known \in SUBSET Keys /\ got.denied \in SUBSET Keys
  /\ got.cut \in BOOLEAN /\ got.short \in BOOLEAN /\ got.evidence \in BOOLEAN /\ got.cut = got.short

\* An agent alone, and one that waits for its specialist.
Sound(x) == x \in AgentSet /\ x.place = x.inv /\ x.cut = x.short
Single(x) == Sound(x) /\ x.inv = <<>> /\ x.call.target # "specialist"
Waiting(x, y) ==
  /\ Sound(x) /\ x.inv = <<>> /\ x.call.target = "specialist"
  /\ Sound(y) /\ y.inv = <<Link(x.step + 1, "specialist")>> /\ y.call.target # "specialist"
Good(s) == \/ \E x \in AgentSet : s = <<x>> /\ Single(x)
           \/ \E x, y \in AgentSet : s = <<x, y>> /\ Waiting(x, y)

\* The agents are past a call, or wait for it.
Past(s, key) ==
  \/ key[1].step <= s[1].step
  \/ Len(s) = 2 /\ Len(key) = 2 /\ key[1].step = s[1].step + 1 /\ key[2].step <= s[2].step
AtCall(s) == Crew!Last(s).call.target = "write"
Told(s) == UNION {s[i].known \cup s[i].denied : i \in DOMAIN s}
Knows(a, s) ==
  \A key \in DOMAIN a :
    \/ Past(s, key) /\ (a[key].status = "completed" => key \in Told(s))
    \/ AtCall(s) /\ key = Crew!Invocation(Crew!Last(s)) /\ a[key].input = Crew!Last(s).call.input
Statuses == {"pending", "approved", "rejected", "executing", "completed"}
ApprovalSet == [status : Statuses, input : Inputs \cup {0}]

ApprovalsInv ==
  /\ DOMAIN approvals \subseteq Keys
  /\ \A key \in DOMAIN approvals :
       approvals[key] \in ApprovalSet
  /\ ~gated => DOMAIN approvals = {}
  /\ job # "success" /\ frames = <<>> => DOMAIN approvals = {}
  /\ frames # <<>> => Good(frames) /\ Knows(approvals, frames)

StackInv ==
  job = "running" =>
    /\ Good(stack) /\ Knows(approvals, stack)
    /\ frames # <<>> => \A key \in Keys : Past(frames, key) => Past(stack, key)

\* What is on record of the write at hand, and of those sent.
WriteInv ==
  /\ stage \in {"", "marked", "sent"}
  /\ job = "running" /\ stage = "" => markers = {}
  /\ job = "running" /\ stage # "" =>
       /\ AtCall(stack)
       /\ gated => Crew!Here \in DOMAIN approvals /\ approvals[Crew!Here].status = "executing" /\ markers = {Crew!Owner}
       /\ ~gated => markers = {Crew!Here}
       /\ stage = "marked" => Crew!Here \notin DOMAIN sent
  /\ \A place \in DOMAIN sent :
       /\ sent[place] = 1
       /\ gated => place \in DOMAIN approvals /\ approvals[place].status \in {"executing", "completed"}
       /\ ~gated => place \in DOMAIN results \cup markers

CrewInv ==
  /\ gated \in BOOLEAN /\ output.cut = output.short
  /\ ApprovalsInv /\ StackInv /\ WriteInv

-----------------------------------------------------------------------------
LEMMA TwoLong == ASSUME NEW x, NEW z PROVE Append(<<x>>, z) = <<x, z>> /\ <<x>> \o <<z>> = <<x, z>>
<1> DEFINE S == {x, z}
<1>1. <<x>> \in Seq(S) /\ <<z>> \in Seq(S) /\ <<x, z>> \in Seq(S) OBVIOUS
<1>2. /\ Append(<<x>>, z) \in Seq(S) /\ Len(Append(<<x>>, z)) = 2
      /\ Append(<<x>>, z)[1] = x /\ Append(<<x>>, z)[2] = z
  BY <1>1, AppendProperties
<1>3. /\ <<x>> \o <<z>> \in Seq(S) /\ Len(<<x>> \o <<z>>) = 2
      /\ (<<x>> \o <<z>>)[1] = x /\ (<<x>> \o <<z>>)[2] = z
  BY <1>1, ConcatProperties
<1>4. Len(<<x, z>>) = 2 /\ <<x, z>>[1] = x /\ <<x, z>>[2] = z OBVIOUS
<1>5. \A i \in 1 .. 2 : i = 1 \/ i = 2 OBVIOUS
<1> HIDE DEF S
<1>6. Append(<<x>>, z) = <<x, z>> BY <1>1, <1>2, <1>4, <1>5, SeqEqual
<1>7. <<x>> \o <<z>> = <<x, z>> BY <1>1, <1>3, <1>4, <1>5, SeqEqual
<1> QED BY <1>6, <1>7

\* What a stack of one or two agents comes to.
LEMMA OneAgent ==
  ASSUME NEW x
  PROVE  /\ Len(<<x>>) = 1 /\ <<x>>[1] = x /\ DOMAIN <<x>> = {1} /\ <<x>> # <<>>
         /\ Crew!Last(<<x>>) = x /\ \A z : Append(Crew!Front(<<x>>), z) = <<z>>
<1>1. Crew!Last(<<x>>) = x BY DEF Crew!Last
<1>2. Crew!Front(<<x>>) = <<>> BY DEF Crew!Front
<1>3. ASSUME NEW z PROVE Append(Crew!Front(<<x>>), z) = <<z>> BY <1>2
<1>4. DOMAIN <<x>> = {1} /\ Len(<<x>>) = 1 /\ <<x>>[1] = x /\ <<x>> # <<>> OBVIOUS
<1> QED BY <1>1, <1>3, <1>4

LEMMA TwoAgents ==
  ASSUME NEW x, NEW y
  PROVE  /\ Len(<<x, y>>) = 2 /\ <<x, y>>[1] = x /\ <<x, y>>[2] = y /\ DOMAIN <<x, y>> = {1, 2} /\ <<x, y>> # <<>>
         /\ Crew!Last(<<x, y>>) = y /\ \A z : Append(Crew!Front(<<x, y>>), z) = <<x, z>>
<1> DEFINE S == {x, y}
<1>1. Crew!Last(<<x, y>>) = y BY DEF Crew!Last
<1>2. <<x, y>> \in Seq(S) /\ <<x>> \in Seq(S) OBVIOUS
<1>3. SubSeq(<<x, y>>, 1, 1) \in Seq(S) /\ Len(SubSeq(<<x, y>>, 1, 1)) = 1 /\ SubSeq(<<x, y>>, 1, 1)[1] = x OBVIOUS
<1>4. SubSeq(<<x, y>>, 1, 1) = <<x>>
  <2> HIDE DEF S
  <2>1. Len(<<x>>) = 1 /\ <<x>>[1] = x /\ \A i \in 1 .. 1 : i = 1 OBVIOUS
  <2> QED BY <1>2, <1>3, <2>1, SeqEqual
<1>5. Crew!Front(<<x, y>>) = <<x>> BY <1>4 DEF Crew!Front
<1>6. ASSUME NEW z PROVE Append(Crew!Front(<<x, y>>), z) = <<x, z>> BY <1>5, TwoLong
<1>7. Len(<<x, y>>) = 2 /\ <<x, y>>[1] = x /\ <<x, y>>[2] = y /\ DOMAIN <<x, y>> = {1, 2} /\ <<x, y>> # <<>> OBVIOUS
<1> QED BY <1>1, <1>6, <1>7

LEMMA ToldByOne == ASSUME NEW x PROVE Told(<<x>>) = x.known \cup x.denied
<1>1. DOMAIN <<x>> = {1} /\ <<x>>[1] = x BY OneAgent
<1>2. {<<x>>[i].known \cup <<x>>[i].denied : i \in {1}} = {x.known \cup x.denied} BY <1>1
<1> QED BY <1>1, <1>2 DEF Told

LEMMA ToldByTwo == ASSUME NEW x, NEW y PROVE Told(<<x, y>>) = (x.known \cup x.denied) \cup (y.known \cup y.denied)
<1>1. DOMAIN <<x, y>> = {1, 2} /\ <<x, y>>[1] = x /\ <<x, y>>[2] = y BY TwoAgents
<1>2. {<<x, y>>[i].known \cup <<x, y>>[i].denied : i \in {1, 2}} = {x.known \cup x.denied, y.known \cup y.denied} BY <1>1
<1> QED BY <1>1, <1>2 DEF Told

LEMMA PastOfOne == ASSUME NEW x, NEW key PROVE Past(<<x>>, key) <=> key[1].step <= x.step
  BY OneAgent DEF Past

LEMMA PastOfTwo ==
  ASSUME NEW x, NEW y, NEW key
  PROVE  Past(<<x, y>>, key) <=>
           key[1].step <= x.step \/ (Len(key) = 2 /\ key[1].step = x.step + 1 /\ key[2].step <= y.step)
  BY TwoAgents DEF Past

\* Where calls stand, and that the plan is the identity of its calls.
LEMMA CallOfOne ==
  ASSUME NEW x, Single(x)
  PROVE  /\ Crew!Invocation(x) = <<Link(x.step + 1, x.call.target)>> /\ Crew!Place(x) = Crew!Invocation(x)
         /\ x.call.target = "write" => Crew!Invocation(x) \in Keys
<1>1. x.step + 1 \in Nat /\ x.inv = <<>> /\ x.place = <<>> BY DEF Single, Sound, AgentSet
<1>2. \A z : <<>> \o <<z>> = <<z>> OBVIOUS
<1>3. Crew!Invocation(x) = <<Link(x.step + 1, x.call.target)>> /\ Crew!Place(x) = Crew!Invocation(x)
  BY <1>1, <1>2 DEF Crew!Invocation, Crew!Place, Link
<1> QED BY <1>1, <1>3 DEF Keys

LEMMA CallOfTwo ==
  ASSUME NEW x, NEW y, Waiting(x, y)
  PROVE  /\ Crew!Invocation(y) = <<Link(x.step + 1, "specialist"), Link(y.step + 1, y.call.target)>>
         /\ Crew!Place(y) = Crew!Invocation(y)
         /\ y.call.target = "write" => Crew!Invocation(y) \in Keys
<1>1. x.step + 1 \in Nat /\ y.step + 1 \in Nat /\ y.inv = <<Link(x.step + 1, "specialist")>> /\ y.place = y.inv
  BY DEF Waiting, Sound, AgentSet
<1>2. \A w, z : <<w>> \o <<z>> = <<w, z>> BY TwoLong
<1>3. /\ Crew!Invocation(y) = <<Link(x.step + 1, "specialist"), Link(y.step + 1, y.call.target)>>
      /\ Crew!Place(y) = Crew!Invocation(y)
  BY <1>1, <1>2 DEF Crew!Invocation, Crew!Place, Link
<1> QED BY <1>1, <1>3 DEF Keys

\* A call that is waited for is not past, and it is past once its agent goes on.
LEMMA HereNotPast ==
  ASSUME NEW s, Good(s), AtCall(s)
  PROVE  /\ Crew!Invocation(Crew!Last(s)) \in Keys /\ Crew!Place(Crew!Last(s)) = Crew!Invocation(Crew!Last(s))
         /\ ~Past(s, Crew!Invocation(Crew!Last(s)))
<1>1. CASE \E x \in AgentSet : s = <<x>> /\ Single(x)
  <2> PICK x \in AgentSet : s = <<x>> /\ Single(x) BY <1>1
  <2>1. Crew!Last(s) = x /\ s[1] = x /\ Len(s) = 1 /\ x.call.target = "write" BY OneAgent DEF AtCall
  <2>2. Crew!Invocation(x) = <<Link(x.step + 1, "write")>> /\ Crew!Invocation(x) \in Keys /\ Crew!Place(x) = Crew!Invocation(x)
    BY <2>1, CallOfOne
  <2>3. x.step \in Nat BY DEF AgentSet
  <2> QED BY <2>1, <2>2, <2>3 DEF Past, Link
<1>2. CASE \E x, y \in AgentSet : s = <<x, y>> /\ Waiting(x, y)
  <2> PICK x \in AgentSet, y \in AgentSet : s = <<x, y>> /\ Waiting(x, y) BY <1>2
  <2>1. Crew!Last(s) = y /\ s[1] = x /\ s[2] = y /\ y.call.target = "write" BY TwoAgents DEF AtCall
  <2>2. /\ Crew!Invocation(y) = <<Link(x.step + 1, "specialist"), Link(y.step + 1, "write")>>
        /\ Crew!Invocation(y) \in Keys /\ Crew!Place(y) = Crew!Invocation(y)
    BY <2>1, CallOfTwo
  <2>3. x.step \in Nat /\ y.step \in Nat BY DEF AgentSet
  <2> QED BY <2>1, <2>2, <2>3 DEF Past, Link
<1> QED BY <1>1, <1>2 DEF Good

LEMMA KeyShape ==
  ASSUME NEW key \in Keys
  PROVE  key[1].step \in Nat /\ Len(key) \in {1, 2} /\ (Len(key) = 2 => key[2].step \in Nat)
  BY DEF Keys, Link

-----------------------------------------------------------------------------
\* The agent that goes on with what its call returned.
LEMMA ObservedSound ==
  ASSUME NEW x \in AgentSet, NEW got, Fits(got)
  PROVE  LET z == Crew!Observed(x, got) IN
         /\ z \in AgentSet /\ z.inv = x.inv /\ z.place = x.place /\ z.step = x.step + 1 /\ z.call.target = ""
         /\ z.known = x.known \cup got.known /\ z.denied = x.denied \cup got.denied
         /\ x.cut = x.short => z.cut = z.short
<1> DEFINE z == Crew!Observed(x, got)
<1>1. Crew!NoCall \in [target : Targets, input : Inputs \cup {0}] /\ Crew!NoCall.target = "" BY DEF Crew!NoCall, Targets
<1>2. z = [x EXCEPT !.step = x.step + 1, !.call = Crew!NoCall, !.known = x.known \cup got.known,
                    !.denied = x.denied \cup got.denied, !.cut = x.cut \/ got.cut, !.short = x.short \/ got.short,
                    !.evidence = x.evidence \/ got.evidence]
  BY DEF Crew!Observed
<1>3. /\ x.step + 1 \in Nat /\ x.known \cup got.known \in SUBSET Keys /\ x.denied \cup got.denied \in SUBSET Keys
      /\ (x.cut \/ got.cut) \in BOOLEAN /\ (x.short \/ got.short) \in BOOLEAN /\ (x.evidence \/ got.evidence) \in BOOLEAN
  BY DEF AgentSet, Fits
<1>4. z \in AgentSet BY <1>1, <1>2, <1>3 DEF AgentSet
<1>5. /\ z.inv = x.inv /\ z.place = x.place /\ z.step = x.step + 1 /\ z.call = Crew!NoCall
      /\ z.known = x.known \cup got.known /\ z.denied = x.denied \cup got.denied
      /\ z.cut = (x.cut \/ got.cut) /\ z.short = (x.short \/ got.short)
  BY <1>2 DEF AgentSet
<1> QED BY <1>1, <1>4, <1>5 DEF Fits

LEMMA ContinueKeeps ==
  ASSUME NEW s, Good(s), NEW got, Fits(got),
         NEW t, t = Append(Crew!Front(s), Crew!Observed(Crew!Last(s), got))
  PROVE  /\ Good(t) /\ ~AtCall(t) /\ Told(t) = Told(s) \cup got.known \cup got.denied
         /\ \A key \in Keys : Past(s, key) => Past(t, key)
         /\ AtCall(s) => Past(t, Crew!Invocation(Crew!Last(s)))
<1>1. CASE \E x \in AgentSet : s = <<x>> /\ Single(x)
  <2> PICK x \in AgentSet : s = <<x>> /\ Single(x) BY <1>1
  <2> DEFINE z == Crew!Observed(x, got)
  <2>1. /\ z \in AgentSet /\ z.inv = x.inv /\ z.place = x.place /\ z.step = x.step + 1 /\ z.call.target = ""
        /\ z.known = x.known \cup got.known /\ z.denied = x.denied \cup got.denied /\ z.cut = z.short
    BY ObservedSound DEF Single, Sound
  <2>2. t = <<z>> /\ Crew!Last(s) = x BY OneAgent
  <2>3. x.step \in Nat BY DEF AgentSet
  <2> HIDE DEF z
  <2>11. z.step = x.step + 1 BY <2>1
  <2>4. Single(z) BY <2>1 DEF Single, Sound
  <2>5. Good(t) BY <2>1, <2>2, <2>4 DEF Good
  <2>6. Crew!Last(t) = z BY <2>2, OneAgent
  <2>7. ~AtCall(t) BY <2>1, <2>6 DEF AtCall
  <2>8. Told(t) = Told(s) \cup got.known \cup got.denied BY <2>1, <2>2, ToldByOne
  <2>9. ASSUME NEW key \in Keys, Past(s, key) PROVE Past(t, key)
    <3>1. key[1].step \in Nat BY KeyShape
    <3>2. key[1].step <= x.step BY <2>9, PastOfOne
    <3>3. key[1].step <= z.step BY ONLY <2>11, <2>3, <3>1, <3>2
    <3> QED BY <2>2, <3>3, PastOfOne
  <2>10. ASSUME AtCall(s) PROVE Past(t, Crew!Invocation(x))
    <3>1. Crew!Invocation(x) = <<Link(x.step + 1, x.call.target)>> BY CallOfOne
    <3>2. Crew!Invocation(x)[1].step = x.step + 1 BY <3>1 DEF Link
    <3>3. Past(<<z>>, Crew!Invocation(x)) <=> Crew!Invocation(x)[1].step <= z.step BY PastOfOne
    <3>4. Crew!Invocation(x)[1].step <= z.step BY ONLY <2>11, <2>3, <3>2
    <3> QED BY <2>2, <3>3, <3>4
  <2> QED BY <2>2, <2>5, <2>7, <2>8, <2>9, <2>10
<1>2. CASE \E x, y \in AgentSet : s = <<x, y>> /\ Waiting(x, y)
  <2> PICK x \in AgentSet, y \in AgentSet : s = <<x, y>> /\ Waiting(x, y) BY <1>2
  <2> DEFINE z == Crew!Observed(y, got)
  <2>1. /\ z \in AgentSet /\ z.inv = y.inv /\ z.place = y.place /\ z.step = y.step + 1 /\ z.call.target = ""
        /\ z.known = y.known \cup got.known /\ z.denied = y.denied \cup got.denied /\ z.cut = z.short
    BY ObservedSound DEF Waiting, Sound
  <2>2. t = <<x, z>> /\ Crew!Last(s) = y BY TwoAgents
  <2>3. x.step \in Nat /\ y.step \in Nat BY DEF AgentSet
  <2> HIDE DEF z
  <2>11. z.step = y.step + 1 BY <2>1
  <2>4. Waiting(x, z) BY <2>1 DEF Waiting, Sound
  <2>5. Good(t) BY <2>1, <2>2, <2>4 DEF Good
  <2>6. Crew!Last(t) = z
    <3>1. Crew!Last(<<x, z>>) = z BY TwoAgents
    <3> QED BY <2>2, <3>1
  <2>7. ~AtCall(t) BY <2>1, <2>6 DEF AtCall
  <2>8. Told(t) = Told(s) \cup got.known \cup got.denied
    <3>1. Told(<<x, z>>) = (x.known \cup x.denied) \cup (z.known \cup z.denied) BY ToldByTwo
    <3>2. Told(<<x, y>>) = (x.known \cup x.denied) \cup (y.known \cup y.denied) BY ToldByTwo
    <3> QED BY <2>1, <2>2, <3>1, <3>2
  <2>9. ASSUME NEW key \in Keys, Past(s, key) PROVE Past(t, key)
    <3>1. key[1].step \in Nat /\ (Len(key) = 2 => key[2].step \in Nat) BY KeyShape
    <3>2. key[1].step <= x.step \/ (Len(key) = 2 /\ key[1].step = x.step + 1 /\ key[2].step <= y.step) BY <2>9, PastOfTwo
    <3>3. key[1].step <= x.step \/ (Len(key) = 2 /\ key[1].step = x.step + 1 /\ key[2].step <= z.step) BY ONLY <2>11, <2>3, <3>1, <3>2
    <3>4. Past(<<x, z>>, key) BY <3>3, PastOfTwo
    <3> QED BY <2>2, <3>4
  <2>10. ASSUME AtCall(s) PROVE Past(t, Crew!Invocation(y))
    <3>1. Crew!Invocation(y) = <<Link(x.step + 1, "specialist"), Link(y.step + 1, y.call.target)>> BY CallOfTwo
    <3>2. /\ Len(Crew!Invocation(y)) = 2 /\ Crew!Invocation(y)[1].step = x.step + 1
          /\ Crew!Invocation(y)[2].step = y.step + 1
      BY <3>1 DEF Link
    <3>4. y.step + 1 <= z.step BY ONLY <2>11, <2>3
    <3>3. Past(<<x, z>>, Crew!Invocation(y)) BY <3>2, <3>4, PastOfTwo
    <3> QED BY <2>2, <3>3
  <2> QED BY <2>2, <2>5, <2>7, <2>8, <2>9, <2>10
<1> QED BY <1>1, <1>2 DEF Good

\* The caller of a specialist that returns.
LEMMA ReturnKeeps ==
  ASSUME NEW s, Good(s), Len(s) = 2, NEW got, Fits(got),
         Crew!Last(s).known \cup Crew!Last(s).denied \subseteq got.known \cup got.denied,
         NEW t, t = <<Crew!Observed(s[1], got)>>
  PROVE  Good(t) /\ ~AtCall(t) /\ Told(s) \subseteq Told(t) /\ \A key \in Keys : Past(s, key) => Past(t, key)
<1>1. ~\E x \in AgentSet : s = <<x>> BY OneAgent
<1> PICK x \in AgentSet, y \in AgentSet : s = <<x, y>> /\ Waiting(x, y) BY <1>1 DEF Good
<1> DEFINE z == Crew!Observed(x, got)
<1>2. /\ z \in AgentSet /\ z.inv = x.inv /\ z.place = x.place /\ z.step = x.step + 1 /\ z.call.target = ""
      /\ z.known = x.known \cup got.known /\ z.denied = x.denied \cup got.denied /\ z.cut = z.short
  BY ObservedSound DEF Waiting, Sound
<1>3. s[1] = x /\ Crew!Last(s) = y BY TwoAgents
<1>4. t = <<z>> BY <1>3
<1>5. x.step \in Nat BY DEF AgentSet
<1> HIDE DEF z
<1>6. Single(z) BY <1>2 DEF Single, Sound, Waiting
<1>7. Good(t) BY <1>2, <1>4, <1>6 DEF Good
<1>8. Crew!Last(t) = z BY <1>4, OneAgent
<1>9. ~AtCall(t) BY <1>2, <1>8 DEF AtCall
<1>10. Told(s) \subseteq Told(t)
  <2>1. Told(<<x, y>>) = (x.known \cup x.denied) \cup (y.known \cup y.denied) BY ToldByTwo
  <2>2. Told(<<z>>) = z.known \cup z.denied BY ToldByOne
  <2> QED BY <1>2, <1>3, <1>4, <2>1, <2>2
<1>11. z.step = x.step + 1 BY <1>2
<1>12. ASSUME NEW key \in Keys, Past(s, key) PROVE Past(t, key)
  <2>1. key[1].step \in Nat BY KeyShape
  <2>2. key[1].step <= x.step \/ key[1].step = x.step + 1 BY <1>12, PastOfTwo
  <2>3. key[1].step <= z.step BY ONLY <1>11, <1>5, <2>1, <2>2
  <2>4. Past(<<z>>, key) BY <2>3, PastOfOne
  <2> QED BY <1>4, <2>4
<1> QED BY <1>7, <1>9, <1>10, <1>12

\* An agent that asks its specialist.
LEMMA DelegateKeeps ==
  ASSUME NEW s, Good(s), Len(s) # 2, NEW caller,
         caller = [Crew!Last(s) EXCEPT !.call = [target |-> "specialist", input |-> 0]],
         NEW t, t = <<caller, Crew!Agent(Crew!Invocation(caller), Crew!Place(caller))>>
  PROVE  Good(t) /\ ~AtCall(t) /\ Told(s) \subseteq Told(t) /\ \A key \in Keys : Past(s, key) => Past(t, key)
<1>1. ~\E x, y \in AgentSet : s = <<x, y>> BY TwoAgents
<1> PICK x \in AgentSet : s = <<x>> /\ Single(x) BY <1>1 DEF Good
<1> DEFINE y == Crew!Agent(Crew!Invocation(caller), Crew!Place(caller))
<1>2. Crew!Last(s) = x BY OneAgent
<1> DEFINE call == [target |-> "specialist", input |-> 0]
<1>3. call \in [target : Targets, input : Inputs \cup {0}] /\ call.target = "specialist" BY DEF Targets
<1>4. caller = [x EXCEPT !.call = call] BY <1>2
<1> HIDE DEF call
<1>5. /\ caller \in AgentSet /\ caller.inv = x.inv /\ caller.place = x.place /\ caller.step = x.step
      /\ caller.call.target = "specialist" /\ caller.known = x.known /\ caller.denied = x.denied
      /\ caller.cut = x.cut /\ caller.short = x.short
  BY <1>3, <1>4 DEF AgentSet
<1>6. x.step \in Nat /\ x.inv = <<>> /\ x.place = <<>> /\ x.cut = x.short BY DEF Single, Sound, AgentSet
<1>7. Crew!Invocation(caller) = <<Link(x.step + 1, "specialist")>> /\ Crew!Place(caller) = Crew!Invocation(caller)
  <2>1. \A z : <<>> \o <<z>> = <<z>> OBVIOUS
  <2> QED BY <1>5, <1>6, <2>1 DEF Crew!Invocation, Crew!Place, Link
<1> DEFINE place == <<Link(x.step + 1, "specialist")>>
<1>8. y = [inv |-> place, place |-> place, step |-> 0, known |-> {}, denied |-> {}, cut |-> FALSE, short |-> FALSE,
           evidence |-> FALSE, call |-> Crew!NoCall]
  BY <1>7 DEF Crew!Agent
<1>9. Crew!NoCall \in [target : Targets, input : Inputs \cup {0}] /\ Crew!NoCall.target = "" BY DEF Crew!NoCall, Targets
<1>10. place \in {<<Link(n, "specialist")>> : n \in Nat} BY <1>6
<1>13. t = <<caller, y>> OBVIOUS
<1> HIDE DEF place, y
<1>11. y \in AgentSet BY <1>8, <1>9, <1>10 DEF AgentSet
<1>20. y.inv = place /\ y.place = place /\ y.cut = FALSE /\ y.short = FALSE /\ y.call = Crew!NoCall /\ y.known = {} /\ y.denied = {}
  BY <1>8
<1>12. /\ y.inv = <<Link(x.step + 1, "specialist")>> /\ y.place = y.inv /\ y.cut = y.short /\ y.call.target = ""
       /\ y.known = {} /\ y.denied = {}
  BY <1>9, <1>20 DEF place
<1>14. Waiting(caller, y) BY <1>5, <1>6, <1>11, <1>12 DEF Waiting, Sound
<1>15. Good(t) BY <1>5, <1>11, <1>13, <1>14 DEF Good
<1>16. Crew!Last(t) = y
  <2>1. Crew!Last(<<caller, y>>) = y BY TwoAgents
  <2> QED BY <1>13, <2>1
<1>17. ~AtCall(t) BY <1>12, <1>16 DEF AtCall
<1>18. Told(s) \subseteq Told(t)
  <2>1. Told(<<caller, y>>) = (caller.known \cup caller.denied) \cup (y.known \cup y.denied) BY ToldByTwo
  <2>2. Told(<<x>>) = x.known \cup x.denied BY ToldByOne
  <2> QED BY <1>5, <1>13, <2>1, <2>2
<1>19. ASSUME NEW key \in Keys, Past(s, key) PROVE Past(t, key)
  <2>1. key[1].step <= caller.step BY <1>5, <1>19, PastOfOne
  <2>2. Past(<<caller, y>>, key) BY <2>1, PastOfTwo
  <2> QED BY <1>13, <2>2
<1> QED BY <1>15, <1>17, <1>18, <1>19

\* An agent that asks for a write, or is at the end of its budget.
LEMMA AskKeeps ==
  ASSUME NEW s, Good(s), NEW call \in [target : {"write"}, input : Inputs],
         NEW t, t = Append(Crew!Front(s), [Crew!Last(s) EXCEPT !.call = call])
  PROVE  Good(t) /\ Told(t) = Told(s) /\ \A key \in Keys : Past(s, key) => Past(t, key)
<1>1. call \in [target : Targets, input : Inputs \cup {0}] /\ call.target # "specialist" BY DEF Targets
<1>2. ASSUME NEW x \in AgentSet
      PROVE  LET z == [x EXCEPT !.call = call] IN
             /\ z \in AgentSet /\ z.inv = x.inv /\ z.place = x.place /\ z.step = x.step /\ z.call = call
             /\ z.known = x.known /\ z.denied = x.denied /\ z.cut = x.cut /\ z.short = x.short
  BY <1>1 DEF AgentSet
<1>3. t = Append(Crew!Front(s), [Crew!Last(s) EXCEPT !.call = call]) OBVIOUS
<1>4. CASE \E x \in AgentSet : s = <<x>> /\ Single(x)
  <2> PICK x \in AgentSet : s = <<x>> /\ Single(x) BY <1>4
  <2> DEFINE z == [x EXCEPT !.call = call]
  <2>1. /\ z \in AgentSet /\ z.inv = x.inv /\ z.place = x.place /\ z.step = x.step /\ z.call = call
        /\ z.known = x.known /\ z.denied = x.denied /\ z.cut = x.cut /\ z.short = x.short
    BY <1>2
  <2>2. t = <<z>> BY <1>3, OneAgent
  <2> HIDE DEF z
  <2>3. Single(z) BY <1>1, <2>1 DEF Single, Sound
  <2>4. Good(t) BY <2>1, <2>2, <2>3 DEF Good
  <2>5. Told(t) = Told(s) BY <2>1, <2>2, ToldByOne
  <2>6. ASSUME NEW key \in Keys, Past(s, key) PROVE Past(t, key)
    <3>1. key[1].step <= z.step BY <2>1, <2>6, PastOfOne
    <3> QED BY <2>2, <3>1, PastOfOne
  <2> QED BY <2>4, <2>5, <2>6
<1>5. CASE \E x, y \in AgentSet : s = <<x, y>> /\ Waiting(x, y)
  <2> PICK x \in AgentSet, y \in AgentSet : s = <<x, y>> /\ Waiting(x, y) BY <1>5
  <2> DEFINE z == [y EXCEPT !.call = call]
  <2>1. /\ z \in AgentSet /\ z.inv = y.inv /\ z.place = y.place /\ z.step = y.step /\ z.call = call
        /\ z.known = y.known /\ z.denied = y.denied /\ z.cut = y.cut /\ z.short = y.short
    BY <1>2
  <2>7. Crew!Last(s) = y BY TwoAgents
  <2>8. t = Append(Crew!Front(<<x, y>>), z) BY <1>3, <2>7
  <2> HIDE DEF z
  <2>2. t = <<x, z>> BY <2>8, TwoAgents
  <2>3. Waiting(x, z) BY <1>1, <2>1 DEF Waiting, Sound
  <2>4. Good(t) BY <2>1, <2>2, <2>3 DEF Good
  <2>5. Told(t) = Told(s)
    <3>1. Told(<<x, z>>) = (x.known \cup x.denied) \cup (z.known \cup z.denied) BY ToldByTwo
    <3>2. Told(<<x, y>>) = (x.known \cup x.denied) \cup (y.known \cup y.denied) BY ToldByTwo
    <3> QED BY <2>1, <2>2, <3>1, <3>2
  <2>6. ASSUME NEW key \in Keys, Past(s, key) PROVE Past(t, key)
    <3>1. key[1].step <= x.step \/ (Len(key) = 2 /\ key[1].step = x.step + 1 /\ key[2].step <= z.step) BY <2>1, <2>6, PastOfTwo
    <3>2. Past(<<x, z>>, key) BY <3>1, PastOfTwo
    <3> QED BY <2>2, <3>2
  <2> QED BY <2>4, <2>5, <2>6
<1> QED BY <1>4, <1>5 DEF Good

-----------------------------------------------------------------------------
\* A step that changes nothing on record.
LEMMA QuietKeeps ==
  ASSUME CrewInv, UNCHANGED <<gated, approvals, results, markers, frames, stage, sent>>, job = "running", stage = "",
         output'.cut = output'.short, job' # "success",
         job' = "running" => Good(stack') /\ Knows(approvals, stack') /\ \A key \in Keys : Past(stack, key) => Past(stack', key)
  PROVE  CrewInv'
<1>1. /\ gated' = gated /\ approvals' = approvals /\ results' = results /\ markers' = markers /\ frames' = frames
      /\ stage' = stage /\ sent' = sent
  OBVIOUS
<1>12. gated' = gated OBVIOUS
<1>10. gated' <=> gated BY ONLY <1>12
<1>5. Knows(approvals', frames') <=> Knows(approvals, frames) BY <1>1
<1>6. frames' # <<>> => Good(frames') /\ Knows(approvals', frames') BY <1>1, <1>5 DEF CrewInv, ApprovalsInv
<1>7. DOMAIN approvals' \subseteq Keys BY <1>1 DEF CrewInv, ApprovalsInv
<1>8. \A key \in DOMAIN approvals' :
       approvals'[key] \in ApprovalSet
  BY <1>1 DEF CrewInv, ApprovalsInv
<1>11. (~gated => DOMAIN approvals = {}) /\ (frames = <<>> => DOMAIN approvals = {}) BY DEF CrewInv, ApprovalsInv
<1>9. (~gated' => DOMAIN approvals' = {}) /\ (job' # "success" /\ frames' = <<>> => DOMAIN approvals' = {})
  BY <1>1, <1>10, <1>11
<1>2. ApprovalsInv' BY <1>6, <1>7, <1>8, <1>9 DEF ApprovalsInv
<1>3. StackInv' BY <1>1 DEF CrewInv, StackInv, Knows
<1>4. WriteInv'
  <2>1. stage' = "" /\ (job' = "running" => markers' = {}) BY <1>1 DEF CrewInv, WriteInv
  <2>3. \A place \in DOMAIN sent :
          /\ sent[place] = 1
          /\ gated => place \in DOMAIN approvals /\ approvals[place].status \in {"executing", "completed"}
          /\ ~gated => place \in DOMAIN results \cup markers
    BY DEF CrewInv, WriteInv
  <2>2. \A place \in DOMAIN sent' :
          /\ sent'[place] = 1
          /\ gated' => place \in DOMAIN approvals' /\ approvals'[place].status \in {"executing", "completed"}
          /\ ~gated' => place \in DOMAIN results' \cup markers'
    BY <1>1, <1>10, <2>3
  <2> QED BY <2>1, <2>2 DEF WriteInv
<1> QED BY <1>1, <1>2, <1>3, <1>4 DEF CrewInv

\* An agent between two calls that goes on.
LEMMA PlanningKeeps ==
  ASSUME CrewInv, Crew!Planning, UNCHANGED <<gated, approvals, results, markers, frames, stage, sent>>,
         output'.cut = output'.short, job' # "success",
         job' = "running" => Good(stack') /\ Told(stack) \subseteq Told(stack') /\ \A key \in Keys : Past(stack, key) => Past(stack', key)
  PROVE  CrewInv'
<1>3. Crew!NoCall.target # "write" BY DEF Crew!NoCall
<1>4. Crew!Last(stack).call = Crew!NoCall /\ job = "running" /\ stage = "" BY DEF Crew!Planning, Crew!Working, Crew!Top
<1>1. job = "running" /\ stage = "" /\ ~AtCall(stack) /\ Knows(approvals, stack) /\ DOMAIN approvals \subseteq Keys
  BY <1>3, <1>4 DEF CrewInv, StackInv, ApprovalsInv, AtCall
<1>2. job' = "running" => Knows(approvals, stack') BY <1>1 DEF Knows
<1> QED BY <1>1, <1>2, QuietKeeps

LEMMA TopFits ==
  ASSUME NEW s, Good(s)
  PROVE  LET x == Crew!Last(s)
             y == [x EXCEPT !.cut = TRUE, !.short = TRUE]
             z == [y EXCEPT !.cut = TRUE, !.short = TRUE, !.evidence = FALSE]
         IN /\ Fits(x) /\ Fits(y) /\ Fits(z)
            /\ y.known = x.known /\ y.denied = x.denied /\ z.known = x.known /\ z.denied = x.denied
            /\ x \in AgentSet /\ s # <<>> /\ (Len(s) = 2 => s[1] \in AgentSet)
<1> DEFINE x == Crew!Last(s)
           y == [x EXCEPT !.cut = TRUE, !.short = TRUE]
           z == [y EXCEPT !.cut = TRUE, !.short = TRUE, !.evidence = FALSE]
<1>1. x \in AgentSet /\ x.cut = x.short /\ s # <<>> /\ (Len(s) = 2 => s[1] \in AgentSet)
  <2>1. CASE \E v \in AgentSet : s = <<v>> /\ Single(v)
    <3> PICK v \in AgentSet : s = <<v>> /\ Single(v) BY <2>1
    <3> QED BY OneAgent DEF Single, Sound
  <2>2. CASE \E v, w \in AgentSet : s = <<v, w>> /\ Waiting(v, w)
    <3> PICK v \in AgentSet, w \in AgentSet : s = <<v, w>> /\ Waiting(v, w) BY <2>2
    <3>1. Crew!Last(<<v, w>>) = w /\ <<v, w>>[1] = v BY TwoAgents
    <3> QED BY <3>1 DEF Waiting, Sound
  <2> QED BY <2>1, <2>2 DEF Good
<1> HIDE DEF x
<1>2. y \in AgentSet /\ y.cut = TRUE /\ y.short = TRUE /\ y.known = x.known /\ y.denied = x.denied /\ y.evidence = x.evidence
  BY <1>1 DEF AgentSet
<1> HIDE DEF y
<1>3. z \in AgentSet /\ z.cut = TRUE /\ z.short = TRUE /\ z.known = y.known /\ z.denied = y.denied
  BY <1>2 DEF AgentSet
<1> HIDE DEF z
<1>4. ASSUME NEW v \in AgentSet, v.cut = v.short PROVE Fits(v) BY <1>4 DEF Fits, AgentSet
<1>5. Fits(x) /\ Fits(y) /\ Fits(z) BY <1>1, <1>2, <1>3, <1>4
<1> QED BY <1>1, <1>2, <1>3, <1>5 DEF x, y, z

LEMMA AnswerKeeps ==
  ASSUME CrewInv, Crew!Planning, NEW kind, NEW agent, agent = Crew!Top \/ agent = Crew!Short, Crew!Answer(kind, agent),
         UNCHANGED <<gated, approvals, results, markers, frames, stage, sent, job>>
  PROVE  CrewInv'
<1>1. job = "running" /\ Good(stack) BY DEF CrewInv, StackInv, Crew!Planning, Crew!Working
<1>2. Fits(agent) /\ agent.known = Crew!Top.known /\ agent.denied = Crew!Top.denied /\ agent.cut = agent.short
  BY <1>1, TopFits DEF Crew!Top, Crew!Short, Fits
<1>3. job' # "success" /\ UNCHANGED <<gated, approvals, results, markers, frames, stage, sent>> BY <1>1
<1>4. CASE Len(stack) = 2
  <2>1. stack' = <<Crew!Observed(stack[1], agent)>> /\ output' = output BY <1>4 DEF Crew!Answer, Crew!Return, Crew!Nested
  <2>2. Crew!Last(stack).known \cup Crew!Last(stack).denied \subseteq agent.known \cup agent.denied BY <1>2 DEF Crew!Top
  <2>3. Good(stack') /\ Told(stack) \subseteq Told(stack') /\ \A key \in Keys : Past(stack, key) => Past(stack', key)
    BY <1>1, <1>2, <1>4, <2>1, <2>2, ReturnKeeps
  <2>4. output'.cut = output'.short BY <2>1 DEF CrewInv
  <2> QED BY <1>3, <2>3, <2>4, PlanningKeeps
<1>5. CASE Len(stack) # 2
  <2>1. stack' = stack /\ output' = [kind |-> kind, cut |-> agent.cut, short |-> agent.short]
    BY <1>5 DEF Crew!Answer, Crew!Nested
  <2>2. output'.cut = output'.short BY <1>2, <2>1
  <2>3. Good(stack') /\ Told(stack) \subseteq Told(stack') /\ \A key \in Keys : Past(stack, key) => Past(stack', key)
    BY <1>1, <2>1
  <2> QED BY <1>3, <2>2, <2>3, PlanningKeeps
<1> QED BY <1>4, <1>5

LEMMA BudgetKeeps ==
  ASSUME CrewInv, Crew!Planning, Crew!OutOfBudget(Crew!Short),
         UNCHANGED <<gated, approvals, results, markers, frames, stage, sent, output>>
  PROVE  CrewInv'
<1>1. job = "running" /\ Good(stack) BY DEF CrewInv, StackInv, Crew!Planning, Crew!Working
<1>2. output'.cut = output'.short /\ UNCHANGED <<gated, approvals, results, markers, frames, stage, sent>> BY DEF CrewInv
<1>3. CASE Len(stack) = 2
  <2> DEFINE agent == [Crew!Short EXCEPT !.cut = TRUE, !.short = TRUE, !.evidence = FALSE]
  <2>1. Fits(agent) /\ agent.known = Crew!Top.known /\ agent.denied = Crew!Top.denied
    BY <1>1, TopFits DEF Crew!Top, Crew!Short
  <2>2. stack' = <<Crew!Observed(stack[1], agent)>> /\ job' = job BY <1>3 DEF Crew!OutOfBudget, Crew!Return, Crew!Nested
  <2> HIDE DEF agent
  <2>3. Crew!Last(stack).known \cup Crew!Last(stack).denied \subseteq agent.known \cup agent.denied BY <2>1 DEF Crew!Top
  <2>4. Good(stack') /\ Told(stack) \subseteq Told(stack') /\ \A key \in Keys : Past(stack, key) => Past(stack', key)
    BY <1>1, <1>3, <2>1, <2>2, <2>3, ReturnKeeps
  <2> QED BY <1>1, <1>2, <2>2, <2>4, PlanningKeeps
<1>4. CASE Len(stack) # 2
  <2>1. job' = "failed" BY <1>4 DEF Crew!OutOfBudget, Crew!Nested
  <2> QED BY <1>2, <2>1, PlanningKeeps
<1> QED BY <1>3, <1>4

LEMMA ContinuePlanning ==
  ASSUME CrewInv, Crew!Planning, NEW got, Fits(got), Crew!Continue(got),
         UNCHANGED <<gated, approvals, results, markers, frames, stage, sent, job, output>>
  PROVE  CrewInv'
<1>1. job = "running" /\ Good(stack) BY DEF CrewInv, StackInv, Crew!Planning, Crew!Working
<1>2. stack' = Append(Crew!Front(stack), Crew!Observed(Crew!Last(stack), got)) BY DEF Crew!Continue, Crew!Top
<1>5. /\ Good(stack') /\ Told(stack') = Told(stack) \cup got.known \cup got.denied
      /\ \A key \in Keys : Past(stack, key) => Past(stack', key)
  BY <1>1, <1>2, ContinueKeeps
<1>3. Good(stack') /\ Told(stack) \subseteq Told(stack') /\ \A key \in Keys : Past(stack, key) => Past(stack', key)
  BY <1>5
<1>4. output'.cut = output'.short /\ UNCHANGED <<gated, approvals, results, markers, frames, stage, sent>> /\ job' # "success"
  BY <1>1 DEF CrewInv
<1> QED BY <1>3, <1>4, PlanningKeeps

LEMMA PlanStep ==
  ASSUME CrewInv,
         \/ Crew!Exhaust \/ Crew!StopTyped \/ Crew!StopWithoutEvidence \/ Crew!StopWithEvidence
         \/ Crew!Final \/ Crew!Observation \/ Crew!Read \/ Crew!Abstain \/ Crew!Delegate \/ Crew!AskWrite
  PROVE  CrewInv'
<1>1. CASE Crew!Exhaust \/ Crew!Abstain
  <2>1. /\ Crew!Planning /\ UNCHANGED <<gated, approvals, results, markers, frames, stage, sent>> /\ stack' = stack /\ job' = job
    BY <1>1 DEF Crew!Exhaust, Crew!Abstain, Crew!store, Crew!config
  <2>2. job = "running" /\ Good(stack) BY <2>1 DEF CrewInv, StackInv, Crew!Planning, Crew!Working
  <2>3. output'.cut = output'.short
    BY <1>1 DEF Crew!Exhaust, Crew!Abstain, Crew!NoOutput, CrewInv
  <2> QED BY <2>1, <2>2, <2>3, PlanningKeeps
<1>2. CASE Crew!StopTyped
  BY <1>2, BudgetKeeps DEF Crew!StopTyped, Crew!store, Crew!config
<1>3. CASE Crew!StopWithoutEvidence
  <2>1. Crew!Planning /\ UNCHANGED <<gated, approvals, results, markers, frames, stage, sent>>
    BY <1>3 DEF Crew!StopWithoutEvidence, Crew!store, Crew!config
  <2>2. CASE Crew!Nested
    <3>1. Crew!OutOfBudget(Crew!Short) /\ UNCHANGED output BY <1>3, <2>2 DEF Crew!StopWithoutEvidence
    <3> QED BY <2>1, <3>1, BudgetKeeps
  <2>3. CASE ~Crew!Nested
    <3>1. Crew!Answer("abstain", Crew!Short) /\ UNCHANGED job BY <1>3, <2>3 DEF Crew!StopWithoutEvidence
    <3> QED BY <2>1, <3>1, AnswerKeeps
  <2> QED BY <2>2, <2>3
<1>4. CASE Crew!StopWithEvidence
  <2>1. /\ Crew!Planning /\ UNCHANGED <<gated, approvals, results, markers, frames, stage, sent, job>>
        /\ \E kind \in {"abstain", "answer"} : Crew!Answer(kind, Crew!Short)
    BY <1>4 DEF Crew!StopWithEvidence, Crew!store, Crew!config
  <2> QED BY <2>1, AnswerKeeps
<1>5. CASE Crew!Final
  <2>1. Crew!Planning /\ UNCHANGED <<gated, approvals, results, markers, frames, stage, sent>>
        /\ \/ Crew!Answer("answer", Crew!Top) /\ UNCHANGED job
           \/ Crew!OutOfBudget(Crew!Short) /\ UNCHANGED output
           \/ Crew!Answer("abstain", Crew!Short) /\ UNCHANGED job
    BY <1>5 DEF Crew!Final, Crew!store, Crew!config
  <2> QED BY <2>1, BudgetKeeps, AnswerKeeps
<1>6. Fits(Crew!Nothing) BY DEF Fits, Crew!Nothing
<1>7. CASE Crew!Observation
  BY <1>6, <1>7, ContinuePlanning DEF Crew!Observation, Crew!store, Crew!config
<1>8. CASE Crew!Read
  <2> PICK evidence \in BOOLEAN, cut \in BOOLEAN :
         Crew!Continue([Crew!Nothing EXCEPT !.evidence = evidence, !.cut = cut, !.short = cut])
    BY <1>8 DEF Crew!Read
  <2> DEFINE got == [Crew!Nothing EXCEPT !.evidence = evidence, !.cut = cut, !.short = cut]
  <2>1. Fits(got) BY DEF Fits, Crew!Nothing
  <2>2. Crew!Planning /\ Crew!Continue(got) /\ UNCHANGED <<gated, approvals, results, markers, frames, stage, sent, job, output>>
    BY <1>8 DEF Crew!Read, Crew!store, Crew!config
  <2> HIDE DEF got
  <2> QED BY <2>1, <2>2, ContinuePlanning
<1>9. CASE Crew!Delegate
  <2> DEFINE caller == [Crew!Top EXCEPT !.call = [target |-> "specialist", input |-> 0]]
  <2>1. /\ Crew!Planning /\ Len(stack) # 2 /\ UNCHANGED <<gated, approvals, results, markers, frames, stage, sent, job, output>>
        /\ stack' = <<caller, Crew!Agent(Crew!Invocation(caller), Crew!Place(caller))>>
    BY <1>9 DEF Crew!Delegate, Crew!store, Crew!config, Crew!Nested
  <2>2. job = "running" /\ Good(stack) BY <2>1 DEF CrewInv, StackInv, Crew!Planning, Crew!Working
  <2>3. caller = [Crew!Last(stack) EXCEPT !.call = [target |-> "specialist", input |-> 0]] BY DEF Crew!Top
  <2> HIDE DEF caller
  <2>4. Good(stack') /\ Told(stack) \subseteq Told(stack') /\ \A key \in Keys : Past(stack, key) => Past(stack', key)
    BY <2>1, <2>2, <2>3, DelegateKeeps
  <2>5. output'.cut = output'.short BY <2>1 DEF CrewInv
  <2> QED BY <2>1, <2>2, <2>4, <2>5, PlanningKeeps
<1>10. CASE Crew!AskWrite
  <2> PICK input \in Inputs :
         stack' = Append(Crew!Front(stack), [Crew!Last(stack) EXCEPT !.call = [target |-> "write", input |-> input]])
    BY <1>10 DEF Crew!AskWrite, Crew!Top
  <2>1. Crew!Planning /\ UNCHANGED <<gated, approvals, results, markers, frames, stage, sent, job, output>>
    BY <1>10 DEF Crew!AskWrite, Crew!store, Crew!config
  <2>2. job = "running" /\ Good(stack) BY <2>1 DEF CrewInv, StackInv, Crew!Planning, Crew!Working
  <2> DEFINE s == stack
             t == stack'
             call == [target |-> "write", input |-> input]
  <2>3. Good(s) /\ t = Append(Crew!Front(s), [Crew!Last(s) EXCEPT !.call = call]) /\ call \in [target : {"write"}, input : Inputs]
    BY <2>2
  <2> HIDE DEF s, t, call
  <2>6. Good(t) /\ Told(s) \subseteq Told(t) /\ \A key \in Keys : Past(s, key) => Past(t, key)
    <3>1. Good(s) /\ call \in [target : {"write"}, input : Inputs] BY <2>3
    <3>2. t = Append(Crew!Front(s), [Crew!Last(s) EXCEPT !.call = call]) BY <2>3
    <3>3. Good(t) BY ONLY <3>1, <3>2, AskKeeps
    <3>4. Told(t) = Told(s) BY ONLY <3>1, <3>2, AskKeeps
    <3>5. \A key \in Keys : Past(s, key) => Past(t, key) BY ONLY <3>1, <3>2, AskKeeps
    <3> QED BY <3>3, <3>4, <3>5
  <2>4. Good(stack') /\ Told(stack) \subseteq Told(stack') /\ \A key \in Keys : Past(stack, key) => Past(stack', key)
    BY <2>6 DEF s, t
  <2>5. output'.cut = output'.short BY <2>1 DEF CrewInv
  <2> QED BY <2>1, <2>2, <2>4, <2>5, PlanningKeeps
<1> QED BY <1>1, <1>2, <1>3, <1>4, <1>5, <1>7, <1>8, <1>9, <1>10

-----------------------------------------------------------------------------
LEMMA PutIs ==
  ASSUME NEW ff, NEW x, NEW value
  PROVE  /\ DOMAIN Crew!Put(ff, x, value) = DOMAIN ff \cup {x} /\ Crew!Put(ff, x, value)[x] = value
         /\ \A y \in DOMAIN ff : y # x => Crew!Put(ff, x, value)[y] = ff[y]
  BY DEF Crew!Put

LEMMA StatusIs ==
  ASSUME NEW a, NEW key \in DOMAIN a, \A y \in DOMAIN a : a[y] \in ApprovalSet, NEW word \in Statuses,
         NEW n, n = [a EXCEPT ![key].status = word]
  PROVE  /\ DOMAIN n = DOMAIN a /\ \A y \in DOMAIN n : n[y] \in ApprovalSet /\ n[y].input = a[y].input
         /\ n[key].status = word /\ \A y \in DOMAIN a : y # key => n[y] = a[y]
<1>1. DOMAIN n = DOMAIN a /\ n[key] = [a[key] EXCEPT !.status = word] /\ \A y \in DOMAIN a : y # key => n[y] = a[y]
  OBVIOUS
<1>2. a[key] \in ApprovalSet OBVIOUS
<1>3. n[key] \in ApprovalSet /\ n[key].input = a[key].input /\ n[key].status = word BY <1>1, <1>2 DEF ApprovalSet
<1> QED BY <1>1, <1>3

\* A decision on an approval, or its begin, tells the agents nothing.
LEMMA StatusKnown ==
  ASSUME NEW a, NEW n, DOMAIN n = DOMAIN a, \A y \in DOMAIN n : n[y].input = a[y].input,
         \A y \in DOMAIN n : n[y].status = "completed" => a[y].status = "completed",
         NEW s, Knows(a, s)
  PROVE  Knows(n, s)
  BY DEF Knows

LEMMA HereIs == Crew!Writing /\ CrewInv =>
  /\ job = "running" /\ stage = "" /\ Good(stack) /\ AtCall(stack) /\ markers = {} /\ Crew!Here = Crew!Invocation(Crew!Last(stack))
  /\ Crew!Here \in Keys /\ ~Past(stack, Crew!Here) /\ Crew!Top = Crew!Last(stack) /\ Crew!Place(Crew!Top) = Crew!Here
<1> SUFFICES ASSUME Crew!Writing, CrewInv
             PROVE  /\ job = "running" /\ stage = "" /\ Good(stack) /\ AtCall(stack) /\ markers = {}
                    /\ Crew!Here = Crew!Invocation(Crew!Last(stack)) /\ Crew!Here \in Keys /\ ~Past(stack, Crew!Here)
                    /\ Crew!Top = Crew!Last(stack) /\ Crew!Place(Crew!Top) = Crew!Here
  OBVIOUS
<1>1. job = "running" /\ stage = "" BY DEF Crew!Writing, Crew!Working
<1>2. Good(stack) BY <1>1 DEF CrewInv, StackInv
<1>3. markers = {} BY <1>1 DEF CrewInv, WriteInv
<1>4. AtCall(stack) BY DEF Crew!Writing, Crew!Top, AtCall
<1>5. Crew!Here = Crew!Invocation(Crew!Last(stack)) /\ Crew!Top = Crew!Last(stack) BY DEF Crew!Here, Crew!Top
<1> QED BY <1>1, <1>2, <1>3, <1>4, <1>5, HereNotPast

\* The agent that asked for the write goes on, and what was carried out it is told.
Tells(a, n, s, got, t) ==
  LET here == Crew!Invocation(Crew!Last(s)) IN
  /\ Good(s) /\ AtCall(s) /\ Knows(a, s) /\ DOMAIN a \subseteq Keys
  /\ DOMAIN n = DOMAIN a /\ (\A y \in DOMAIN n : y # here => n[y] = a[y]) /\ Fits(got)
  /\ (here \in DOMAIN n /\ n[here].status = "completed" => here \in got.known \cup got.denied)
  /\ t = Append(Crew!Front(s), Crew!Observed(Crew!Last(s), got))

LEMMA ToldKeeps ==
  ASSUME NEW a, NEW n, NEW s, NEW got, NEW t, Tells(a, n, s, got, t)
  PROVE  Good(t) /\ Knows(n, t) /\ \A key \in Keys : Past(s, key) => Past(t, key)
<1> DEFINE here == Crew!Invocation(Crew!Last(s))
<1>8. /\ Knows(a, s) /\ DOMAIN a \subseteq Keys
      /\ DOMAIN n = DOMAIN a /\ (\A y \in DOMAIN n : y # here => n[y] = a[y])
      /\ (here \in DOMAIN n /\ n[here].status = "completed" => here \in got.known \cup got.denied)
  BY DEF Tells
<1>6. Good(s) /\ AtCall(s) /\ Fits(got) /\ t = Append(Crew!Front(s), Crew!Observed(Crew!Last(s), got)) BY DEF Tells
<1>1. Good(t) BY ONLY <1>6, ContinueKeeps
<1>2. Told(t) = Told(s) \cup got.known \cup got.denied BY ONLY <1>6, ContinueKeeps
<1>3. \A key \in Keys : Past(s, key) => Past(t, key) BY ONLY <1>6, ContinueKeeps
<1>7. Past(t, Crew!Invocation(Crew!Last(s))) BY ONLY <1>6, ContinueKeeps
<1>4. Past(t, here) BY <1>7
<1> HIDE DEF here
<1>5. ASSUME NEW key \in DOMAIN n
      PROVE  Past(t, key) /\ (n[key].status = "completed" => key \in Told(t))
  <2>1. CASE key = here BY <1>2, <1>4, <1>8, <2>1
  <2>2. CASE key # here
    <3>1. Past(s, key) /\ (a[key].status = "completed" => key \in Told(s)) BY <1>8, <2>2 DEF Knows, here
    <3>2. n[key] = a[key] /\ key \in Keys BY <1>8, <2>2
    <3> QED BY <1>2, <1>3, <3>1, <3>2
  <2> QED BY <2>1, <2>2
<1> QED BY <1>1, <1>3, <1>5 DEF Knows

LEMMA WritingContinue ==
  ASSUME CrewInv, Crew!Writing, NEW got, Fits(got), Crew!Continue(got),
         Crew!Here \in DOMAIN approvals /\ approvals[Crew!Here].status = "completed" => Crew!Here \in got.known \cup got.denied,
         UNCHANGED <<gated, approvals, results, markers, frames, stage, sent, job, output>>
  PROVE  CrewInv'
<1>1. job = "running" /\ stage = "" /\ Good(stack) /\ AtCall(stack) /\ Crew!Here = Crew!Invocation(Crew!Last(stack)) BY HereIs
<1>2. Knows(approvals, stack) /\ DOMAIN approvals \subseteq Keys BY <1>1 DEF CrewInv, StackInv, ApprovalsInv
<1>3. stack' = Append(Crew!Front(stack), Crew!Observed(Crew!Last(stack), got)) BY DEF Crew!Continue, Crew!Top
<1>6. /\ Fits(got)
      /\ Crew!Here \in DOMAIN approvals /\ approvals[Crew!Here].status = "completed" => Crew!Here \in got.known \cup got.denied
  OBVIOUS
<1>4. Good(stack') /\ Knows(approvals, stack') /\ \A key \in Keys : Past(stack, key) => Past(stack', key)
  <2>1. Tells(approvals, approvals, stack, got, stack') BY <1>1, <1>2, <1>3, <1>6 DEF Tells
  <2> QED BY <2>1, ToldKeeps
<1>5. output'.cut = output'.short /\ UNCHANGED <<gated, approvals, results, markers, frames, stage, sent>> /\ job' # "success"
  BY <1>1 DEF CrewInv
<1> QED BY <1>1, <1>4, <1>5, QuietKeeps

LEMMA NotSentOrReplay == CrewInv /\ (Crew!NotSent \/ Crew!Replay) => CrewInv'
<1>1. ASSUME CrewInv, Crew!NotSent PROVE CrewInv'
  <2> DEFINE got == [Crew!Nothing EXCEPT !.denied = {Crew!Here} \cap Crew!Completed]
  <2>1. /\ Crew!Writing /\ Crew!Continue(got) /\ UNCHANGED <<gated, approvals, results, markers, frames, stage, sent, job, output>>
    BY <1>1 DEF Crew!NotSent, Crew!store, Crew!config
  <2>2. Crew!Here \in Keys BY <1>1, <2>1, HereIs
  <2>3. /\ got.known = {} /\ got.denied = {Crew!Here} \cap Crew!Completed
        /\ got.cut = FALSE /\ got.short = FALSE /\ got.evidence = FALSE
    BY DEF Crew!Nothing
  <2> HIDE DEF got
  <2>4. Fits(got) BY <2>2, <2>3 DEF Fits
  <2>5. Crew!Here \in DOMAIN approvals /\ approvals[Crew!Here].status = "completed" => Crew!Here \in got.known \cup got.denied
    BY <2>3 DEF Crew!Completed
  <2> QED BY <1>1, <2>1, <2>4, <2>5, WritingContinue
<1>2. ASSUME CrewInv, Crew!Replay PROVE CrewInv'
  <2> DEFINE got == Crew!Known(Crew!Here)
  <2>1. /\ Crew!Writing /\ Crew!Continue(got) /\ UNCHANGED <<gated, approvals, results, markers, frames, stage, sent, job, output>>
    BY <1>2 DEF Crew!Replay, Crew!store, Crew!config
  <2>2. Crew!Here \in Keys BY <1>2, <2>1, HereIs
  <2>3. got.known = {Crew!Here} /\ got.denied = {} /\ got.cut = FALSE /\ got.short = FALSE /\ got.evidence = FALSE
    BY DEF Crew!Known, Crew!Nothing
  <2> HIDE DEF got
  <2>4. Fits(got) /\ Crew!Here \in got.known \cup got.denied BY <2>2, <2>3 DEF Fits
  <2> QED BY <1>2, <2>1, <2>4, WritingContinue
<1> QED BY <1>1, <1>2

LEMMA PauseKeeps == CrewInv /\ Crew!Pause => CrewInv'
<1> SUFFICES ASSUME CrewInv, Crew!Pause PROVE CrewInv' OBVIOUS
<1> DEFINE here == Crew!Here
           row == [status |-> "pending", input |-> Crew!Top.call.input]
<1>1. /\ Crew!Writing /\ gated /\ here \notin DOMAIN approvals /\ approvals' = Crew!Put(approvals, here, row)
      /\ frames' = stack /\ job' = "awaiting" /\ stage' = stage /\ gated' = gated /\ sent' = sent /\ output' = output
      /\ results' = results /\ markers' = markers
  BY DEF Crew!Pause, Crew!Frames, Crew!config
<1>2. /\ job = "running" /\ stage = "" /\ Good(stack) /\ AtCall(stack) /\ here = Crew!Invocation(Crew!Last(stack)) /\ here \in Keys
      /\ Crew!Top = Crew!Last(stack)
  BY <1>1, HereIs
<1>3. Knows(approvals, stack) /\ DOMAIN approvals \subseteq Keys /\ \A key \in DOMAIN approvals : approvals[key] \in ApprovalSet
  BY <1>2 DEF CrewInv, StackInv, ApprovalsInv
<1>4. row.status = "pending" /\ row.input = Crew!Last(stack).call.input /\ row \in ApprovalSet
  <2>1. Crew!Last(stack) \in AgentSet BY <1>2, TopFits
  <2>2. Crew!Top.call.input \in Inputs \cup {0} BY <1>2, <2>1 DEF AgentSet
  <2> QED BY <1>2, <2>2 DEF ApprovalSet, Statuses
<1> HIDE DEF here, row
<1>5. /\ DOMAIN approvals' = DOMAIN approvals \cup {here} /\ approvals'[here] = row
      /\ \A y \in DOMAIN approvals : y # here => approvals'[y] = approvals[y]
  <2>1. approvals' = Crew!Put(approvals, here, row) BY <1>1
  <2> QED BY ONLY <2>1 DEF Crew!Put
<1>6. Knows(approvals', frames')
  <2>1. ASSUME NEW key \in DOMAIN approvals'
        PROVE  \/ Past(stack, key) /\ (approvals'[key].status = "completed" => key \in Told(stack))
               \/ AtCall(stack) /\ key = Crew!Invocation(Crew!Last(stack)) /\ approvals'[key].input = Crew!Last(stack).call.input
    <3>1. CASE key = here BY <1>2, <1>4, <1>5, <3>1
    <3>2. CASE key # here
      <4>1. key \in DOMAIN approvals /\ approvals'[key] = approvals[key] BY <1>5, <3>2
      <4> QED BY <1>3, <4>1 DEF Knows
    <3> QED BY <3>1, <3>2
  <2> QED BY <1>1, <2>1 DEF Knows
<1>7. DOMAIN approvals' \subseteq Keys /\ \A key \in DOMAIN approvals' : approvals'[key] \in ApprovalSet
  BY <1>2, <1>3, <1>4, <1>5
<1>8. frames' # <<>> /\ Good(frames') BY <1>1, <1>2, TopFits
<1>9. gated' BY <1>1
<1>10. ApprovalsInv' BY <1>6, <1>7, <1>8, <1>9 DEF ApprovalsInv
<1>11. StackInv' BY <1>1 DEF StackInv
<1>12. \A place \in DOMAIN sent : sent[place] = 1 /\ place \in DOMAIN approvals /\ approvals[place].status \in {"executing", "completed"}
  BY <1>1 DEF CrewInv, WriteInv
<1>13. WriteInv'
  <2>1. stage' = "" /\ job' # "running" BY <1>1, <1>2
  <2>2. \A place \in DOMAIN sent' : sent'[place] = 1 /\ place \in DOMAIN approvals' /\ approvals'[place].status \in {"executing", "completed"}
    BY <1>1, <1>5, <1>12
  <2> QED BY <1>9, <2>1, <2>2 DEF WriteInv
<1>14. gated' \in BOOLEAN /\ output'.cut = output'.short BY <1>1 DEF CrewInv
<1> QED BY <1>10, <1>11, <1>13, <1>14 DEF CrewInv

LEMMA DecideKeeps == CrewInv /\ Crew!Decide => CrewInv'
<1> SUFFICES ASSUME CrewInv, Crew!Decide PROVE CrewInv' OBVIOUS
<1>1. /\ job = "awaiting" /\ stage' = stage /\ gated' = gated /\ sent' = sent /\ output' = output
      /\ results' = results /\ markers' = markers /\ frames' = frames
  BY DEF Crew!Decide, Crew!config
<1> PICK key \in DOMAIN approvals :
       /\ approvals[key].status = "pending"
       /\ \/ approvals' = [approvals EXCEPT ![key].status = "approved"] /\ job' = "queued"
          \/ approvals' = [approvals EXCEPT ![key].status = "rejected"] /\ job' = "terminal"
  BY DEF Crew!Decide
<1>2. PICK word \in {"approved", "rejected"} : approvals' = [approvals EXCEPT ![key].status = word]
  OBVIOUS
<1>3. \A y \in DOMAIN approvals : approvals[y] \in ApprovalSet BY DEF CrewInv, ApprovalsInv
<1>4. /\ DOMAIN approvals' = DOMAIN approvals
      /\ \A y \in DOMAIN approvals' : approvals'[y] \in ApprovalSet /\ approvals'[y].input = approvals[y].input
      /\ approvals'[key].status = word /\ \A y \in DOMAIN approvals : y # key => approvals'[y] = approvals[y]
  BY <1>2, <1>3, StatusIs DEF Statuses
<1>5. \A y \in DOMAIN approvals' : approvals'[y].status = "completed" => approvals[y].status = "completed" BY <1>4
<1>6. gated /\ frames # <<>> /\ Good(frames) /\ Knows(approvals, frames) /\ DOMAIN approvals \subseteq Keys
  BY <1>1 DEF CrewInv, ApprovalsInv
<1>7. Knows(approvals', frames') BY <1>1, <1>4, <1>5, <1>6, StatusKnown
<1>8. gated' BY <1>1, <1>6
<1>9. ApprovalsInv' BY <1>1, <1>4, <1>6, <1>7, <1>8 DEF ApprovalsInv
<1>10. job' # "running" OBVIOUS
<1>11. StackInv' BY <1>10 DEF StackInv
<1>12. WriteInv'
  <2>1. \A place \in DOMAIN sent : sent[place] = 1 /\ place \in DOMAIN approvals /\ approvals[place].status \in {"executing", "completed"}
    BY <1>6 DEF CrewInv, WriteInv
  <2>2. \A place \in DOMAIN sent' : sent'[place] = 1 /\ place \in DOMAIN approvals' /\ approvals'[place].status \in {"executing", "completed"}
    BY <1>1, <1>4, <2>1
  <2>3. stage' \in {"", "marked", "sent"} BY <1>1 DEF CrewInv, WriteInv
  <2> QED BY <1>8, <1>10, <2>2, <2>3 DEF WriteInv
<1>13. gated' \in BOOLEAN /\ output'.cut = output'.short BY <1>1 DEF CrewInv
<1> QED BY <1>9, <1>11, <1>12, <1>13 DEF CrewInv

LEMMA MarkKeeps == CrewInv /\ Crew!Mark => CrewInv'
<1> SUFFICES ASSUME CrewInv, Crew!Mark PROVE CrewInv' OBVIOUS
<1> DEFINE here == Crew!Here
<1>1. /\ Crew!Writing /\ stage' = "marked" /\ job' = job /\ gated' = gated /\ sent' = sent /\ output' = output
      /\ results' = results /\ frames' = frames /\ stack' = stack
  BY DEF Crew!Mark, Crew!config
<1>2. /\ job = "running" /\ stage = "" /\ Good(stack) /\ AtCall(stack) /\ markers = {} /\ here = Crew!Invocation(Crew!Last(stack))
      /\ here \in Keys
  BY <1>1, HereIs
<1>3. /\ \A key \in DOMAIN approvals : approvals[key] \in ApprovalSet
      /\ Knows(approvals, stack) /\ DOMAIN approvals \subseteq Keys /\ (frames # <<>> => Good(frames) /\ Knows(approvals, frames))
      /\ (frames = <<>> => DOMAIN approvals = {}) /\ (~gated => DOMAIN approvals = {})
      /\ (frames # <<>> => \A key \in Keys : Past(frames, key) => Past(stack, key))
  BY <1>2 DEF CrewInv, StackInv, ApprovalsInv
<1>4. Crew!Here' = here BY <1>1 DEF Crew!Here, Crew!Top
<1>5. \A place \in DOMAIN sent :
        /\ sent[place] = 1
        /\ gated => place \in DOMAIN approvals /\ approvals[place].status \in {"executing", "completed"}
        /\ ~gated => place \in DOMAIN results
  BY <1>2 DEF CrewInv, WriteInv
<1>6. gated \in BOOLEAN /\ output.cut = output.short BY DEF CrewInv
<1>7. CASE gated
  <2>1. /\ here \in DOMAIN approvals /\ approvals[here].status = "approved"
        /\ approvals' = [approvals EXCEPT ![here].status = "executing"] /\ markers' = markers \cup {Crew!Owner}
    BY <1>7 DEF Crew!Mark
  <2> HIDE DEF here
  <2>2. /\ DOMAIN approvals' = DOMAIN approvals
        /\ \A y \in DOMAIN approvals' : approvals'[y] \in ApprovalSet /\ approvals'[y].input = approvals[y].input
        /\ approvals'[here].status = "executing" /\ \A y \in DOMAIN approvals : y # here => approvals'[y] = approvals[y]
    BY <1>3, <2>1, StatusIs DEF Statuses
  <2>3. \A y \in DOMAIN approvals' : approvals'[y].status = "completed" => approvals[y].status = "completed" BY <2>2
  <2>4. Knows(approvals', stack) BY <1>3, <2>2, <2>3, StatusKnown
  <2>5. frames # <<>> => Knows(approvals', frames) BY <1>3, <2>2, <2>3, StatusKnown
  <2>6. gated' BY <1>1, <1>7
  <2>7. ApprovalsInv' BY <1>1, <1>3, <2>2, <2>5, <2>6 DEF ApprovalsInv
  <2>8. StackInv' BY <1>1, <1>2, <1>3, <2>4 DEF StackInv
  <2>9. here \notin DOMAIN sent BY <1>5, <1>7, <2>1
  <2>10. \A place \in DOMAIN sent' : sent'[place] = 1 /\ place \in DOMAIN approvals' /\ approvals'[place].status \in {"executing", "completed"}
    BY <1>1, <1>5, <1>7, <2>2
  <2>11. markers' = {Crew!Owner} BY <1>2, <2>1
  <2>12. AtCall(stack') /\ Crew!Here' \in DOMAIN approvals' /\ approvals'[Crew!Here'].status = "executing" /\ Crew!Here' \notin DOMAIN sent'
    BY <1>1, <1>2, <1>4, <2>1, <2>2, <2>9
  <2>13. WriteInv' BY <1>1, <2>6, <2>10, <2>11, <2>12 DEF WriteInv
  <2> QED BY <1>1, <1>6, <2>7, <2>8, <2>13 DEF CrewInv
<1>8. CASE ~gated
  <2>1. here \notin DOMAIN results /\ markers' = markers \cup {here} /\ approvals' = approvals BY <1>8 DEF Crew!Mark
  <2> HIDE DEF here
  <2>2. ~gated' BY <1>1, <1>8
  <2>3. ApprovalsInv' BY <1>1, <1>3, <1>8, <2>1 DEF ApprovalsInv
  <2>4. StackInv' BY <1>1, <1>2, <1>3, <2>1 DEF StackInv
  <2>5. here \notin DOMAIN sent BY <1>5, <1>8, <2>1
  <2>6. \A place \in DOMAIN sent' : sent'[place] = 1 /\ place \in DOMAIN results' \cup markers' BY <1>1, <1>5, <1>8
  <2>7. AtCall(stack') /\ markers' = {Crew!Here'} /\ Crew!Here' \notin DOMAIN sent' BY <1>1, <1>2, <1>4, <2>1, <2>5
  <2>8. WriteInv' BY <1>1, <2>2, <2>6, <2>7 DEF WriteInv
  <2> QED BY <1>1, <1>6, <2>3, <2>4, <2>8 DEF CrewInv
<1> QED BY <1>7, <1>8

LEMMA SendKeeps == CrewInv /\ Crew!Send => CrewInv'
<1> SUFFICES ASSUME CrewInv, Crew!Send PROVE CrewInv' OBVIOUS
<1> DEFINE here == Crew!Here
           before == IF Crew!Place(Crew!Top) \in DOMAIN sent THEN sent[Crew!Place(Crew!Top)] ELSE 0
<1>1. /\ job = "running" /\ stage = "marked" /\ stage' = "sent" /\ job' = job /\ gated' = gated /\ output' = output
      /\ results' = results /\ markers' = markers /\ approvals' = approvals /\ frames' = frames /\ stack' = stack
      /\ sent' = Crew!Put(sent, Crew!Place(Crew!Top), before + 1)
  BY DEF Crew!Send, Crew!config, Crew!store
<1>2. /\ Good(stack) /\ AtCall(stack) /\ here \notin DOMAIN sent
      /\ (gated => here \in DOMAIN approvals /\ approvals[here].status = "executing" /\ markers = {Crew!Owner})
      /\ (~gated => markers = {here})
  BY <1>1 DEF CrewInv, StackInv, WriteInv
<1>3. Crew!Place(Crew!Top) = here BY <1>2, HereNotPast DEF Crew!Here, Crew!Top
<1>4. before + 1 = 1 BY <1>2, <1>3
<1>5. Crew!Here' = here BY <1>1 DEF Crew!Here, Crew!Top
<1> HIDE DEF here, before
<1>6. DOMAIN sent' = DOMAIN sent \cup {here} /\ sent'[here] = 1 /\ \A y \in DOMAIN sent : y # here => sent'[y] = sent[y]
  <2>1. sent' = Crew!Put(sent, here, 1) BY <1>1, <1>3, <1>4
  <2> QED BY ONLY <2>1 DEF Crew!Put
<1>7. \A place \in DOMAIN sent :
        /\ sent[place] = 1
        /\ gated => place \in DOMAIN approvals /\ approvals[place].status \in {"executing", "completed"}
        /\ ~gated => place \in DOMAIN results \cup markers
  BY DEF CrewInv, WriteInv
<1>8. gated \in BOOLEAN /\ output.cut = output.short /\ ApprovalsInv /\ StackInv BY DEF CrewInv
<1>9. ApprovalsInv'
  <2>1. DOMAIN approvals' \subseteq Keys /\ (\A key \in DOMAIN approvals' : approvals'[key] \in ApprovalSet)
        /\ (job' # "success" /\ frames' = <<>> => DOMAIN approvals' = {})
        /\ (frames' # <<>> => Good(frames') /\ Knows(approvals', frames'))
    BY <1>1, <1>8 DEF ApprovalsInv
  <2>2. ~gated => DOMAIN approvals = {} BY <1>8 DEF ApprovalsInv
  <2>3. CASE gated
    <3>1. gated' BY <1>1, <2>3
    <3> QED BY <2>1, <3>1 DEF ApprovalsInv
  <2>4. CASE ~gated
    <3>1. DOMAIN approvals' = {} BY <1>1, <2>2, <2>4
    <3> QED BY <2>1, <3>1 DEF ApprovalsInv
  <2> QED BY <2>3, <2>4
<1>10. StackInv' BY <1>1, <1>8 DEF StackInv
<1>11. WriteInv'
  <2>1. CASE gated
    <3>1. gated' BY <1>1, <2>1
    <3>2. \A place \in DOMAIN sent' : sent'[place] = 1 /\ place \in DOMAIN approvals' /\ approvals'[place].status \in {"executing", "completed"}
      BY <1>1, <1>2, <1>6, <1>7, <2>1
    <3>3. AtCall(stack') /\ Crew!Here' \in DOMAIN approvals' /\ approvals'[Crew!Here'].status = "executing" /\ markers' = {Crew!Owner}
      BY <1>1, <1>2, <1>5, <2>1
    <3> QED BY <1>1, <3>1, <3>2, <3>3 DEF WriteInv
  <2>2. CASE ~gated
    <3>1. ~gated' BY <1>1, <2>2
    <3>2. \A place \in DOMAIN sent' : sent'[place] = 1 /\ place \in DOMAIN results' \cup markers'
      BY <1>1, <1>2, <1>6, <1>7, <2>2
    <3>3. AtCall(stack') /\ markers' = {Crew!Here'} BY <1>1, <1>2, <1>5, <2>2
    <3> QED BY <1>1, <3>1, <3>2, <3>3 DEF WriteInv
  <2> QED BY <2>1, <2>2
<1> QED BY <1>1, <1>8, <1>9, <1>10, <1>11 DEF CrewInv

LEMMA SettleKeeps == CrewInv /\ Crew!Settle => CrewInv'
<1> SUFFICES ASSUME CrewInv, Crew!Settle PROVE CrewInv' OBVIOUS
<1> DEFINE here == Crew!Here
           got == Crew!Known(here)
<1>1. /\ job = "running" /\ stage = "sent" /\ stage' = "" /\ job' = job /\ gated' = gated /\ sent' = sent /\ output' = output
      /\ frames' = frames /\ stack' = Append(Crew!Front(stack), Crew!Observed(Crew!Last(stack), got))
  BY DEF Crew!Settle, Crew!config, Crew!Continue, Crew!Top
<1>2. /\ Good(stack) /\ AtCall(stack) /\ Knows(approvals, stack)
      /\ (frames # <<>> => \A key \in Keys : Past(frames, key) => Past(stack, key))
      /\ (gated => here \in DOMAIN approvals /\ approvals[here].status = "executing" /\ markers = {Crew!Owner})
      /\ (~gated => markers = {here})
  BY <1>1 DEF CrewInv, StackInv, WriteInv
<1>3. /\ DOMAIN approvals \subseteq Keys /\ (\A key \in DOMAIN approvals : approvals[key] \in ApprovalSet)
      /\ (~gated => DOMAIN approvals = {}) /\ (frames = <<>> => DOMAIN approvals = {})
      /\ (frames # <<>> => Good(frames) /\ Knows(approvals, frames))
  BY <1>1 DEF CrewInv, ApprovalsInv
<1>4. here = Crew!Invocation(Crew!Last(stack)) BY DEF Crew!Here, Crew!Top
<1>5. here \in Keys /\ ~Past(stack, here) BY <1>2, <1>4, HereNotPast
<1>6. got.known = {here} /\ got.denied = {} /\ got.cut = FALSE /\ got.short = FALSE /\ got.evidence = FALSE
  BY DEF Crew!Known, Crew!Nothing
<1> HIDE DEF here, got
<1>7. Fits(got) /\ here \in got.known \cup got.denied BY <1>5, <1>6 DEF Fits
<1>8. \A place \in DOMAIN sent :
        /\ sent[place] = 1
        /\ gated => place \in DOMAIN approvals /\ approvals[place].status \in {"executing", "completed"}
        /\ ~gated => place \in DOMAIN results \cup markers
  BY DEF CrewInv, WriteInv
<1>9. gated \in BOOLEAN /\ output.cut = output.short BY DEF CrewInv
<1>10. CASE gated
  <2>1. approvals' = [approvals EXCEPT ![here].status = "completed"] /\ markers' = markers \ {Crew!Owner}
    BY <1>10 DEF Crew!Settle, here
  <2>2. here \in DOMAIN approvals /\ markers' = {} /\ gated' BY <1>1, <1>2, <1>10, <2>1
  <2>3. /\ DOMAIN approvals' = DOMAIN approvals
        /\ \A y \in DOMAIN approvals' : approvals'[y] \in ApprovalSet /\ approvals'[y].input = approvals[y].input
        /\ approvals'[here].status = "completed" /\ \A y \in DOMAIN approvals : y # here => approvals'[y] = approvals[y]
    BY <1>3, <2>1, <2>2, StatusIs DEF Statuses
  <2>4. Tells(approvals, approvals', stack, got, stack')
    BY <1>1, <1>2, <1>3, <1>4, <1>7, <2>3 DEF Tells
  <2>5. Good(stack') /\ Knows(approvals', stack') /\ \A key \in Keys : Past(stack, key) => Past(stack', key) BY <2>4, ToldKeeps
  <2>6. Knows(approvals', frames) /\ frames # <<>> /\ Good(frames)
    <3>1. frames # <<>> /\ Good(frames) /\ Knows(approvals, frames) /\ ~Past(frames, here) BY <1>2, <1>3, <1>5, <2>2
    <3>2. ASSUME NEW key \in DOMAIN approvals'
          PROVE  \/ Past(frames, key) /\ (approvals'[key].status = "completed" => key \in Told(frames))
                 \/ AtCall(frames) /\ key = Crew!Invocation(Crew!Last(frames)) /\ approvals'[key].input = Crew!Last(frames).call.input
      <4>1. key \in DOMAIN approvals /\ approvals'[key].input = approvals[key].input /\ (key # here => approvals'[key] = approvals[key])
        BY <2>3
      <4> QED BY <3>1, <4>1 DEF Knows
    <3> QED BY <3>1, <3>2 DEF Knows
  <2>7. ApprovalsInv' BY <1>1, <1>3, <2>2, <2>3, <2>6 DEF ApprovalsInv
  <2>8. StackInv' BY <1>1, <1>2, <2>5 DEF StackInv
  <2>9. \A place \in DOMAIN sent' : sent'[place] = 1 /\ place \in DOMAIN approvals' /\ approvals'[place].status \in {"executing", "completed"}
    <3>1. ASSUME NEW place \in DOMAIN sent
          PROVE  place \in DOMAIN approvals' /\ approvals'[place].status \in {"executing", "completed"}
      <4>1. place \in DOMAIN approvals /\ approvals[place].status \in {"executing", "completed"} BY <1>8, <1>10
      <4> QED BY <2>3, <4>1
    <3> QED BY <1>1, <1>8, <3>1
  <2>10. WriteInv' BY <1>1, <2>2, <2>9 DEF WriteInv
  <2> QED BY <1>1, <1>9, <2>7, <2>8, <2>10 DEF CrewInv
<1>11. CASE ~gated
  <2>1. results' = Crew!Put(results, here, Crew!Top.call.input) /\ markers' = markers \ {here} /\ approvals' = approvals
    BY <1>11 DEF Crew!Settle, here
  <2>2. DOMAIN results' = DOMAIN results \cup {here} BY ONLY <2>1 DEF Crew!Put
  <2>3. markers' = {} /\ DOMAIN approvals = {} BY <1>2, <1>3, <1>11, <2>1
  <2>4. Tells(approvals, approvals, stack, got, stack')
    BY <1>1, <1>2, <1>3, <1>4, <1>7, <2>3 DEF Tells
  <2>5. Good(stack') /\ Knows(approvals, stack') /\ \A key \in Keys : Past(stack, key) => Past(stack', key) BY <2>4, ToldKeeps
  <2>6. ~gated' BY <1>1, <1>11
  <2>7. ApprovalsInv' BY <1>1, <1>3, <2>1, <2>3, <2>6 DEF ApprovalsInv
  <2>8. StackInv' BY <1>1, <1>2, <2>1, <2>5 DEF StackInv
  <2>9. \A place \in DOMAIN sent' : sent'[place] = 1 /\ place \in DOMAIN results' \cup markers'
    BY <1>1, <1>2, <1>8, <1>11, <2>2
  <2>10. WriteInv' BY <1>1, <2>3, <2>6, <2>9 DEF WriteInv
  <2> QED BY <1>1, <1>9, <2>7, <2>8, <2>10 DEF CrewInv
<1> QED BY <1>10, <1>11

\* A step that ends the attempt, and the one that begins another.
LEMMA EndKeeps == CrewInv /\ (Crew!Uncertain \/ Crew!Checkpoint) => CrewInv'
<1> SUFFICES ASSUME CrewInv, Crew!Uncertain \/ Crew!Checkpoint PROVE CrewInv' OBVIOUS
<1>1. /\ job = "running" /\ job' # "running" /\ gated' = gated /\ sent' = sent /\ output' = output
      /\ results' = results /\ markers' = markers /\ approvals' = approvals /\ stage' \in {stage, ""}
      /\ (frames' = frames \/ (job' = "success" /\ frames' = <<>>))
  BY DEF Crew!Uncertain, Crew!Checkpoint, Crew!config, Crew!store
<1>2. gated' <=> gated
  <2>1. gated' = gated BY <1>1
  <2> QED BY ONLY <2>1
<1>3. StackInv' BY <1>1 DEF StackInv
<1>4. \A place \in DOMAIN sent' :
        /\ sent'[place] = 1
        /\ gated' => place \in DOMAIN approvals' /\ approvals'[place].status \in {"executing", "completed"}
        /\ ~gated' => place \in DOMAIN results' \cup markers'
  <2>1. \A place \in DOMAIN sent :
          /\ sent[place] = 1
          /\ gated => place \in DOMAIN approvals /\ approvals[place].status \in {"executing", "completed"}
          /\ ~gated => place \in DOMAIN results \cup markers
    BY DEF CrewInv, WriteInv
  <2> QED BY <1>1, <1>2, <2>1
<1>5. stage' \in {"", "marked", "sent"} BY <1>1 DEF CrewInv, WriteInv
<1>6. WriteInv' BY <1>1, <1>4, <1>5 DEF WriteInv
<1>7. /\ DOMAIN approvals \subseteq Keys /\ (\A key \in DOMAIN approvals : approvals[key] \in ApprovalSet)
      /\ (~gated => DOMAIN approvals = {}) /\ (frames = <<>> => DOMAIN approvals = {})
      /\ (frames # <<>> => Good(frames) /\ Knows(approvals, frames))
  BY <1>1 DEF CrewInv, ApprovalsInv
<1>8. ~gated' => DOMAIN approvals' = {} BY <1>1, <1>2, <1>7
<1>9. ApprovalsInv' BY <1>1, <1>7, <1>8 DEF ApprovalsInv
<1>10. gated' \in BOOLEAN /\ output'.cut = output'.short BY <1>1 DEF CrewInv
<1> QED BY <1>3, <1>6, <1>9, <1>10 DEF CrewInv

LEMMA FreshGood == Good(<<Crew!Agent(<<>>, <<>>)>>)
<1> DEFINE x == Crew!Agent(<<>>, <<>>)
<1>1. x = [inv |-> <<>>, place |-> <<>>, step |-> 0, known |-> {}, denied |-> {}, cut |-> FALSE, short |-> FALSE,
           evidence |-> FALSE, call |-> Crew!NoCall]
  BY DEF Crew!Agent
<1>2. Crew!NoCall \in [target : Targets, input : Inputs \cup {0}] /\ Crew!NoCall.target = "" BY DEF Crew!NoCall, Targets
<1> HIDE DEF x
<1>3. x \in AgentSet BY <1>1, <1>2 DEF AgentSet
<1>4. x.inv = <<>> /\ x.place = <<>> /\ x.cut = FALSE /\ x.short = FALSE /\ x.call = Crew!NoCall BY <1>1
<1>5. Single(x) BY <1>2, <1>3, <1>4 DEF Single, Sound
<1> QED BY <1>3, <1>5 DEF Good, x

LEMMA ClaimKeeps == CrewInv /\ Crew!Claim => CrewInv'
<1> SUFFICES ASSUME CrewInv, Crew!Claim PROVE CrewInv' OBVIOUS
<1>1. /\ job \in {"queued", "running", "failed"} /\ gated' = gated /\ sent' = sent /\ output' = Crew!NoOutput
      /\ results' = results /\ markers' = markers /\ approvals' = approvals /\ stage' = "" /\ frames' = frames
  BY DEF Crew!Claim, Crew!config, Crew!store
<1>2. gated' <=> gated
  <2>1. gated' = gated BY <1>1
  <2> QED BY ONLY <2>1
<1>3. /\ DOMAIN approvals \subseteq Keys /\ (\A key \in DOMAIN approvals : approvals[key] \in ApprovalSet)
      /\ (~gated => DOMAIN approvals = {}) /\ (frames = <<>> => DOMAIN approvals = {})
      /\ (frames # <<>> => Good(frames) /\ Knows(approvals, frames))
  BY <1>1 DEF CrewInv, ApprovalsInv
<1>4. ~gated' => DOMAIN approvals' = {} BY <1>1, <1>2, <1>3
<1>5. ApprovalsInv' BY <1>1, <1>3, <1>4 DEF ApprovalsInv
<1>6. \/ markers = {} /\ job' = "running" /\ stack' = (IF frames # <<>> THEN frames ELSE <<Crew!Agent(<<>>, <<>>)>>)
      \/ job' = "terminal"
  BY DEF Crew!Claim
<1>7. StackInv'
  <2> SUFFICES ASSUME job' = "running"
               PROVE  /\ Good(stack') /\ Knows(approvals', stack')
                      /\ frames' # <<>> => \A key \in Keys : Past(frames', key) => Past(stack', key)
    BY DEF StackInv
  <2>1. CASE frames # <<>> BY <1>1, <1>3, <1>6, <2>1
  <2>2. CASE frames = <<>>
    <3>1. Good(stack') BY <1>6, <2>2, FreshGood
    <3>2. Knows(approvals', stack') BY <1>1, <1>3, <2>2 DEF Knows
    <3> QED BY <1>1, <2>2, <3>1, <3>2
  <2> QED BY <2>1, <2>2
<1>8. WriteInv'
  <2>1. \A place \in DOMAIN sent :
          /\ sent[place] = 1
          /\ gated => place \in DOMAIN approvals /\ approvals[place].status \in {"executing", "completed"}
          /\ ~gated => place \in DOMAIN results \cup markers
    BY DEF CrewInv, WriteInv
  <2>2. \A place \in DOMAIN sent' :
          /\ sent'[place] = 1
          /\ gated' => place \in DOMAIN approvals' /\ approvals'[place].status \in {"executing", "completed"}
          /\ ~gated' => place \in DOMAIN results' \cup markers'
    BY <1>1, <1>2, <2>1
  <2>3. stage' = "" /\ (job' = "running" => markers' = {}) BY <1>1, <1>6
  <2> QED BY <2>2, <2>3 DEF WriteInv
<1>9. gated' \in BOOLEAN /\ output'.cut = output'.short BY <1>1 DEF CrewInv, Crew!NoOutput
<1> QED BY <1>5, <1>7, <1>8, <1>9 DEF CrewInv

-----------------------------------------------------------------------------
LEMMA CrewStart == Crew!Init => CrewInv
<1> SUFFICES ASSUME Crew!Init PROVE CrewInv OBVIOUS
<1>1. /\ gated \in BOOLEAN /\ job = "running" /\ approvals = <<>> /\ results = <<>> /\ markers = {} /\ frames = <<>>
      /\ stack = <<Crew!Agent(<<>>, <<>>)>> /\ stage = "" /\ sent = <<>> /\ output = Crew!NoOutput
  BY DEF Crew!Init
<1>2. DOMAIN approvals = {} /\ DOMAIN sent = {}
  <2>1. DOMAIN <<>> = {} OBVIOUS
  <2>2. DOMAIN approvals = DOMAIN <<>> BY ONLY <1>1
  <2>3. DOMAIN sent = DOMAIN <<>> BY ONLY <1>1
  <2> QED BY ONLY <2>1, <2>2, <2>3
<1>3. output.cut = output.short BY <1>1 DEF Crew!NoOutput
<1>4. ApprovalsInv BY <1>1, <1>2 DEF ApprovalsInv
<1>5. StackInv BY <1>1, <1>2, FreshGood DEF StackInv, Knows
<1>6. WriteInv BY <1>1, <1>2 DEF WriteInv
<1> QED BY <1>1, <1>3, <1>4, <1>5, <1>6 DEF CrewInv

LEMMA CrewStep == CrewInv /\ [Crew!Next]_(Crew!vars) => CrewInv'
<1> SUFFICES ASSUME CrewInv, [Crew!Next]_(Crew!vars) PROVE CrewInv' OBVIOUS
<1>1. CASE UNCHANGED Crew!vars
  <2>1. /\ gated' = gated /\ job' = job /\ approvals' = approvals /\ results' = results /\ markers' = markers
        /\ frames' = frames /\ stack' = stack /\ stage' = stage /\ sent' = sent /\ output' = output
    BY <1>1 DEF Crew!vars
  <2>2. Crew!Here' = Crew!Here BY <2>1 DEF Crew!Here, Crew!Top
  <2>3. gated' <=> gated
    <3>1. gated' = gated BY <2>1
    <3> QED BY ONLY <3>1
  <2>4. ApprovalsInv' BY <2>1, <2>3 DEF CrewInv, ApprovalsInv
  <2>5. StackInv' BY <2>1 DEF CrewInv, StackInv
  <2>6. WriteInv' BY <2>1, <2>2, <2>3 DEF CrewInv, WriteInv
  <2> QED BY <2>1, <2>4, <2>5, <2>6 DEF CrewInv
<1>2. CASE Crew!Next
  BY <1>2, PlanStep, PauseKeeps, DecideKeeps, NotSentOrReplay, MarkKeeps, SendKeeps, SettleKeeps, EndKeeps, ClaimKeeps
  DEF Crew!Next
<1> QED BY <1>1, <1>2

LEMMA CrewHolds == CrewInv => Crew!SentIsKnown /\ Crew!ShortIsFlagged
<1> SUFFICES ASSUME CrewInv PROVE Crew!SentIsKnown /\ Crew!ShortIsFlagged OBVIOUS
<1>1. Crew!ShortIsFlagged BY DEF CrewInv, Crew!ShortIsFlagged
<1>2. \A place \in DOMAIN sent : sent[place] = 1 BY DEF CrewInv, WriteInv
<1>3. ASSUME gated, job = "running"
      PROVE  Crew!Completed \subseteq (UNION {stack[i].known \cup stack[i].denied : i \in DOMAIN stack})
                                       \cup {Crew!Invocation(stack[i]) : i \in DOMAIN stack}
  <2>1. Good(stack) /\ Knows(approvals, stack) BY <1>3 DEF CrewInv, StackInv
  <2>2. \E i \in DOMAIN stack : Crew!Last(stack) = stack[i]
    <3>1. CASE \E x \in AgentSet : stack = <<x>> /\ Single(x)
      <4> PICK x \in AgentSet : stack = <<x>> /\ Single(x) BY <3>1
      <4> QED BY OneAgent
    <3>2. CASE \E x, y \in AgentSet : stack = <<x, y>> /\ Waiting(x, y)
      <4> PICK x \in AgentSet, y \in AgentSet : stack = <<x, y>> /\ Waiting(x, y) BY <3>2
      <4>1. Crew!Last(<<x, y>>) = y /\ <<x, y>>[2] = y /\ DOMAIN <<x, y>> = {1, 2} BY TwoAgents
      <4> QED BY <4>1
    <3> QED BY <2>1, <3>1, <3>2 DEF Good
  <2>3. ASSUME NEW key \in Crew!Completed
        PROVE  key \in Told(stack) \/ key \in {Crew!Invocation(stack[i]) : i \in DOMAIN stack}
    <3>1. key \in DOMAIN approvals /\ approvals[key].status = "completed" BY DEF Crew!Completed
    <3>2. key \in Told(stack) \/ key = Crew!Invocation(Crew!Last(stack)) BY <2>1, <3>1 DEF Knows
    <3> QED BY <2>2, <3>2
  <2> DEFINE told == (UNION {stack[i].known \cup stack[i].denied : i \in DOMAIN stack})
             asked == {Crew!Invocation(stack[i]) : i \in DOMAIN stack}
  <2>4. Told(stack) = told BY DEF Told
  <2>5. \A key \in Crew!Completed : key \in Told(stack) \/ key \in asked BY ONLY <2>3
  <2> HIDE DEF told, asked
  <2>6. Crew!Completed \subseteq told \cup asked BY <2>4, <2>5
  <2> QED BY ONLY <2>6 DEF told, asked
<1>4. ASSUME Crew!Writing, gated, Crew!Here \in DOMAIN approvals PROVE approvals[Crew!Here].input = Crew!Top.call.input
  <2>1. /\ job = "running" /\ Crew!Here = Crew!Invocation(Crew!Last(stack)) /\ ~Past(stack, Crew!Here) /\ Crew!Top = Crew!Last(stack)
    BY <1>4, HereIs
  <2>2. Knows(approvals, stack) BY <2>1 DEF CrewInv, StackInv
  <2> QED BY <1>4, <2>1, <2>2 DEF Knows
<1>5. Crew!SentIsKnown BY <1>2, <1>3, <1>4 DEF Crew!SentIsKnown
<1> QED BY <1>1, <1>5

\* For every number of attempts and steps and all inputs: whatever the model asks for, a request leaves once
\* for its place in the agents' plans, the agent is told of it, and an answer tells
\* whether something it was made from was cut (agent_runtime.py: execute_agent).
THEOREM AgentsAreTold == Crew!Spec => [](Crew!SentIsKnown /\ Crew!ShortIsFlagged)
BY CrewStart, CrewStep, CrewHolds, PTL DEF Crew!Spec
-----------------------------------------------------------------------------
(***************************************************************************)
(* RequestSafety: who may decide and write.  Whether a node may go by its  *)
(* inputs, and whether a person is asked, follow from the drawing and from *)
(* what is saved alone (ProvenIs, UndecidedIs), so every attempt at a run  *)
(* comes to the same: there is a row for a person exactly where one was    *)
(* asked, and a checkpoint that rests on an answer has it still (RowsInv). *)
(***************************************************************************)
CONSTANT MaxClaims
VARIABLES drawing, nulls, cancel, claims, saved, frame, reviews, at, out, bound, path,
          reading, granted, cleared, why
Safety == INSTANCE RequestSafety

\* The nodes this attempt has been through.
Done == {Safety!Flow[place] : place \in (IF drawing.reader THEN 2 ELSE 1) .. at - 1}

\* What a node's inputs are in the end, and whether a node may decide or write.
Worth(r) == IF r = "trigger" THEN [value |-> {"msg"}, label |-> "source"] ELSE saved[r]
Eligible(n) ==
  \/ n = "verify"
  \/ n = "derive" /\ "verify" \in drawing.on["derive"]
  \/ n = "decide" /\ drawing.decide = "check"
       /\ ("verify" \in drawing.on["decide"] \/ ("derive" \in drawing.on["decide"] /\ "verify" \in drawing.on["derive"]))
Checked(n) ==
  \/ n = "verify"
  \/ n = "derive" /\ drawing.on["derive"] = {"verify"}
  \/ n = "decide" /\ drawing.decide = "check"
       /\ (drawing.on["decide"] = {"verify"} \/ (drawing.on["decide"] = {"derive"} /\ drawing.on["derive"] = {"verify"}))

\* Whether a reading is for a person, and a decision.
ForPerson(v) == IF drawing.reader THEN Safety!NeedsPerson(v) ELSE Safety!Verdict(v) = "needs_review"
Weighed == UNION {Worth(r).value : r \in drawing.on["decide"]}
Undecided ==
  /\ drawing.decide \in {"condition", "check"}
  /\ \/ /\ \A r \in drawing.on["decide"] : ~Eligible(r)
        /\ \E r \in drawing.on["decide"] : Worth(r).label \notin Safety!Trusted
     \/ drawing.decide = "check" /\ (Safety!Errs(Weighed) \/ ~Safety!Holds(Weighed))

\* A workflow that validates.
DrawingInv ==
  /\ drawing.reader \in BOOLEAN /\ drawing.derive \in {"prompt", "compute"}
  /\ drawing.decide \in {"condition", "check", "switch"}
  /\ drawing.on["derive"] \subseteq {"trigger", "verify", "fetch", "extract"}
  /\ \E r \in {"trigger", "verify", "fetch", "extract", "derive"} : drawing.on["decide"] = {r}
  /\ drawing.reader => "extract" \notin drawing.on["derive"] \cup drawing.on["decide"]
  /\ \E r \in {"verify", "derive", "decide"} : drawing.on["write"] = {r} /\ Checked(r)
  /\ drawing.decide = "switch" =>
       \A r \in drawing.on["decide"] : Checked(r) \/ r = "trigger" \/ (r = "derive" /\ drawing.on["derive"] = {"trigger"})
  /\ nulls \in BOOLEAN

\* The checkpoints, each made of those before.
SavedInv ==
  /\ DOMAIN saved \subseteq {"extract", "verify", "fetch", "derive", "decide"}
  /\ "derive" \in DOMAIN saved =>
       /\ drawing.on["derive"] = {"verify"} =>
            "verify" \in DOMAIN saved /\ saved["derive"].value =
              (IF drawing.derive = "compute" /\ nulls THEN {"null"} ELSE saved["verify"].value \cup {drawing.derive})
       /\ drawing.on["derive"] = {"trigger"} =>
            saved["derive"].label = "calculated" \/ (drawing.derive = "compute" /\ nulls)
  /\ "decide" \in DOMAIN saved =>
       /\ saved["decide"].value = {IF saved["decide"].choice THEN "true" ELSE "false"}
       /\ drawing.decide = "check" /\ ~saved["decide"].manual => saved["decide"].choice

\* A person was asked exactly of what a person decides; an answer that was used
\* is settled.
RowsInv ==
  /\ DOMAIN reviews \subseteq {"verify", "decide"}
  /\ \A n \in DOMAIN reviews : DOMAIN reviews[n] = {"payload", "status", "choice", "lapsed"}
  /\ "verify" \in DOMAIN saved =>
       /\ saved["verify"].reviewed =>
            /\ "verify" \in DOMAIN reviews /\ reviews["verify"].payload = saved["verify"].value
            /\ reviews["verify"].status = "completed"
       /\ ~saved["verify"].reviewed => "verify" \notin DOMAIN reviews /\ ~ForPerson(saved["verify"].value)
       /\ Safety!Verdict(saved["verify"].value) = "clarify" => status = "success"
  /\ "verify" \notin DOMAIN saved /\ "verify" \in DOMAIN reviews =>
       /\ drawing.reader => frame # << >> /\ ForPerson(frame["now"]) /\ (status = "running" => reading = frame)
       /\ ~drawing.reader => "extract" \in DOMAIN saved /\ ForPerson(saved["extract"].value)
  /\ "decide" \in DOMAIN saved =>
       /\ saved["decide"].manual =>
            /\ "decide" \in DOMAIN reviews /\ reviews["decide"].choice = saved["decide"].choice
            /\ reviews["decide"].status = "completed"
       /\ ~saved["decide"].manual => "decide" \notin DOMAIN reviews
  /\ "decide" \notin DOMAIN saved /\ "decide" \in DOMAIN reviews =>
       drawing.on["decide"] \subseteq DOMAIN saved \cup {"trigger"} /\ Undecided /\ "verify" \in DOMAIN saved

\* An answer of a person that was not yet used in this attempt.
GrantedInv ==
  /\ DOMAIN granted \subseteq {"verify", "decide"}
  /\ "verify" \in DOMAIN granted /\ "verify" \notin DOMAIN saved =>
       /\ "verify" \in DOMAIN reviews /\ reviews["verify"].status = "completed"
       /\ reviews["verify"].payload = (IF drawing.reader THEN reading["now"] ELSE saved["extract"].value)
  /\ "decide" \in DOMAIN granted /\ "decide" \notin DOMAIN saved =>
       /\ "decide" \in DOMAIN reviews /\ reviews["decide"].status = "completed"
       /\ granted["decide"] = reviews["decide"].choice

\* What the worker holds is what is saved of the nodes it has been through.
MemoryInv == status = "running" =>
  /\ at \in (IF drawing.reader THEN 2 ELSE 1) .. 6
  /\ Done \subseteq DOMAIN saved
  /\ DOMAIN out = Done \cup {"trigger"} /\ \A n \in DOMAIN out : out[n] = Worth(n)
  /\ DOMAIN bound = {n \in Done : Eligible(n)}
  /\ \A n \in DOMAIN bound :
       /\ bound[n].value = saved[n].value
       /\ DOMAIN bound[n].choices \subseteq {"decide"} 
       /\ "decide" \in DOMAIN bound[n].choices => 
            n = "decide" /\ saved["decide"].manual /\ bound[n].choices["decide"] = saved["decide"].choice
  /\ path = {n \in Done : (n = "verify" /\ saved["verify"].reviewed) \/ (n = "decide" /\ saved["decide"].manual)}
  /\ GrantedInv
  /\ cleared # << >> => 
       /\ at = 6 /\ cleared["now"].stale = {}
       /\ \A r \in drawing.on["write"] : cleared["now"].value = saved[r].value

SentInv == (sent # {} => status = "success") /\ Safety!SentOnAuthority /\ Safety!SentWhileConfirmed

SafetyInv == DrawingInv /\ SavedInv /\ RowsInv /\ MemoryInv /\ SentInv /\ Safety!RefusedForCause

-----------------------------------------------------------------------------
LEMMA FlowIs ==
  /\ Safety!Flow[1] = "extract" /\ Safety!Flow[2] = "verify" /\ Safety!Flow[3] = "fetch"
  /\ Safety!Flow[4] = "derive" /\ Safety!Flow[5] = "decide" /\ Safety!Flow[6] = "write" /\ Len(Safety!Flow) = 6
  BY DEF Safety!Flow

LEMMA DoneIs ==
  ASSUME at \in (IF drawing.reader THEN 2 ELSE 1) .. 6
  PROVE  /\ Done \subseteq {"extract", "verify", "fetch", "derive", "decide"}
         /\ Safety!Flow[at] \notin Done
         /\ "extract" \in Done <=> ~drawing.reader /\ at > 1
         /\ "verify" \in Done <=> at > 2
         /\ "fetch" \in Done <=> at > 3
         /\ "derive" \in Done <=> at > 4
         /\ "decide" \in Done <=> at > 5
  BY FlowIs DEF Done

LEMMA DoneGrows ==
  ASSUME at \in (IF drawing.reader THEN 2 ELSE 1) .. 5, at' = at + 1, drawing' = drawing
  PROVE  Done' = Done \cup {Safety!Flow[at]}
  BY DEF Done

\* A drawing that validates.
LEMMA CheckedIs ==
  ASSUME NEW w, NEW r \in {"trigger", "extract", "verify", "fetch", "derive", "decide"}, Safety!CheckedDependency(w, r),
         w.on["derive"] # {}, w.on["derive"] \subseteq {"trigger", "verify", "fetch", "extract"},
         \E x \in {"trigger", "verify", "fetch", "extract", "derive"} : w.on["decide"] = {x}
  PROVE  \/ r = "verify"
         \/ r = "derive" /\ w.on["derive"] = {"verify"}
         \/ r = "decide" /\ w.decide = "check"
              /\ (w.on["decide"] = {"verify"} \/ (w.on["decide"] = {"derive"} /\ w.on["derive"] = {"verify"}))
<1> DEFINE S == Safety!Nodes \cup {"trigger"}
           F(g) == [x \in S |->
                      \/ x = "verify"
                      \/ /\ x = "derive" \/ (x = "decide" /\ w.decide = "check")
                         /\ \A i \in Safety!Inputs(w, x) : g[i]]
           D == w.on["derive"] = {"verify"}
           C == w.decide = "check" /\ (w.on["decide"] = {"verify"} \/ (w.on["decide"] = {"derive"} /\ D))
           h == [x \in S |-> x = "verify" \/ (x = "derive" /\ D) \/ (x = "decide" /\ C)]
<1>1. /\ Safety!Inputs(w, "derive") = w.on["derive"] /\ Safety!Inputs(w, "decide") = w.on["decide"]
  BY DEF Safety!Inputs
<1>2. h = F(h)
  <2>1. h["verify"] = TRUE /\ h["trigger"] = FALSE /\ h["fetch"] = FALSE /\ h["extract"] = FALSE /\ h["derive"] = D
    BY DEF Safety!Nodes
  <2>2. (\A i \in w.on["derive"] : h[i]) <=> D BY <2>1
  <2>3. (\A i \in w.on["decide"] : h[i]) <=> (w.on["decide"] = {"verify"} \/ (w.on["decide"] = {"derive"} /\ D)) BY <2>1
  <2>4. ASSUME NEW x \in S PROVE h[x] = F(h)[x] BY <1>1, <2>2, <2>3
  <2> QED BY <2>4
<1>3. \E g : g = F(g) BY <1>2
<1> DEFINE c == CHOOSE g : g = F(g)
<1>4. c = F(c) BY ONLY <1>3
<1>5. c[r] BY DEF Safety!CheckedDependency
<1> HIDE DEF c
<1>6. ~c["trigger"] /\ ~c["fetch"] /\ ~c["extract"] BY <1>4 DEF Safety!Nodes
<1>7. c["derive"] => \A i \in w.on["derive"] : c[i] BY <1>1, <1>4 DEF Safety!Nodes
<1>8. c["decide"] => w.decide = "check" /\ \A i \in w.on["decide"] : c[i] BY <1>1, <1>4 DEF Safety!Nodes
<1>9. c["derive"] => w.on["derive"] = {"verify"} BY <1>6, <1>7
<1>10. c["decide"] => w.decide = "check" /\ (w.on["decide"] = {"verify"} \/ (w.on["decide"] = {"derive"} /\ w.on["derive"] = {"verify"}))
  BY <1>6, <1>8, <1>9
<1> QED BY <1>5, <1>6, <1>9, <1>10

LEMMA SafetyCounts == \A S : Safety!Cardinality(S) = Cardinality(S)
  BY DEF Safety!Cardinality, Cardinality

LEMMA DrawingsValid == drawing \in Safety!Drawings /\ nulls \in BOOLEAN => DrawingInv
<1> SUFFICES ASSUME drawing \in Safety!Drawings, nulls \in BOOLEAN PROVE DrawingInv OBVIOUS
<1>1. Safety!Cardinality({}) = 0 BY SafetyCounts, FS_EmptySet
<1>2. /\ drawing.reader \in BOOLEAN /\ drawing.derive \in {"prompt", "compute"}
      /\ drawing.decide \in {"condition", "check", "switch"}
      /\ drawing.on["derive"] \subseteq {"trigger", "verify", "fetch", "extract"}
      /\ Safety!Cardinality(drawing.on["derive"]) \in {1, 2}
      /\ \E r \in {"trigger", "verify", "fetch", "extract", "derive"} : drawing.on["decide"] = {r}
      /\ \E r \in {"verify", "derive", "decide"} : drawing.on["write"] = {r}
      /\ drawing.reader => "extract" \notin drawing.on["derive"] \cup drawing.on["decide"]
      /\ Safety!Valid(drawing)
  BY DEF Safety!Drawings
<1>3. drawing.on["derive"] # {} BY <1>1, <1>2
<1>4. ASSUME NEW r \in {"trigger", "extract", "verify", "fetch", "derive", "decide"}, Safety!CheckedDependency(drawing, r)
      PROVE  Checked(r)
  BY <1>2, <1>3, <1>4, CheckedIs DEF Checked
<1>5. \E r \in {"verify", "derive", "decide"} : drawing.on["write"] = {r} /\ Checked(r)
  BY <1>2, <1>4 DEF Safety!Valid
<1>6. drawing.decide = "switch" =>
       \A r \in drawing.on["decide"] : Checked(r) \/ r = "trigger" \/ (r = "derive" /\ drawing.on["derive"] = {"trigger"})
  BY <1>2, <1>4 DEF Safety!Valid, Safety!SwitchInputAllowed, Safety!StaticTrusted
<1> QED BY <1>2, <1>5, <1>6 DEF DrawingInv

-----------------------------------------------------------------------------
\* Rows of which only those not yet used change.
Spares ==
  /\ drawing' = drawing /\ nulls' = nulls /\ saved' = saved /\ frame' = frame
  /\ DOMAIN reviews' = DOMAIN reviews
  /\ \A n \in DOMAIN reviews' : DOMAIN reviews'[n] = {"payload", "status", "choice", "lapsed"}
  /\ \A n \in DOMAIN reviews \cap DOMAIN saved : reviews[n].status = "completed" =>
       reviews'[n].status = "completed" /\ reviews'[n].payload = reviews[n].payload /\ reviews'[n].choice = reviews[n].choice

LEMMA RowsSpared ==
  ASSUME DrawingInv, SavedInv, RowsInv, Spares, status # "success",
         status' = "running" => reading' = frame' \/ (status = "running" /\ reading' = reading)
  PROVE  DrawingInv' /\ SavedInv' /\ RowsInv'
<1>0. drawing' = drawing /\ saved' = saved /\ frame' = frame /\ DOMAIN reviews' = DOMAIN reviews BY DEF Spares
<1>1. nulls' <=> nulls
  <2>1. nulls' = nulls BY DEF Spares
  <2> QED BY ONLY <2>1
<1>2. nulls' \in BOOLEAN
  <2>1. nulls' = nulls BY DEF Spares
  <2> QED BY ONLY <2>1, DrawingInv DEF DrawingInv
<1>3. DrawingInv' BY <1>0, <1>2 DEF DrawingInv, Checked
<1>4. SavedInv' BY <1>0, <1>1 DEF SavedInv
<1>5. Undecided' <=> Undecided BY <1>0 DEF Undecided, Weighed, Worth, Eligible
<1>6. \A v : ForPerson(v)' <=> ForPerson(v) BY <1>0 DEF ForPerson
<1>7. ForPerson(frame["now"])' <=> ForPerson(frame["now"]) BY <1>0 DEF ForPerson
<1>8. "verify" \in DOMAIN saved => (ForPerson(saved["verify"].value)' <=> ForPerson(saved["verify"].value)) BY <1>0 DEF ForPerson
<1>9. ForPerson(saved["extract"].value)' <=> ForPerson(saved["extract"].value) BY <1>0 DEF ForPerson
<1> QED BY <1>0, <1>3, <1>4, <1>5, <1>7, <1>8, <1>9 DEF RowsInv, Spares

\* An attempt that goes on as it is.
LEMMA MemorySpared ==
  ASSUME MemoryInv, Spares,
         status' = "running" =>
           /\ status = "running" /\ UNCHANGED <<at, out, bound, path, reading, cleared>>
           /\ GrantedInv'
  PROVE  MemoryInv'
<1> SUFFICES ASSUME status' = "running" PROVE MemoryInv' BY DEF MemoryInv
<1>1. /\ status = "running" /\ at' = at /\ out' = out /\ bound' = bound /\ path' = path /\ cleared' = cleared /\ GrantedInv'
  OBVIOUS
<1>2. drawing' = drawing /\ saved' = saved BY DEF Spares
<1>3. Done' = Done BY <1>1, <1>2 DEF Done
<1>4. \A n : Worth(n)' = Worth(n) BY <1>2 DEF Worth
<1>5. \A n : Eligible(n)' <=> Eligible(n) BY <1>2 DEF Eligible
<1>6. {n \in Done' : Eligible(n)'} = {n \in Done : Eligible(n)} BY <1>3, <1>5
<1> QED BY <1>1, <1>2, <1>3, <1>4, <1>6 DEF MemoryInv

LEMMA GrantedSpared ==
  ASSUME GrantedInv, Spares, reading' = reading, granted' = granted,
         \A n \in DOMAIN reviews : reviews[n].status = "completed" =>
           reviews'[n].status = "completed" /\ reviews'[n].payload = reviews[n].payload /\ reviews'[n].choice = reviews[n].choice
  PROVE  GrantedInv'
BY DEF GrantedInv, Spares

\* A function gets a value.
LEMMA PutGives ==
  ASSUME NEW f, NEW n, NEW x, NEW g, g = Safety!Put(f, n, x)
  PROVE  DOMAIN g = DOMAIN f \cup {n} /\ g[n] = x /\ \A m \in DOMAIN f : m # n => g[m] = f[m]
  BY DEF Safety!Put

\* Nothing is sent but by Send.
LEMMA SentStays ==
  ASSUME SentInv, status # "success", sent' = sent
  PROVE  SentInv'
<1>1. sent' = {} BY DEF SentInv
<1> QED BY <1>1 DEF SentInv, Safety!SentOnAuthority, Safety!SentWhileConfirmed

LEMMA CauseStays ==
  ASSUME Safety!RefusedForCause, drawing' = drawing, nulls' = nulls, why' = why
  PROVE  Safety!RefusedForCause'
<1>1. nulls' <=> nulls
  <2>1. nulls' = nulls OBVIOUS
  <2> QED BY ONLY <2>1
<1> QED BY <1>1 DEF Safety!RefusedForCause

LEMMA FailKeeps ==
  ASSUME SafetyInv, status = "running", NEW reason, Safety!Fail(reason), reason # "unbound",
         reason = "switch" => nulls /\ drawing.derive = "compute"
  PROVE  SafetyInv'
<1>1. /\ status' = "failed" /\ why' = reason
      /\ UNCHANGED <<drawing, nulls, saved, frame, reviews, sent>>
  BY DEF Safety!Fail
<1>2. Spares BY <1>1 DEF Spares, SafetyInv, RowsInv
<1>3. DrawingInv' /\ SavedInv' /\ RowsInv' BY <1>1, <1>2, RowsSpared DEF SafetyInv
<1>4. MemoryInv' BY <1>1 DEF MemoryInv
<1>5. SentInv' BY <1>1, SentStays DEF SafetyInv
<1>6. nulls' <=> nulls
  <2>1. nulls' = nulls BY <1>1
  <2> QED BY ONLY <2>1
<1>7. Safety!RefusedForCause' BY <1>1, <1>6 DEF Safety!RefusedForCause
<1> QED BY <1>3, <1>4, <1>5, <1>7 DEF SafetyInv

\* Crash, Stop and Resume; the rows stay as they are.
LEMMA RunStops ==
  ASSUME SafetyInv, status \notin {"success"}, status' # "running", UNCHANGED <<drawing, nulls, saved, frame, reviews, sent, why>>
  PROVE  SafetyInv'
<1>2. Spares BY DEF Spares, SafetyInv, RowsInv
<1>3. DrawingInv' /\ SavedInv' /\ RowsInv' BY <1>2, RowsSpared DEF SafetyInv
<1>4. MemoryInv' BY DEF MemoryInv
<1>5. SentInv' BY SentStays DEF SafetyInv
<1>6. Safety!RefusedForCause' BY CauseStays DEF SafetyInv
<1> QED BY <1>3, <1>4, <1>5, <1>6 DEF SafetyInv

LEMMA ClaimsKeep == ASSUME SafetyInv, Safety!Claim PROVE SafetyInv'
<1>1. /\ status = "queued" /\ status' = "running" /\ reading' = frame /\ frame' = frame
      /\ UNCHANGED <<drawing, nulls, saved, reviews, sent, why>>
      /\ at' = (IF drawing.reader THEN 2 ELSE 1) /\ bound' = << >> /\ path' = {} /\ granted' = << >> /\ cleared' = << >>
  BY DEF Safety!Claim, Safety!Forget
<1>2. DOMAIN out' = {"trigger"} /\ out'["trigger"] = [value |-> {"msg"}, label |-> "source"]
  <2> DEFINE first == [value |-> {"msg"}, label |-> "source"]
  <2>1. out' = Safety!Put(<< >>, "trigger", first) BY DEF Safety!Claim, Safety!Forget
  <2>2. DOMAIN << >> = {} OBVIOUS
  <2> HIDE DEF first
  <2>3. DOMAIN out' = DOMAIN << >> \cup {"trigger"} /\ out'["trigger"] = first BY ONLY <2>1 DEF Safety!Put
  <2> QED BY ONLY <2>2, <2>3 DEF first
<1>3. Spares BY <1>1 DEF Spares, SafetyInv, RowsInv
<1>4. DrawingInv' /\ SavedInv' /\ RowsInv' BY <1>1, <1>3, RowsSpared DEF SafetyInv
<1>5. Done' = {} BY <1>1 DEF Done, SafetyInv, DrawingInv
<1>6. DOMAIN << >> = {} OBVIOUS
<1>7. DOMAIN bound' = {} /\ DOMAIN granted' = {} BY ONLY <1>1, <1>6
<1>8. out'["trigger"] = Worth("trigger")' BY <1>2 DEF Worth
<1>9. at' \in (IF drawing'.reader THEN 2 ELSE 1) .. 6 BY <1>1
<1>10. MemoryInv' BY <1>1, <1>2, <1>5, <1>7, <1>8, <1>9 DEF MemoryInv, GrantedInv
<1>11. SentInv' BY <1>1, SentStays DEF SafetyInv
<1>12. Safety!RefusedForCause' BY <1>1, CauseStays DEF SafetyInv
<1> QED BY <1>4, <1>10, <1>11, <1>12 DEF SafetyInv

-----------------------------------------------------------------------------
\* Rows get a status, or a choice.
LEMMA RowMoves ==
  ASSUME NEW table, NEW n \in DOMAIN table, NEW state, NEW new, new = [table EXCEPT ![n].status = state],
         \A m \in DOMAIN table : DOMAIN table[m] = {"payload", "status", "choice", "lapsed"}
  PROVE  /\ DOMAIN new = DOMAIN table
         /\ \A m \in DOMAIN new : DOMAIN new[m] = {"payload", "status", "choice", "lapsed"}
         /\ new[n].status = state /\ new[n].payload = table[n].payload /\ new[n].choice = table[n].choice
         /\ new[n].lapsed = table[n].lapsed
         /\ \A m \in DOMAIN table : m # n => new[m] = table[m]
<1>1. DOMAIN new = DOMAIN table /\ new[n] = [table[n] EXCEPT !.status = state] /\ \A m \in DOMAIN table : m # n => new[m] = table[m]
  OBVIOUS
<1> QED BY <1>1

LEMMA ApprovesKeep ==
  ASSUME SafetyInv, NEW n \in {"verify", "decide"}, NEW choice \in BOOLEAN, Safety!Approve(n, choice)
  PROVE  SafetyInv'
<1>1. /\ status = "awaiting" /\ status' = "queued" /\ n \in DOMAIN reviews /\ reviews[n].status = "pending"
      /\ reviews' = [reviews EXCEPT ![n].status = "approved", ![n].choice = choice]
      /\ UNCHANGED <<drawing, nulls, saved, frame, sent, why>>
  BY DEF Safety!Approve
<1>2. \A m \in DOMAIN reviews : DOMAIN reviews[m] = {"payload", "status", "choice", "lapsed"} BY DEF SafetyInv, RowsInv
<1>3. DOMAIN reviews' = DOMAIN reviews /\ \A m \in DOMAIN reviews : m # n => reviews'[m] = reviews[m] BY <1>1
<1>4. DOMAIN reviews'[n] = {"payload", "status", "choice", "lapsed"} BY <1>1, <1>2
<1>5. Spares BY <1>1, <1>2, <1>3, <1>4 DEF Spares
<1>6. DrawingInv' /\ SavedInv' /\ RowsInv' BY <1>1, <1>5, RowsSpared DEF SafetyInv
<1>7. MemoryInv' BY <1>1 DEF MemoryInv
<1>8. SentInv' BY <1>1, SentStays DEF SafetyInv
<1>9. Safety!RefusedForCause' BY <1>1, CauseStays DEF SafetyInv
<1> QED BY <1>6, <1>7, <1>8, <1>9 DEF SafetyInv

LEMMA ClosesKeep == ASSUME SafetyInv, NEW n \in {"verify", "decide"}, Safety!Close(n) PROVE SafetyInv'
<1>1. /\ status \in {"awaiting", "queued"} /\ status' = "closed" /\ n \in DOMAIN reviews /\ reviews[n].status \in {"pending", "approved"}
      /\ reviews' = [reviews EXCEPT ![n].status = "closed"]
      /\ UNCHANGED <<drawing, nulls, saved, frame, sent, why>>
  BY DEF Safety!Close
<1>2. \A m \in DOMAIN reviews : DOMAIN reviews[m] = {"payload", "status", "choice", "lapsed"} BY DEF SafetyInv, RowsInv
<1>3. /\ DOMAIN reviews' = DOMAIN reviews
      /\ \A m \in DOMAIN reviews' : DOMAIN reviews'[m] = {"payload", "status", "choice", "lapsed"}
      /\ \A m \in DOMAIN reviews : m # n => reviews'[m] = reviews[m]
  BY <1>1, <1>2, RowMoves
<1>5. Spares BY <1>1, <1>3 DEF Spares
<1>6. DrawingInv' /\ SavedInv' /\ RowsInv' BY <1>1, <1>5, RowsSpared DEF SafetyInv
<1>7. MemoryInv' BY <1>1 DEF MemoryInv
<1>8. SentInv' BY <1>1, SentStays DEF SafetyInv
<1>9. Safety!RefusedForCause' BY <1>1, CauseStays DEF SafetyInv
<1> QED BY <1>6, <1>7, <1>8, <1>9 DEF SafetyInv

LEMMA LapsesKeep == ASSUME SafetyInv, NEW n \in {"verify", "decide"}, Safety!Lapse(n) PROVE SafetyInv'
<1>1. /\ status \in {"queued", "running", "awaiting"} /\ n \in DOMAIN reviews
      /\ reviews' = [reviews EXCEPT ![n].lapsed = TRUE]
      /\ UNCHANGED <<drawing, nulls, status, saved, frame, Safety!memory, sent, why>>
  BY DEF Safety!Lapse
<1>2. \A m \in DOMAIN reviews : DOMAIN reviews[m] = {"payload", "status", "choice", "lapsed"} BY DEF SafetyInv, RowsInv
<1>3. /\ DOMAIN reviews' = DOMAIN reviews /\ \A m \in DOMAIN reviews : m # n => reviews'[m] = reviews[m]
      /\ reviews'[n] = [reviews[n] EXCEPT !.lapsed = TRUE]
  BY <1>1
<1>4. /\ DOMAIN reviews'[n] = {"payload", "status", "choice", "lapsed"}
      /\ reviews'[n].status = reviews[n].status /\ reviews'[n].payload = reviews[n].payload /\ reviews'[n].choice = reviews[n].choice
  BY <1>1, <1>2, <1>3
<1>5. Spares BY <1>1, <1>2, <1>3, <1>4 DEF Spares
<1>6. DrawingInv' /\ SavedInv' /\ RowsInv' BY <1>1, <1>5, RowsSpared DEF SafetyInv, Safety!memory
<1>7. MemoryInv'
  <2>1. status' = "running" => GrantedInv' BY <1>1, <1>3, <1>4, <1>5, GrantedSpared DEF SafetyInv, MemoryInv, Safety!memory
  <2> QED BY <1>1, <1>3, <1>5, <2>1, MemorySpared DEF SafetyInv, Safety!memory
<1>8. SentInv' BY <1>1, SentStays DEF SafetyInv
<1>9. Safety!RefusedForCause' BY <1>1, CauseStays DEF SafetyInv
<1> QED BY <1>6, <1>7, <1>8, <1>9 DEF SafetyInv

LEMMA CancelsKeep == ASSUME SafetyInv, Safety!Cancel PROVE SafetyInv'
<1>1. /\ status \in {"queued", "running", "awaiting"} /\ UNCHANGED <<drawing, nulls, saved, frame, Safety!memory, sent, why>>
  BY DEF Safety!Cancel
<1>2. \A m \in DOMAIN reviews : DOMAIN reviews[m] = {"payload", "status", "choice", "lapsed"} BY DEF SafetyInv, RowsInv
<1> DEFINE waiting == {n \in DOMAIN reviews : reviews[n].status \in {"pending", "approved"}}
           new == [n \in DOMAIN reviews |-> IF n \in waiting THEN [reviews[n] EXCEPT !.status = "closed"] ELSE reviews[n]]
<1>3. \/ status = "running" /\ status' = status /\ reviews' = reviews
      \/ status # "running" /\ status' \in {"cancelled", "closed"} /\ reviews' = new
  BY DEF Safety!Cancel
<1>4. /\ DOMAIN new = DOMAIN reviews /\ \A n \in DOMAIN reviews : reviews[n].status = "completed" => new[n] = reviews[n]
      /\ \A n \in DOMAIN new : DOMAIN new[n] = {"payload", "status", "choice", "lapsed"}
  BY <1>2
<1> HIDE DEF new
<1>5. Spares BY <1>1, <1>2, <1>3, <1>4 DEF Spares
<1>6. DrawingInv' /\ SavedInv' /\ RowsInv' BY <1>1, <1>3, <1>5, RowsSpared DEF SafetyInv, Safety!memory
<1>7. MemoryInv'
  <2>1. status' = "running" => GrantedInv' BY <1>1, <1>3, <1>4, <1>5, GrantedSpared DEF SafetyInv, MemoryInv, Safety!memory
  <2> QED BY <1>1, <1>3, <1>5, <2>1, MemorySpared DEF SafetyInv, Safety!memory
<1>8. SentInv' BY <1>1, SentStays DEF SafetyInv
<1>9. Safety!RefusedForCause' BY <1>1, CauseStays DEF SafetyInv
<1> QED BY <1>6, <1>7, <1>8, <1>9 DEF SafetyInv

-----------------------------------------------------------------------------
\* Where a node is in the chain.
LEMMA PlaceIs ==
  ASSUME MemoryInv, NEW n, Safety!Working(n)
  PROVE  /\ status = "running" /\ at \in (IF drawing.reader THEN 2 ELSE 1) .. 6 /\ Safety!Flow[at] = n /\ n \notin Done
         /\ n = "extract" <=> at = 1
         /\ n = "verify" <=> at = 2
         /\ n = "fetch" <=> at = 3
         /\ n = "derive" <=> at = 4
         /\ n = "decide" <=> at = 5
         /\ n = "write" <=> at = 6
<1>1. status = "running" /\ at \in (IF drawing.reader THEN 2 ELSE 1) .. 6 /\ Safety!Flow[at] = n
  BY DEF MemoryInv, Safety!Working, Safety!Node
<1>2. at \in 1 .. 6 BY <1>1
<1>3. n \notin Done BY <1>1, DoneIs
<1> QED BY <1>1, <1>2, <1>3, FlowIs

LEMMA InputsAre ==
  ASSUME DrawingInv, MemoryInv, NEW n \in {"verify", "derive", "decide", "write"}, Safety!Working(n)
  PROVE  /\ n = "verify" => Safety!Inputs(drawing, n) = (IF drawing.reader THEN {"trigger"} ELSE {"extract"})
         /\ n # "verify" => Safety!Inputs(drawing, n) = drawing.on[n]
         /\ Safety!Inputs(drawing, n) \subseteq Done \cup {"trigger"}
         /\ \A r \in Safety!Inputs(drawing, n) : out[r] = Worth(r)
         /\ Safety!Read(n) = UNION {Worth(r).value : r \in Safety!Inputs(drawing, n)}
<1>1. /\ n = "verify" => Safety!Inputs(drawing, n) = (IF drawing.reader THEN {"trigger"} ELSE {"extract"})
      /\ n # "verify" => Safety!Inputs(drawing, n) = drawing.on[n]
  BY DEF Safety!Inputs
<1>2. Safety!Inputs(drawing, n) \subseteq Done \cup {"trigger"}
  <2>1. /\ at \in (IF drawing.reader THEN 2 ELSE 1) .. 6
        /\ n = "verify" <=> at = 2
        /\ n = "derive" <=> at = 4
        /\ n = "decide" <=> at = 5
        /\ n = "write" <=> at = 6
    BY PlaceIs
  <2>2. /\ "extract" \in Done <=> ~drawing.reader /\ at > 1
        /\ "verify" \in Done <=> at > 2
        /\ "fetch" \in Done <=> at > 3
        /\ "derive" \in Done <=> at > 4
        /\ "decide" \in Done <=> at > 5
    BY <2>1, DoneIs
  <2>3. CASE n = "verify" BY <1>1, <2>1, <2>2, <2>3
  <2>4. CASE n = "derive" BY <1>1, <2>1, <2>2, <2>4 DEF DrawingInv
  <2>5. CASE n = "decide" BY <1>1, <2>1, <2>2, <2>5 DEF DrawingInv
  <2>6. CASE n = "write" BY <1>1, <2>1, <2>2, <2>6 DEF DrawingInv
  <2> QED BY <2>3, <2>4, <2>5, <2>6
<1>3. \A r \in Safety!Inputs(drawing, n) : out[r] = Worth(r) BY <1>2, PlaceIs DEF MemoryInv
<1>4. Safety!Read(n) = UNION {Worth(r).value : r \in Safety!Inputs(drawing, n)}
  <2>1. \A r \in Safety!Inputs(drawing, n) : Safety!Value(r) = Worth(r).value BY <1>3 DEF Safety!Value
  <2>2. {Safety!Value(r) : r \in Safety!Inputs(drawing, n)} = {Worth(r).value : r \in Safety!Inputs(drawing, n)} BY <2>1
  <2> QED BY ONLY <2>2 DEF Safety!Read
<1> QED BY <1>1, <1>2, <1>3, <1>4

\* What a node may go by.
LEMMA ProvenIs ==
  ASSUME DrawingInv, RowsInv, MemoryInv, NEW n \in {"derive", "decide", "write"}, Safety!Working(n)
  PROVE  Safety!Proven(n) <=> \E r \in drawing.on[n] : Eligible(r)
<1>1. /\ Safety!Inputs(drawing, n) = drawing.on[n] /\ drawing.on[n] \subseteq Done \cup {"trigger"}
      /\ \A r \in drawing.on[n] : out[r] = Worth(r)
  BY InputsAre
<1>2. DOMAIN bound = {r \in Done : Eligible(r)} /\ Done \subseteq DOMAIN saved BY PlaceIs DEF MemoryInv
<1>3. "trigger" \notin Done /\ ~Eligible("trigger") BY PlaceIs, DoneIs DEF Eligible
<1>4. \A r \in drawing.on[n] : r \in DOMAIN bound <=> Eligible(r) BY <1>1, <1>2, <1>3
<1>5. ASSUME NEW r \in drawing.on[n] \cap DOMAIN bound
      PROVE  /\ bound[r].value = Safety!Value(r)
             /\ \A d \in DOMAIN bound[r].choices : reviews[d].choice = bound[r].choices[d]
  <2>1. r \in Done /\ r # "trigger" /\ out[r] = saved[r] BY <1>1, <1>2, <1>3 DEF Worth
  <2>2. bound[r].value = saved[r].value BY PlaceIs DEF MemoryInv
  <2>3. ASSUME NEW d \in DOMAIN bound[r].choices PROVE reviews[d].choice = bound[r].choices[d]
    <3>1. d = "decide" /\ r = "decide" /\ saved["decide"].manual /\ bound[r].choices[d] = saved["decide"].choice
      BY PlaceIs DEF MemoryInv
    <3>2. "decide" \in DOMAIN saved BY <1>2, <2>1, <3>1
    <3> QED BY <3>1, <3>2 DEF RowsInv
  <2> QED BY <2>1, <2>2, <2>3 DEF Safety!Value
<1> QED BY <1>1, <1>4, <1>5 DEF Safety!Proven

\* A person is asked of a decision exactly when it is on what was not checked, or
\* the check fails.
LEMMA UndecidedIs ==
  ASSUME DrawingInv, RowsInv, MemoryInv, Safety!Working("decide")
  PROVE  Safety!NeedsDecision <=> Undecided
<1>1. Safety!Proven("decide") <=> \E r \in drawing.on["decide"] : Eligible(r) BY ProvenIs
<1>2. /\ Safety!Inputs(drawing, "decide") = drawing.on["decide"]
      /\ \A r \in drawing.on["decide"] : out[r] = Worth(r)
      /\ Safety!Read("decide") = Weighed
  BY InputsAre DEF Weighed
<1>3. Safety!InputTrusted("decide") <=> \A r \in drawing.on["decide"] : Worth(r).label \in Safety!Trusted
  BY <1>2 DEF Safety!InputTrusted
<1> QED BY <1>1, <1>2, <1>3 DEF Safety!NeedsDecision, Safety!Deciding, Undecided

LEMMA ReadingIs ==
  ASSUME DrawingInv, MemoryInv, Safety!Working("verify")
  PROVE  /\ Safety!Payload("verify") = Safety!ToVerify
         /\ Safety!ToVerify = (IF drawing.reader THEN reading["now"] ELSE saved["extract"].value)
         /\ Safety!Asks("verify") <=> Safety!CanVerify /\ ForPerson(Safety!ToVerify)
         /\ ~drawing.reader => "extract" \in DOMAIN saved
<1>1. ~drawing.reader => Safety!Inputs(drawing, "verify") = {"extract"} BY InputsAre
<1>2. ~drawing.reader => Safety!Read("verify") = saved["extract"].value
  <2> SUFFICES ASSUME ~drawing.reader PROVE Safety!Read("verify") = saved["extract"].value OBVIOUS
  <2>1. Safety!Read("verify") = UNION {Worth(r).value : r \in Safety!Inputs(drawing, "verify")} BY InputsAre
  <2>2. {Worth(r).value : r \in Safety!Inputs(drawing, "verify")} = {saved["extract"].value} BY <1>1 DEF Worth
  <2> QED BY ONLY <2>1, <2>2
<1>3. ~drawing.reader => "extract" \in DOMAIN saved
  <2>1. at = 2 BY PlaceIs
  <2>2. ~drawing.reader => "extract" \in Done BY <2>1, PlaceIs, DoneIs
  <2> QED BY <2>2, PlaceIs DEF MemoryInv
<1> QED BY <1>2, <1>3 DEF Safety!Payload, Safety!ToVerify, Safety!Asks, ForPerson

-----------------------------------------------------------------------------
LEMMA ReadsKeep == ASSUME SafetyInv, Safety!ReadRequest PROVE SafetyInv'
<1>1. /\ Safety!Working("verify") /\ "verify" \notin DOMAIN saved /\ drawing.reader /\ reading = << >>
      /\ UNCHANGED <<drawing, nulls, status, saved, frame, reviews, at, out, bound, path, granted, cleared, sent, why>>
  BY DEF Safety!ReadRequest, Safety!Fresh
<1>2. status = "running" BY <1>1, PlaceIs DEF SafetyInv
<1>3. "verify" \notin DOMAIN reviews BY <1>1, <1>2 DEF SafetyInv, RowsInv
<1>4. nulls' <=> nulls
  <2>1. nulls' = nulls BY <1>1
  <2> QED BY ONLY <2>1
<1>5. DrawingInv' /\ SavedInv' BY <1>1, <1>4 DEF SafetyInv, DrawingInv, SavedInv, Checked
<1>6. RowsInv'
  <2>1. Undecided' <=> Undecided BY <1>1 DEF Undecided, Weighed, Worth, Eligible
  <2>2. "verify" \in DOMAIN saved => (ForPerson(saved["verify"].value)' <=> ForPerson(saved["verify"].value)) BY <1>1 DEF ForPerson
  <2> QED BY <1>1, <1>3, <2>1, <2>2 DEF SafetyInv, RowsInv
<1>7. MemoryInv'
  <2>1. Done' = Done BY <1>1 DEF Done
  <2>2. \A n : Worth(n)' = Worth(n) BY <1>1 DEF Worth
  <2>3. \A n : Eligible(n)' <=> Eligible(n) BY <1>1 DEF Eligible
  <2>4. {n \in Done' : Eligible(n)'} = {n \in Done : Eligible(n)} BY <2>1, <2>3
  <2>5. "verify" \notin DOMAIN granted BY <1>1, <1>2, <1>3 DEF SafetyInv, MemoryInv, GrantedInv
  <2> QED BY <1>1, <1>2, <2>1, <2>2, <2>4, <2>5 DEF SafetyInv, MemoryInv, GrantedInv
<1>8. SentInv' BY <1>1, <1>2, SentStays DEF SafetyInv
<1>9. Safety!RefusedForCause' BY <1>1, CauseStays DEF SafetyInv
<1> QED BY <1>5, <1>6, <1>7, <1>8, <1>9 DEF SafetyInv

\* A node that asks has no row yet; what it asks is a person's to decide.
LEMMA PausesKeep == ASSUME SafetyInv, NEW n \in {"verify", "decide"}, Safety!Pause(n) PROVE SafetyInv'
<1> DEFINE row == [payload |-> Safety!Payload(n), status |-> "pending", choice |-> TRUE, lapsed |-> FALSE]
<1>1. /\ Safety!Working(n) /\ n \notin DOMAIN saved /\ Safety!Asks(n) /\ n \notin DOMAIN reviews
      /\ reviews' = Safety!Put(reviews, n, row) /\ status' = "awaiting"
      /\ frame' = (IF n = "verify" THEN reading ELSE << >>)
      /\ UNCHANGED <<drawing, nulls, saved, sent, why>>
  BY DEF Safety!Pause, Safety!Fresh
<1>2. status = "running" BY <1>1, PlaceIs DEF SafetyInv
<1>3. DOMAIN row = {"payload", "status", "choice", "lapsed"} OBVIOUS
<1> HIDE DEF row
<1>4. /\ DOMAIN reviews' = DOMAIN reviews \cup {n} /\ reviews'[n] = row
      /\ \A m \in DOMAIN reviews : reviews'[m] = reviews[m]
  BY <1>1 DEF Safety!Put
<1>5. nulls' <=> nulls
  <2>1. nulls' = nulls BY <1>1
  <2> QED BY ONLY <2>1
<1>6. DrawingInv' /\ SavedInv' BY <1>1, <1>5 DEF SafetyInv, DrawingInv, SavedInv, Checked
<1>7. Undecided' <=> Undecided BY <1>1 DEF Undecided, Weighed, Worth, Eligible
<1>8. \A v : (IF drawing'.reader THEN Safety!NeedsPerson(v) ELSE Safety!Verdict(v) = "needs_review") <=> ForPerson(v)
  BY <1>1 DEF ForPerson
<1>9. CASE n = "verify"
  <2>1. Safety!CanVerify /\ ForPerson(Safety!ToVerify)
        /\ Safety!ToVerify = (IF drawing.reader THEN reading["now"] ELSE saved["extract"].value)
        /\ (~drawing.reader => "extract" \in DOMAIN saved)
    BY <1>1, <1>9, ReadingIs DEF SafetyInv
  <2>2. /\ drawing'.reader => frame' # << >> /\ ForPerson(frame["now"])'
        /\ ~drawing'.reader => "extract" \in DOMAIN saved' /\ ForPerson(saved["extract"].value)'
    BY <1>1, <1>8, <1>9, <2>1 DEF ForPerson, Safety!CanVerify
  <2>3. RowsInv' BY <1>1, <1>3, <1>4, <1>7, <1>9, <2>2 DEF SafetyInv, RowsInv
  <2> QED BY <1>1, <1>2, <1>6, <2>3, SentStays, CauseStays DEF SafetyInv, MemoryInv
<1>10. CASE n = "decide"
  <2>1. Undecided BY <1>1, <1>10, UndecidedIs DEF SafetyInv, Safety!Asks
  <2>2. Done \subseteq DOMAIN saved /\ "verify" \in Done
    <3>1. at = 5 BY <1>1, <1>10, PlaceIs DEF SafetyInv
    <3>2. "verify" \in Done BY <1>1, <3>1, PlaceIs, DoneIs DEF SafetyInv
    <3> QED BY <1>2, <3>2 DEF SafetyInv, MemoryInv
  <2>3. drawing.on["decide"] \subseteq DOMAIN saved \cup {"trigger"} BY <1>1, <1>10, <2>2, InputsAre DEF SafetyInv
  <2>4. "verify" \in DOMAIN saved => (ForPerson(saved["verify"].value)' <=> ForPerson(saved["verify"].value)) BY <1>1 DEF ForPerson
  <2>5. RowsInv' BY <1>1, <1>2, <1>3, <1>4, <1>7, <1>10, <2>1, <2>2, <2>3, <2>4 DEF SafetyInv, RowsInv
  <2> QED BY <1>1, <1>2, <1>6, <2>5, SentStays, CauseStays DEF SafetyInv, MemoryInv
<1> QED BY <1>9, <1>10

-----------------------------------------------------------------------------
LEMMA ConsumesKeep == ASSUME SafetyInv, NEW n \in {"verify", "decide"}, Safety!Consume(n) PROVE SafetyInv'
<1>1. /\ Safety!Working(n) /\ n \notin DOMAIN saved /\ Safety!Asks(n) /\ n \in DOMAIN reviews /\ n \notin DOMAIN granted
  BY DEF Safety!Consume, Safety!Fresh, Safety!Confirmed
<1>2. status = "running" BY <1>1, PlaceIs DEF SafetyInv
<1>3. \/ Safety!Fail("lapsed")
      \/ /\ reviews' = [reviews EXCEPT ![n].status = "expired"] /\ status' = "closed"
         /\ UNCHANGED <<drawing, nulls, saved, frame, Safety!memory, sent, why>>
      \/ /\ reviews[n].payload = Safety!Payload(n) /\ reviews' = [reviews EXCEPT ![n].status = "completed"]
         /\ granted' = Safety!Put(granted, n, reviews[n].choice)
         /\ UNCHANGED <<drawing, nulls, status, saved, frame, at, out, bound, path, reading, cleared, sent, why>>
  BY DEF Safety!Consume
<1>4. \A m \in DOMAIN reviews : DOMAIN reviews[m] = {"payload", "status", "choice", "lapsed"} BY DEF SafetyInv, RowsInv
<1>5. CASE Safety!Fail("lapsed") BY <1>2, <1>5, FailKeeps
<1>6. ASSUME NEW state \in {"expired", "completed"}, reviews' = [reviews EXCEPT ![n].status = state],
             UNCHANGED <<drawing, nulls, saved, frame, reading, sent, why>>, status' \in {status, "closed"}
      PROVE  /\ DrawingInv' /\ SavedInv' /\ RowsInv' /\ SentInv' /\ Safety!RefusedForCause' /\ Spares
             /\ DOMAIN reviews' = DOMAIN reviews
             /\ reviews'[n].status = state /\ reviews'[n].payload = reviews[n].payload /\ reviews'[n].choice = reviews[n].choice
             /\ \A m \in DOMAIN reviews : m # n => reviews'[m] = reviews[m]
  <2>1. /\ DOMAIN reviews' = DOMAIN reviews
        /\ \A m \in DOMAIN reviews' : DOMAIN reviews'[m] = {"payload", "status", "choice", "lapsed"}
        /\ \A m \in DOMAIN reviews : m # n => reviews'[m] = reviews[m]
        /\ reviews'[n].status = state /\ reviews'[n].payload = reviews[n].payload /\ reviews'[n].choice = reviews[n].choice
    BY <1>1, <1>4, <1>6, RowMoves
  <2>2. Spares BY <1>1, <1>6, <2>1 DEF Spares
  <2>3. DrawingInv' /\ SavedInv' /\ RowsInv' BY <1>2, <1>6, <2>2, RowsSpared DEF SafetyInv
  <2> QED BY <1>2, <1>6, <2>1, <2>2, <2>3, SentStays, CauseStays DEF SafetyInv
<1>7. CASE /\ reviews' = [reviews EXCEPT ![n].status = "expired"] /\ status' = "closed"
           /\ UNCHANGED <<drawing, nulls, saved, frame, Safety!memory, sent, why>>
  <2>1. UNCHANGED reading BY <1>7 DEF Safety!memory
  <2>2. MemoryInv' BY <1>7 DEF MemoryInv
  <2> QED BY <1>6, <1>7, <2>1, <2>2 DEF SafetyInv
<1>8. CASE /\ reviews[n].payload = Safety!Payload(n) /\ reviews' = [reviews EXCEPT ![n].status = "completed"]
           /\ granted' = Safety!Put(granted, n, reviews[n].choice)
           /\ UNCHANGED <<drawing, nulls, status, saved, frame, at, out, bound, path, reading, cleared, sent, why>>
  <2>1. /\ DrawingInv' /\ SavedInv' /\ RowsInv' /\ SentInv' /\ Safety!RefusedForCause' /\ Spares
        /\ DOMAIN reviews' = DOMAIN reviews
        /\ reviews'[n].status = "completed" /\ reviews'[n].payload = reviews[n].payload /\ reviews'[n].choice = reviews[n].choice
        /\ \A m \in DOMAIN reviews : m # n => reviews'[m] = reviews[m]
    BY <1>6, <1>8
  <2>2. /\ DOMAIN granted' = DOMAIN granted \cup {n} /\ granted'[n] = reviews[n].choice
        /\ \A m \in DOMAIN granted : granted'[m] = granted[m]
    BY <1>1, <1>8 DEF Safety!Put
  <2>3. n = "verify" => reviews[n].payload = (IF drawing.reader THEN reading["now"] ELSE saved["extract"].value)
    BY <1>1, <1>8, ReadingIs DEF SafetyInv
  <2>4. GrantedInv BY <1>2 DEF SafetyInv, MemoryInv
  <2>5. GrantedInv' BY <1>1, <1>8, <2>1, <2>2, <2>3, <2>4 DEF GrantedInv
  <2>6. MemoryInv' BY <1>2, <1>8, <2>1, <2>5, MemorySpared DEF SafetyInv
  <2> QED BY <2>1, <2>6 DEF SafetyInv
<1> QED BY <1>3, <1>5, <1>7, <1>8

-----------------------------------------------------------------------------
\* At the write every answer was used, and what is sent is what was saved.
LEMMA AtWrite ==
  ASSUME SafetyInv, Safety!Working("write")
  PROVE  /\ at = 6 /\ status = "running" /\ {"verify", "derive", "decide"} \subseteq Done /\ Done \subseteq DOMAIN saved
         /\ Safety!Proven("write")
         /\ \E r \in {"verify", "derive", "decide"} : drawing.on["write"] = {r} /\ Checked(r) /\ Safety!Read("write") = saved[r].value
         /\ DOMAIN reviews \subseteq path
<1>1. at = 6 /\ status = "running" BY PlaceIs DEF SafetyInv
<1>2. {"verify", "derive", "decide"} \subseteq Done BY <1>1, PlaceIs, DoneIs DEF SafetyInv
<1>3. Done \subseteq DOMAIN saved BY <1>1 DEF SafetyInv, MemoryInv
<1>4. PICK r \in {"verify", "derive", "decide"} : drawing.on["write"] = {r} /\ Checked(r) BY DEF SafetyInv, DrawingInv
<1>5. Eligible(r) BY <1>4 DEF Checked, Eligible
<1>6. Safety!Proven("write") BY <1>4, <1>5, ProvenIs DEF SafetyInv
<1>7. Safety!Read("write") = saved[r].value
  <2>1. Safety!Read("write") = UNION {Worth(x).value : x \in Safety!Inputs(drawing, "write")} BY InputsAre DEF SafetyInv
  <2>2. Safety!Inputs(drawing, "write") = {r} BY <1>4, InputsAre DEF SafetyInv
  <2>3. {Worth(x).value : x \in Safety!Inputs(drawing, "write")} = {saved[r].value} BY <2>2, <1>4 DEF Worth
  <2> QED BY ONLY <2>1, <2>3
<1>8. DOMAIN reviews \subseteq path
  <2>1. DOMAIN reviews \subseteq {"verify", "decide"} BY DEF SafetyInv, RowsInv
  <2>2. "verify" \in DOMAIN reviews => saved["verify"].reviewed BY <1>2, <1>3 DEF SafetyInv, RowsInv
  <2>3. "decide" \in DOMAIN reviews => saved["decide"].manual BY <1>2, <1>3 DEF SafetyInv, RowsInv
  <2>4. path = {n \in Done : (n = "verify" /\ saved["verify"].reviewed) \/ (n = "decide" /\ saved["decide"].manual)}
    BY <1>1 DEF SafetyInv, MemoryInv
  <2> QED BY <1>2, <2>1, <2>2, <2>3, <2>4
<1> QED BY <1>1, <1>2, <1>3, <1>4, <1>6, <1>7, <1>8

LEMMA ClearsKeep == ASSUME SafetyInv, Safety!Clear PROVE SafetyInv'
<1>1. Safety!Working("write") BY DEF Safety!Clear
<1>2. status = "running" /\ Safety!Proven("write") BY <1>1, AtWrite
<1> DEFINE pass == [value |-> Safety!Read("write"), stale |-> {n \in DOMAIN reviews : ~Safety!Stands(n)}]
<1>3. \/ Safety!Fail("lapsed")
      \/ /\ Safety!PathAllows /\ cleared' = Safety!Put(<< >>, "now", pass)
         /\ UNCHANGED <<drawing, nulls, status, saved, frame, reviews, at, out, bound, path, reading, granted, sent, why>>
  BY <1>2 DEF Safety!Clear
<1>4. CASE Safety!Fail("lapsed") BY <1>2, <1>4, FailKeeps
<1>5. CASE /\ Safety!PathAllows /\ cleared' = Safety!Put(<< >>, "now", pass)
           /\ UNCHANGED <<drawing, nulls, status, saved, frame, reviews, at, out, bound, path, reading, granted, sent, why>>
  <2>1. pass.stale = {}
    <3>1. \A n \in DOMAIN reviews : Safety!Stands(n) BY <1>1, <1>5, AtWrite DEF Safety!PathAllows, Safety!PathStands
    <3> QED BY <3>1
  <2>2. \A r \in drawing.on["write"] : pass.value = saved[r].value BY <1>1, AtWrite
  <2> HIDE DEF pass
  <2>3. cleared'["now"] = pass BY <1>5 DEF Safety!Put
  <2>4. at = 6 BY <1>1, AtWrite
  <2>5. Spares BY <1>5 DEF Spares, SafetyInv, RowsInv
  <2>6. DrawingInv' /\ SavedInv' /\ RowsInv' BY <1>2, <1>5, <2>5, RowsSpared DEF SafetyInv
  <2>7. GrantedInv' BY <1>2, <1>5, <2>5, GrantedSpared DEF SafetyInv, MemoryInv
  <2>8. MemoryInv'
    <3>1. Done' = Done BY <1>5 DEF Done
    <3>2. \A n : Worth(n)' = Worth(n) BY <1>5 DEF Worth
    <3>3. \A n : Eligible(n)' <=> Eligible(n) BY <1>5 DEF Eligible
    <3>4. {n \in Done' : Eligible(n)'} = {n \in Done : Eligible(n)} BY <3>1, <3>3
    <3> QED BY <1>2, <1>5, <2>1, <2>2, <2>3, <2>4, <2>7, <3>1, <3>2, <3>4 DEF SafetyInv, MemoryInv
  <2>9. SentInv' BY <1>2, <1>5, SentStays DEF SafetyInv
  <2>10. Safety!RefusedForCause' BY <1>5, CauseStays DEF SafetyInv
  <2> QED BY <2>6, <2>8, <2>9, <2>10 DEF SafetyInv
<1> QED BY <1>3, <1>4, <1>5

LEMMA SendsKeep == ASSUME SafetyInv, Safety!Send PROVE SafetyInv'
<1>1. /\ Safety!Working("write") /\ cleared # << >> /\ sent' = sent \cup {cleared["now"]} /\ status' = "success"
      /\ UNCHANGED <<drawing, nulls, saved, frame, reviews, why>>
  BY DEF Safety!Send
<1>2. status = "running" /\ {"verify", "derive", "decide"} \subseteq DOMAIN saved BY <1>1, AtWrite
<1>3. sent' = {cleared["now"]} BY <1>1, <1>2 DEF SafetyInv, SentInv
<1>4. cleared["now"].stale = {} /\ \A r \in drawing.on["write"] : cleared["now"].value = saved[r].value
  BY <1>1, <1>2 DEF SafetyInv, MemoryInv
<1>5. Spares BY <1>1 DEF Spares, SafetyInv, RowsInv
<1>6. DrawingInv' /\ SavedInv' /\ RowsInv' BY <1>1, <1>2, <1>5, RowsSpared DEF SafetyInv
<1>7. MemoryInv' BY <1>1 DEF MemoryInv
<1>8. Safety!RefusedForCause' BY <1>1, CauseStays DEF SafetyInv
<1>9. Safety!SentWhileConfirmed' BY <1>3, <1>4 DEF Safety!SentWhileConfirmed
<1> DEFINE v == saved["verify"].value
           accepted == "verify" \in DOMAIN reviews /\ reviews["verify"].payload = v /\ reviews["verify"].status = "completed"
           derived == IF drawing.derive = "compute" /\ nulls THEN {"null"} ELSE v \cup {drawing.derive}
           choice == IF "decide" \in DOMAIN reviews THEN IF reviews["decide"].choice THEN "true" ELSE "false" ELSE "true"
<1>10. (Safety!Verdict(v) = "passed" /\ ~(drawing.reader /\ "unrelated" \in v)) \/ accepted
  <2>1. Safety!Verdict(v) # "clarify" BY <1>2 DEF SafetyInv, RowsInv
  <2>2. Safety!Verdict(v) \in {"needs_review", "clarify", "passed"} BY DEF Safety!Verdict
  <2>3. saved["verify"].reviewed => accepted BY <1>2 DEF SafetyInv, RowsInv
  <2>4. ~saved["verify"].reviewed => ~ForPerson(v) BY <1>2 DEF SafetyInv, RowsInv
  <2> HIDE DEF accepted, v
  <2> QED BY <2>1, <2>2, <2>3, <2>4 DEF ForPerson, Safety!NeedsPerson
<1>11. \A r \in drawing.on["write"] :
         saved[r].value = CASE r = "verify" -> v [] r = "derive" -> derived [] OTHER -> {choice}
  <2>1. PICK r \in {"verify", "derive", "decide"} : drawing.on["write"] = {r} /\ Checked(r) BY DEF SafetyInv, DrawingInv
  <2>2. CASE r = "verify" BY <2>1, <2>2
  <2>3. CASE r = "derive"
    <3>1. saved["derive"].value = derived BY <1>2, <2>1, <2>3 DEF Checked, SafetyInv, SavedInv
    <3> QED BY <2>1, <2>3, <3>1
  <2>4. CASE r = "decide"
    <3>1. saved["decide"].value = {IF saved["decide"].choice THEN "true" ELSE "false"} BY <1>2 DEF SafetyInv, SavedInv
    <3>2. "decide" \in DOMAIN reviews => saved["decide"].choice = reviews["decide"].choice BY <1>2 DEF SafetyInv, RowsInv
    <3>3. "decide" \notin DOMAIN reviews => saved["decide"].choice
      BY <1>2, <2>1, <2>4 DEF Checked, SafetyInv, RowsInv, SavedInv
    <3>4. saved["decide"].value = {choice} BY <3>1, <3>2, <3>3
    <3> QED BY <2>1, <2>4, <3>4
  <2> QED BY <2>2, <2>3, <2>4
<1>12. Safety!SentOnAuthority'
  <2>1. nulls' <=> nulls
    <3>1. nulls' = nulls BY <1>1
    <3> QED BY ONLY <3>1
  <2> QED BY <1>1, <1>3, <1>4, <1>10, <1>11, <2>1 DEF Safety!SentOnAuthority
<1> QED BY <1>1, <1>6, <1>7, <1>8, <1>9, <1>12 DEF SafetyInv, SentInv

-----------------------------------------------------------------------------
\* What finalize hands on: the text of the verifier, and what is built from it.
LEMMA EligibleIs ==
  ASSUME DrawingInv, RowsInv, MemoryInv, NEW n \in {"extract", "verify", "fetch", "derive", "decide"}, Safety!Working(n),
         NEW o, Safety!Inherits(n, o)
  PROVE  bound' = IF Eligible(n)
                  THEN Safety!Put(bound, n, [value |-> o.value,
                         choices |-> IF n = "decide" /\ o.manual THEN Safety!Put(<< >>, n, o.choice) ELSE << >>])
                  ELSE bound
<1>1. CASE n \in {"extract", "fetch"} BY <1>1 DEF Safety!Inherits, Eligible
<1>2. CASE n = "verify" BY <1>2 DEF Safety!Inherits, Eligible
<1>3. CASE n = "derive"
  <2>1. Safety!Proven(n) <=> "verify" \in drawing.on["derive"] BY <1>3, ProvenIs DEF DrawingInv, Eligible
  <2> QED BY <1>3, <2>1 DEF Safety!Inherits, Eligible
<1>4. CASE n = "decide"
  <2>1. Safety!Proven(n) <=> \E r \in drawing.on["decide"] : Eligible(r) BY <1>4, ProvenIs
  <2>2. Eligible(n) <=> drawing.decide = "check" /\ \E r \in drawing.on["decide"] : Eligible(r)
    BY <1>4 DEF DrawingInv, Eligible
  <2> QED BY <1>4, <2>1, <2>2 DEF Safety!Inherits
<1> QED BY <1>1, <1>2, <1>3, <1>4

\* A node is done, and its output is what is saved.
LEMMA FinishesMemory ==
  ASSUME SafetyInv, NEW n \in {"extract", "verify", "fetch", "derive", "decide"}, Safety!Working(n),
         NEW o, Safety!Finish(n, o), n \in DOMAIN saved', saved'[n] = o, DOMAIN saved \subseteq DOMAIN saved',
         \A m \in DOMAIN saved : saved'[m] = saved[m], UNCHANGED <<reading, granted, cleared>>
  PROVE  MemoryInv'
<1> SUFFICES ASSUME status' = "running" PROVE MemoryInv' BY DEF MemoryInv
<1>0. /\ status = "running" /\ at \in (IF drawing.reader THEN 2 ELSE 1) .. 5 /\ Safety!Flow[at] = n /\ n \notin Done
  <2>1. /\ status = "running" /\ at \in (IF drawing.reader THEN 2 ELSE 1) .. 6 /\ Safety!Flow[at] = n /\ n \notin Done /\ at # 6
    BY PlaceIs DEF SafetyInv
  <2> QED BY <2>1
<1>1. /\ at' = at + 1 /\ drawing' = drawing /\ reviews' = reviews /\ out' = Safety!Put(out, n, o)
      /\ Safety!Inherits(n, o)
      /\ path' = path \cup (IF (n = "verify" /\ o.reviewed) \/ (n = "decide" /\ o.manual) THEN {n} ELSE {})
  BY DEF Safety!Finish
<1>2. at' \in (IF drawing'.reader THEN 2 ELSE 1) .. 6 BY <1>0, <1>1
<1>3. Done' = Done \cup {n} BY <1>0, <1>1, DoneGrows
<1>4. Done \subseteq DOMAIN saved /\ Done' \subseteq DOMAIN saved' BY <1>0, <1>3 DEF SafetyInv, MemoryInv
<1>5. \A m : Eligible(m)' <=> Eligible(m) BY <1>1 DEF Eligible
<1>6. /\ DOMAIN out' = Done' \cup {"trigger"} /\ \A m \in DOMAIN out' : out'[m] = Worth(m)'
  <2>1. DOMAIN out = Done \cup {"trigger"} /\ \A m \in DOMAIN out : out[m] = Worth(m) BY <1>0 DEF SafetyInv, MemoryInv
  <2>2. /\ DOMAIN out' = DOMAIN out \cup {n} /\ out'[n] = o /\ \A m \in DOMAIN out : m # n => out'[m] = out[m]
    BY <1>1 DEF Safety!Put
  <2>3. \A m \in DOMAIN out : Worth(m)' = Worth(m) BY <1>4, <2>1 DEF Worth
  <2>4. Worth(n)' = o BY DEF Worth
  <2> QED BY <1>0, <1>3, <2>1, <2>2, <2>3, <2>4
<1>7. /\ DOMAIN bound' = {m \in Done' : Eligible(m)'}
      /\ \A m \in DOMAIN bound' :
           /\ bound'[m].value = saved'[m].value
           /\ DOMAIN bound'[m].choices \subseteq {"decide"}
           /\ "decide" \in DOMAIN bound'[m].choices =>
                m = "decide" /\ saved'["decide"].manual /\ bound'[m].choices["decide"] = saved'["decide"].choice
  <2> DEFINE choices == IF n = "decide" /\ o.manual THEN Safety!Put(<< >>, n, o.choice) ELSE << >>
             entry == [value |-> o.value, choices |-> choices]
  <2>1. bound' = IF Eligible(n) THEN Safety!Put(bound, n, entry) ELSE bound BY <1>1, EligibleIs DEF SafetyInv
  <2>2. DOMAIN bound = {m \in Done : Eligible(m)} BY <1>0 DEF SafetyInv, MemoryInv
  <2>3. {m \in Done' : Eligible(m)'} = {m \in Done : Eligible(m)} \cup {m \in {n} : Eligible(m)} BY <1>3, <1>5
  <2>4. /\ entry.value = o.value /\ DOMAIN entry.choices \subseteq {"decide"}
        /\ "decide" \in DOMAIN entry.choices => n = "decide" /\ o.manual /\ entry.choices["decide"] = o.choice
    <3>1. DOMAIN << >> = {} OBVIOUS
    <3>2. CASE n = "decide" /\ o.manual BY <3>1, <3>2 DEF Safety!Put
    <3>3. CASE ~(n = "decide" /\ o.manual)
      <4>1. entry.value = o.value /\ entry.choices = << >> BY <3>3
      <4> QED BY ONLY <3>1, <4>1
    <3> QED BY <3>2, <3>3
  <2> HIDE DEF entry
  <2>5. \A m \in DOMAIN bound :
          /\ bound[m].value = saved'[m].value
          /\ DOMAIN bound[m].choices \subseteq {"decide"}
          /\ "decide" \in DOMAIN bound[m].choices =>
               m = "decide" /\ saved'["decide"].manual /\ bound[m].choices["decide"] = saved'["decide"].choice
    <3>1. \A m \in DOMAIN bound : saved'[m] = saved[m] BY <1>4, <2>2
    <3> QED BY <1>0, <3>1 DEF SafetyInv, MemoryInv
  <2>6. CASE Eligible(n)
    <3>1. /\ DOMAIN bound' = DOMAIN bound \cup {n} /\ bound'[n] = entry /\ \A m \in DOMAIN bound : m # n => bound'[m] = bound[m]
      BY <2>1, <2>6 DEF Safety!Put
    <3>2. n \notin DOMAIN bound BY <1>0, <2>2
    <3> QED BY <2>2, <2>3, <2>4, <2>5, <2>6, <3>1, <3>2
  <2>7. CASE ~Eligible(n) BY <2>1, <2>2, <2>3, <2>5, <2>7
  <2> QED BY <2>6, <2>7
<1>8. path' = {m \in Done' : (m = "verify" /\ saved'["verify"].reviewed) \/ (m = "decide" /\ saved'["decide"].manual)}
  <2>1. path = {m \in Done : (m = "verify" /\ saved["verify"].reviewed) \/ (m = "decide" /\ saved["decide"].manual)}
    BY <1>0 DEF SafetyInv, MemoryInv
  <2>2. \A m \in Done : saved'[m] = saved[m] BY <1>4
  <2> QED BY <1>1, <1>3, <2>1, <2>2
<1>9. GrantedInv'
  <2>1. GrantedInv BY <1>0 DEF SafetyInv, MemoryInv
  <2>2. "verify" \notin DOMAIN saved /\ "verify" \in DOMAIN reviews /\ ~drawing.reader => "extract" \in DOMAIN saved
    BY DEF SafetyInv, RowsInv
  <2> QED BY <1>1, <2>1, <2>2 DEF GrantedInv
<1>10. cleared' = << >> BY <1>0 DEF SafetyInv, MemoryInv
<1> QED BY <1>2, <1>4, <1>6, <1>7, <1>8, <1>9, <1>10 DEF MemoryInv

LEMMA RestoresKeep == ASSUME SafetyInv, NEW n \in Safety!Nodes, Safety!Restore(n) PROVE SafetyInv'
<1>1. /\ Safety!Working(n) /\ n \in DOMAIN saved
      /\ \/ Safety!Fail("lapsed")
         \/ Safety!Finish(n, saved[n]) /\ UNCHANGED <<saved, frame, reading, granted, cleared>>
  BY DEF Safety!Restore
<1>2. status = "running" BY <1>1, PlaceIs DEF SafetyInv
<1>3. CASE Safety!Fail("lapsed") BY <1>2, <1>3, FailKeeps
<1>4. CASE Safety!Finish(n, saved[n]) /\ UNCHANGED <<saved, frame, reading, granted, cleared>>
  <2>1. UNCHANGED <<drawing, nulls, reviews, sent, why>> /\ status' \in {"success", status} BY <1>4 DEF Safety!Finish
  <2>2. Spares BY <1>4, <2>1 DEF Spares, SafetyInv, RowsInv
  <2>3. DrawingInv' /\ SavedInv' /\ RowsInv' BY <1>2, <1>4, <2>1, <2>2, RowsSpared DEF SafetyInv
  <2>4. n \in {"extract", "verify", "fetch", "derive", "decide"} BY <1>1 DEF SafetyInv, SavedInv
  <2>5. MemoryInv' BY <1>1, <1>4, <2>4, FinishesMemory
  <2> QED BY <1>2, <2>1, <2>3, <2>5, SentStays, CauseStays DEF SafetyInv
<1> QED BY <1>1, <1>3, <1>4

-----------------------------------------------------------------------------
\* What is saved of a node, for those that follow.
Leaves(n, o) ==
  /\ n = "verify" =>
       /\ o.reviewed =>
            "verify" \in DOMAIN reviews /\ reviews["verify"].payload = o.value /\ reviews["verify"].status = "completed"
       /\ ~o.reviewed => "verify" \notin DOMAIN reviews /\ ~ForPerson(o.value)
  /\ n = "derive" =>
       /\ drawing.on["derive"] = {"verify"} =>
            "verify" \in DOMAIN saved /\ o.value =
              (IF drawing.derive = "compute" /\ nulls THEN {"null"} ELSE saved["verify"].value \cup {drawing.derive})
       /\ drawing.on["derive"] = {"trigger"} => o.label = "calculated" \/ (drawing.derive = "compute" /\ nulls)
  /\ n = "decide" =>
       /\ o.value = {IF o.choice THEN "true" ELSE "false"}
       /\ drawing.decide = "check" /\ ~o.manual => o.choice
       /\ o.manual =>
            "decide" \in DOMAIN reviews /\ reviews["decide"].choice = o.choice /\ reviews["decide"].status = "completed"
       /\ ~o.manual => "decide" \notin DOMAIN reviews

LEMMA CompletesKeep ==
  ASSUME SafetyInv, NEW n \in {"extract", "verify", "fetch", "derive", "decide"}, Safety!Fresh(n),
         NEW o, Safety!Complete(n, o), Leaves(n, o)
  PROVE  SafetyInv'
<1>1. /\ Safety!Working(n) /\ n \notin DOMAIN saved /\ Safety!Finish(n, o) /\ saved' = Safety!Put(saved, n, o)
      /\ frame' = (IF n = "verify" THEN << >> ELSE frame) /\ UNCHANGED <<reading, granted, cleared>>
  BY DEF Safety!Complete, Safety!Fresh
<1>2. /\ UNCHANGED <<drawing, nulls, reviews, sent, why>> /\ status' \in {"success", status}
      /\ n = "verify" /\ Safety!Verdict(o.value) = "clarify" => status' = "success"
  BY <1>1 DEF Safety!Finish
<1>3. status = "running" BY <1>1, PlaceIs DEF SafetyInv
<1>4. /\ DOMAIN saved' = DOMAIN saved \cup {n} /\ saved'[n] = o /\ \A m \in DOMAIN saved : saved'[m] = saved[m]
  BY <1>1 DEF Safety!Put
<1>5. MemoryInv' BY <1>1, <1>4, FinishesMemory
<1>6. nulls' <=> nulls
  <2>1. nulls' = nulls BY <1>2
  <2> QED BY ONLY <2>1
<1>7. DrawingInv' BY <1>2, <1>6 DEF SafetyInv, DrawingInv, Checked
<1>8. SavedInv'
  <2>1. DOMAIN saved' \subseteq {"extract", "verify", "fetch", "derive", "decide"} BY <1>4 DEF SafetyInv, SavedInv
  <2>2. "derive" \in DOMAIN saved' =>
       /\ drawing'.on["derive"] = {"verify"} =>
            "verify" \in DOMAIN saved' /\ saved'["derive"].value =
              (IF drawing'.derive = "compute" /\ nulls' THEN {"null"} ELSE saved'["verify"].value \cup {drawing'.derive})
       /\ drawing'.on["derive"] = {"trigger"} =>
            saved'["derive"].label = "calculated" \/ (drawing'.derive = "compute" /\ nulls')
    BY <1>2, <1>4, <1>6 DEF SafetyInv, SavedInv, Leaves
  <2>3. "decide" \in DOMAIN saved' =>
       /\ saved'["decide"].value = {IF saved'["decide"].choice THEN "true" ELSE "false"}
       /\ drawing'.decide = "check" /\ ~saved'["decide"].manual => saved'["decide"].choice
    BY <1>2, <1>4 DEF SafetyInv, SavedInv, Leaves
  <2> QED BY <2>1, <2>2, <2>3 DEF SavedInv
<1>9. RowsInv'
  <2>1. \A v : (IF drawing'.reader THEN Safety!NeedsPerson(v) ELSE Safety!Verdict(v) = "needs_review") <=> ForPerson(v)
    BY <1>2 DEF ForPerson
  <2>2. ForPerson(saved["verify"].value)' <=> ForPerson(saved'["verify"].value) BY <2>1 DEF ForPerson
  <2>3. "verify" \in DOMAIN saved' =>
       /\ saved'["verify"].reviewed =>
            /\ "verify" \in DOMAIN reviews' /\ reviews'["verify"].payload = saved'["verify"].value
            /\ reviews'["verify"].status = "completed"
       /\ ~saved'["verify"].reviewed => "verify" \notin DOMAIN reviews' /\ ~ForPerson(saved["verify"].value)'
       /\ Safety!Verdict(saved'["verify"].value) = "clarify" => status' = "success"
    <3>1. CASE n = "verify" BY <1>2, <1>4, <2>2, <3>1 DEF Leaves
    <3>2. CASE n # "verify" BY <1>2, <1>3, <1>4, <2>2, <3>2 DEF SafetyInv, RowsInv
    <3> QED BY <3>1, <3>2
  <2>4. "verify" \notin DOMAIN saved' /\ "verify" \in DOMAIN reviews' =>
       /\ drawing'.reader => frame' # << >> /\ ForPerson(frame["now"])' /\ (status' = "running" => reading' = frame')
       /\ ~drawing'.reader => "extract" \in DOMAIN saved' /\ ForPerson(saved["extract"].value)'
    <3>1. ForPerson(frame["now"])' <=> ForPerson(frame'["now"]) BY <2>1 DEF ForPerson
    <3>2. ForPerson(saved["extract"].value)' <=> ForPerson(saved'["extract"].value) BY <2>1 DEF ForPerson
    <3> QED BY <1>1, <1>2, <1>3, <1>4, <3>1, <3>2 DEF SafetyInv, RowsInv
  <2>5. "decide" \in DOMAIN saved' =>
       /\ saved'["decide"].manual =>
            /\ "decide" \in DOMAIN reviews' /\ reviews'["decide"].choice = saved'["decide"].choice
            /\ reviews'["decide"].status = "completed"
       /\ ~saved'["decide"].manual => "decide" \notin DOMAIN reviews'
    <3>1. CASE n = "decide" BY <1>2, <1>4, <3>1 DEF Leaves
    <3>2. CASE n # "decide" BY <1>2, <1>4, <3>2 DEF SafetyInv, RowsInv
    <3> QED BY <3>1, <3>2
  <2>6. "decide" \notin DOMAIN saved' /\ "decide" \in DOMAIN reviews' =>
       drawing'.on["decide"] \subseteq DOMAIN saved' \cup {"trigger"} /\ Undecided' /\ "verify" \in DOMAIN saved'
    <3> SUFFICES ASSUME "decide" \notin DOMAIN saved, "decide" \in DOMAIN reviews
                 PROVE  drawing.on["decide"] \subseteq DOMAIN saved' \cup {"trigger"} /\ Undecided' /\ "verify" \in DOMAIN saved'
      BY <1>2, <1>4
    <3>1. drawing.on["decide"] \subseteq DOMAIN saved \cup {"trigger"} /\ Undecided /\ "verify" \in DOMAIN saved
      BY DEF SafetyInv, RowsInv
    <3>2. \A r \in drawing.on["decide"] : Worth(r)' = Worth(r) BY <1>4, <3>1 DEF Worth
    <3>3. {Worth(r)'.value : r \in drawing'.on["decide"]} = {Worth(r).value : r \in drawing.on["decide"]} BY <1>2, <3>2
    <3>4. Weighed' = Weighed BY ONLY <3>3 DEF Weighed
    <3>5. \A r : Eligible(r)' <=> Eligible(r) BY <1>2 DEF Eligible
    <3>6. Undecided' BY <1>2, <3>1, <3>2, <3>4, <3>5 DEF Undecided
    <3> QED BY <1>4, <3>1, <3>6
  <2>7. /\ DOMAIN reviews' \subseteq {"verify", "decide"}
        /\ \A m \in DOMAIN reviews' : DOMAIN reviews'[m] = {"payload", "status", "choice", "lapsed"}
    BY <1>2 DEF SafetyInv, RowsInv
  <2> QED BY <2>3, <2>4, <2>5, <2>6, <2>7 DEF RowsInv
<1> QED BY <1>2, <1>3, <1>5, <1>7, <1>8, <1>9, SentStays, CauseStays DEF SafetyInv

LEMMA CallsKeep == ASSUME SafetyInv, Safety!Extract \/ Safety!Fetch PROVE SafetyInv'
<1>1. PICK n \in {"extract", "fetch"}, v \in Safety!Readings \cup {{"page"}, {"page", "large"}} :
        Safety!Fresh(n) /\ Safety!Complete(n, [value |-> v, label |-> "guessed"])
  BY DEF Safety!Extract, Safety!Fetch
<1>2. Leaves(n, [value |-> v, label |-> "guessed"]) BY DEF Leaves
<1> QED BY <1>1, <1>2, CompletesKeep

LEMMA VerifiesKeep == ASSUME SafetyInv, Safety!VerifyRuns PROVE SafetyInv'
<1> DEFINE o == [value |-> Safety!ToVerify, label |-> "guessed", reviewed |-> Safety!Confirmed("verify")]
<1>1. /\ Safety!Fresh("verify") /\ Safety!CanVerify /\ (Safety!Asks("verify") => Safety!Confirmed("verify"))
      /\ Safety!Fail("lapsed") \/ Safety!Complete("verify", o)
  BY DEF Safety!VerifyRuns
<1>2. Safety!Working("verify") /\ "verify" \notin DOMAIN saved BY <1>1 DEF Safety!Fresh
<1>3. status = "running" BY <1>2, PlaceIs DEF SafetyInv
<1>4. /\ Safety!ToVerify = (IF drawing.reader THEN reading["now"] ELSE saved["extract"].value)
      /\ Safety!Asks("verify") <=> Safety!CanVerify /\ ForPerson(Safety!ToVerify)
  BY <1>2, ReadingIs DEF SafetyInv
<1>5. o.value = Safety!ToVerify /\ (o.reviewed <=> Safety!Confirmed("verify")) OBVIOUS
<1>6. Safety!Confirmed("verify") =>
        "verify" \in DOMAIN reviews /\ reviews["verify"].payload = Safety!ToVerify /\ reviews["verify"].status = "completed"
  BY <1>2, <1>3, <1>4 DEF SafetyInv, MemoryInv, GrantedInv, Safety!Confirmed
<1>7. ~Safety!Confirmed("verify") => ~ForPerson(Safety!ToVerify) BY <1>1, <1>4
<1>8. "verify" \in DOMAIN reviews => ForPerson(Safety!ToVerify) BY <1>2, <1>3, <1>4 DEF SafetyInv, RowsInv
<1> HIDE DEF o
<1>9. Leaves("verify", o) BY <1>5, <1>6, <1>7, <1>8 DEF Leaves
<1> QED BY <1>1, <1>3, <1>9, FailKeeps, CompletesKeep

LEMMA DerivesKeep == ASSUME SafetyInv, Safety!DeriveRuns PROVE SafetyInv'
<1>1. Safety!Fresh("derive") /\ (Safety!Fail("lapsed") \/ Safety!Complete("derive", Safety!Derive)) BY DEF Safety!DeriveRuns
<1>2. Safety!Working("derive") BY <1>1 DEF Safety!Fresh
<1>3. status = "running" BY <1>2, PlaceIs DEF SafetyInv
<1>4. /\ Safety!Inputs(drawing, "derive") = drawing.on["derive"] /\ drawing.on["derive"] \subseteq Done \cup {"trigger"}
      /\ \A r \in drawing.on["derive"] : out[r] = Worth(r)
      /\ Safety!Read("derive") = UNION {Worth(r).value : r \in drawing.on["derive"]}
  <2>1. Safety!Inputs(drawing, "derive") = drawing.on["derive"] BY <1>2, InputsAre DEF SafetyInv
  <2> QED BY <1>2, <2>1, InputsAre DEF SafetyInv
<1>5. /\ Safety!Derive.value =
           (IF drawing.derive = "compute" /\ nulls THEN {"null"} ELSE Safety!Read("derive") \cup {drawing.derive})
      /\ Safety!Derive.label =
           (IF drawing.derive = "compute" /\ nulls THEN "absent"
            ELSE IF Safety!InputTrusted("derive") THEN "calculated" ELSE "guessed")
  BY DEF Safety!Derive
<1>6. drawing.on["derive"] = {"verify"} => "verify" \in DOMAIN saved /\ Safety!Read("derive") = saved["verify"].value
  <2> SUFFICES ASSUME drawing.on["derive"] = {"verify"}
               PROVE  "verify" \in DOMAIN saved /\ Safety!Read("derive") = saved["verify"].value
    OBVIOUS
  <2>1. {Worth(r).value : r \in drawing.on["derive"]} = {saved["verify"].value} BY DEF Worth
  <2>2. Safety!Read("derive") = saved["verify"].value BY ONLY <1>4, <2>1
  <2>3. "verify" \in DOMAIN saved BY <1>3, <1>4 DEF SafetyInv, MemoryInv
  <2> QED BY <2>2, <2>3
<1>7. drawing.on["derive"] = {"trigger"} => Safety!InputTrusted("derive")
  BY <1>4 DEF Safety!InputTrusted, Worth, Safety!Trusted
<1>8. Leaves("derive", Safety!Derive) BY <1>5, <1>6, <1>7 DEF Leaves
<1> QED BY <1>1, <1>3, <1>8, FailKeeps, CompletesKeep

LEMMA DecidesKeep == ASSUME SafetyInv, Safety!DecideRuns PROVE SafetyInv'
<1>1. /\ Safety!Fresh("decide") /\ (Safety!NeedsDecision => Safety!Confirmed("decide"))
      /\ \/ Safety!Fail("lapsed") \/ Safety!Fail("error")
         \/ drawing.decide = "switch" /\ ~Safety!Proven("decide") /\ ~Safety!InputTrusted("decide") /\ Safety!Fail("switch")
         \/ Safety!Complete("decide", Safety!Decision)
  BY DEF Safety!DecideRuns
<1>2. Safety!Working("decide") /\ "decide" \notin DOMAIN saved BY <1>1 DEF Safety!Fresh
<1>3. status = "running" BY <1>2, PlaceIs DEF SafetyInv
<1>4. Safety!NeedsDecision <=> Undecided BY <1>2, UndecidedIs DEF SafetyInv
<1>5. CASE drawing.decide = "switch" /\ ~Safety!Proven("decide") /\ ~Safety!InputTrusted("decide") /\ Safety!Fail("switch")
  <2>1. /\ Safety!Inputs(drawing, "decide") = drawing.on["decide"] /\ drawing.on["decide"] \subseteq Done \cup {"trigger"}
        /\ \A r \in drawing.on["decide"] : out[r] = Worth(r)
    <3>1. Safety!Inputs(drawing, "decide") = drawing.on["decide"] BY <1>2, InputsAre DEF SafetyInv
    <3> QED BY <1>2, <3>1, InputsAre DEF SafetyInv
  <2>2. \A r \in drawing.on["decide"] : ~Eligible(r) BY <1>2, <1>5, ProvenIs DEF SafetyInv
  <2>3. PICK r \in drawing.on["decide"] : Worth(r).label \notin Safety!Trusted BY <1>5, <2>1 DEF Safety!InputTrusted
  <2>4. r = "trigger" \/ (r = "derive" /\ drawing.on["derive"] = {"trigger"})
    BY <1>5, <2>2 DEF SafetyInv, DrawingInv, Checked, Eligible
  <2>5. r # "trigger" BY <2>3 DEF Worth, Safety!Trusted
  <2>6. "derive" \in DOMAIN saved /\ saved["derive"].label # "calculated"
    <3>1. "derive" \in Done BY <2>1, <2>4, <2>5
    <3> QED BY <1>3, <2>3, <2>4, <2>5, <3>1 DEF SafetyInv, MemoryInv, Worth, Safety!Trusted
  <2>7. nulls /\ drawing.derive = "compute" BY <2>4, <2>5, <2>6 DEF SafetyInv, SavedInv
  <2> QED BY <1>3, <1>5, <2>7, FailKeeps
<1>6. CASE Safety!Complete("decide", Safety!Decision)
  <2> DEFINE o == Safety!Decision
  <2>1. o.manual <=> Safety!Confirmed("decide") BY DEF Safety!Decision, Safety!Confirmed
  <2>2. o.value = {IF o.choice THEN "true" ELSE "false"} BY DEF Safety!Decision
  <2>3. Safety!Confirmed("decide") => o.choice = granted["decide"] BY DEF Safety!Decision, Safety!Confirmed
  <2>4. ~Safety!Confirmed("decide") => (o.choice <=> Safety!Holds(Safety!Read("decide"))) BY DEF Safety!Decision, Safety!Confirmed
  <2> HIDE DEF o
  <2>5. Safety!Confirmed("decide") =>
          "decide" \in DOMAIN reviews /\ reviews["decide"].choice = o.choice /\ reviews["decide"].status = "completed"
    BY <1>2, <1>3, <2>3 DEF SafetyInv, MemoryInv, GrantedInv, Safety!Confirmed
  <2>6. "decide" \in DOMAIN reviews => Safety!Confirmed("decide") BY <1>1, <1>2, <1>4 DEF SafetyInv, RowsInv
  <2>7. drawing.decide = "check" /\ ~Safety!Confirmed("decide") => Safety!Holds(Safety!Read("decide"))
    BY <1>1 DEF Safety!NeedsDecision, Safety!Deciding
  <2>8. Leaves("decide", o) BY <2>1, <2>2, <2>4, <2>5, <2>6, <2>7 DEF Leaves
  <2>9. Safety!Complete("decide", o) BY <1>6 DEF o
  <2> QED BY <1>1, <2>8, <2>9, CompletesKeep
<1> QED BY <1>1, <1>3, <1>5, <1>6, FailKeeps

-----------------------------------------------------------------------------
LEMMA SafetyStart == Safety!Init => SafetyInv
<1> SUFFICES ASSUME Safety!Init PROVE SafetyInv OBVIOUS
<1>1. drawing \in Safety!Drawings /\ nulls \in BOOLEAN /\ status = "queued" /\ saved = << >> /\ reviews = << >> /\ sent = {} /\ why = ""
  BY DEF Safety!Init
<1>2. DOMAIN << >> = {} OBVIOUS
<1>3. DOMAIN saved = {} /\ DOMAIN reviews = {} BY ONLY <1>1, <1>2
<1>4. DrawingInv BY <1>1, DrawingsValid
<1>5. SavedInv /\ RowsInv /\ MemoryInv BY <1>1, <1>3 DEF SavedInv, RowsInv, MemoryInv
<1>6. SentInv /\ Safety!RefusedForCause
  BY <1>1 DEF SentInv, Safety!SentOnAuthority, Safety!SentWhileConfirmed, Safety!RefusedForCause
<1> QED BY <1>4, <1>5, <1>6 DEF SafetyInv

LEMMA SafetyStep == SafetyInv /\ [Safety!Next]_(Safety!vars) => SafetyInv'
<1> SUFFICES ASSUME SafetyInv, [Safety!Next]_(Safety!vars) PROVE SafetyInv' OBVIOUS
<1>1. CASE Safety!Crash BY <1>1, RunStops DEF Safety!Crash
<1>2. CASE Safety!Stop BY <1>2, RunStops DEF Safety!Stop
<1>3. CASE Safety!Resume BY <1>3, RunStops DEF Safety!Resume
<1>4. CASE UNCHANGED Safety!vars
  <2>1. /\ drawing' = drawing /\ nulls' = nulls /\ status' = status /\ saved' = saved /\ frame' = frame /\ reviews' = reviews
        /\ at' = at /\ out' = out /\ bound' = bound /\ path' = path /\ reading' = reading /\ granted' = granted
        /\ cleared' = cleared /\ sent' = sent /\ why' = why
    BY <1>4 DEF Safety!vars, Safety!memory
  <2>2. nulls' <=> nulls
    <3>1. nulls' = nulls BY <2>1
    <3> QED BY ONLY <3>1
  <2>3. DrawingInv' /\ SavedInv' BY <2>1, <2>2 DEF SafetyInv, DrawingInv, SavedInv, Checked
  <2>4. RowsInv' BY <2>1 DEF SafetyInv, RowsInv, Undecided, Weighed, Worth, Eligible, ForPerson
  <2>5. MemoryInv' BY <2>1 DEF SafetyInv, MemoryInv, GrantedInv, Done, Worth, Eligible
  <2>6. SentInv'
    <3>1. SentInv BY DEF SafetyInv
    <3>2. drawing' = drawing /\ status' = status /\ saved' = saved /\ reviews' = reviews /\ sent' = sent BY ONLY <2>1
    <3>3. Safety!SentWhileConfirmed' BY ONLY <3>1, <3>2 DEF SentInv, Safety!SentWhileConfirmed
    <3>4. Safety!SentOnAuthority' BY ONLY <3>1, <3>2, <2>2 DEF SentInv, Safety!SentOnAuthority
    <3> QED BY ONLY <3>1, <3>2, <3>3, <3>4 DEF SentInv
  <2>7. Safety!RefusedForCause' BY <2>1, CauseStays DEF SafetyInv
  <2> QED BY <2>3, <2>4, <2>5, <2>6, <2>7 DEF SafetyInv
<1>5. CASE Safety!Next
  BY <1>1, <1>2, <1>3, <1>5, ClaimsKeep, CallsKeep, ReadsKeep, VerifiesKeep, DerivesKeep, DecidesKeep, ClearsKeep, SendsKeep,
     CancelsKeep, RestoresKeep, PausesKeep, ConsumesKeep, ClosesKeep, LapsesKeep, ApprovesKeep
  DEF Safety!Next
<1> QED BY <1>4, <1>5

LEMMA SafetyHolds ==
  SafetyInv => Safety!SentOnAuthority /\ Safety!SentWhileConfirmed /\ Safety!RefusedForCause
  BY DEF SafetyInv, SentInv

\* For every number of attempts, over pauses, crashes and resumed runs: a write carries
\* what was checked or what a person accepted and still stood by, and nothing of a
\* workflow that validates is refused without a cause (request_safety.py).
THEOREM WritesOnAuthority ==
  Safety!Spec => [](Safety!SentOnAuthority /\ Safety!SentWhileConfirmed /\ Safety!RefusedForCause)
BY SafetyStart, SafetyStep, SafetyHolds, PTL DEF Safety!Spec
=============================================================================
