---------------------------- MODULE LoopProgress ----------------------------
(***************************************************************************)
(* A for_each node whose body writes to the outside world once per item:   *)
(* the rows of finished items, the marker and the approval of each item's  *)
(* write, and the checkpoint that refers to the rows, over attempts that   *)
(* crash, stall, pause for a decision and are resumed.  As in Accounting,  *)
(* the lease is reduced to its holder.                                     *)
(***************************************************************************)
EXTENDS Integers, Sequences

CONSTANTS
  Owners,    \* claim owners; each serves one attempt
  NumItems   \* the length of the list, within max_items

Items == 1 .. NumItems

VARIABLES
  config,      \* of the run: is the body's write gated, does a failed item
               \* stop the loop, how many items a former release saved
  holder,      \* the owner whose lease the fence accepts
  fresh,       \* the owners that have not claimed yet
  rows,        \* run_loop_items
  checkpoint,  \* the loop's checkpoint: none, the results, or a marker
  markers,     \* write_nodes
  stored,      \* items with a row in action_results
  approval,    \* per item: the row of run_approvals
  step,        \* per attempt: where the handler stands
  results,     \* per attempt: the entries so far
  sent,        \* per item: requests handed to the transport
  answer       \* what the handler returned when its checkpoint was saved

run == <<config, rows, checkpoint, markers, stored, approval>>
vars == <<run, holder, fresh, step, results, sent, answer>>

(***************************************************************************)
(* next: the item at the end of "results" is over; marked, sent, answered: *)
(* its write is on the way; emitting: its entry waits to be saved;         *)
(* finished: the loop has its results; idle: no attempt.                   *)
(***************************************************************************)
Steps == {"idle", "next", "marked", "sent", "answered", "emitting", "finished"}

\* An entry, as far as it matters; "n" tells executions of an item apart.
Entry(status, n) == [status |-> status, n |-> n]
NoRow == Entry("none", 0)

\* The progress of a former release is in the run document.
Legacy == [i \in Items |-> IF i <= config.legacy THEN Entry("success", 0) ELSE NoRow]

\* _document: for the same item the row wins.
Progress == [i \in Items |-> IF rows[i] # NoRow THEN rows[i] ELSE Legacy[i]]

Init ==
  /\ config \in [gated: BOOLEAN, stop: BOOLEAN, legacy: {0, 1}]
  /\ holder = {} /\ fresh = Owners
  /\ rows = [i \in Items |-> NoRow] /\ checkpoint = <<>>
  /\ markers = {} /\ stored = {} /\ approval = [i \in Items |-> "none"]
  /\ step = [o \in Owners |-> "idle"]
  /\ results = [o \in Owners |-> <<>>]
  /\ sent = [i \in Items |-> 0] /\ answer = <<>>

-----------------------------------------------------------------------------
Fence(o) == holder = {o}
At(o, s) == o \notin fresh /\ step[o] = s
Current(o) == Len(results[o]) + 1
Goto(o, s) == step' = [step EXCEPT ![o] = s]

\* The attempt ends, with everything it knew.
Ends(o) == Goto(o, "idle") /\ results' = [results EXCEPT ![o] = <<>>]

\* The item's entry is made; it is saved next.
Makes(o, entry) ==
  /\ Goto(o, "emitting")
  /\ results' = [results EXCEPT ![o] = Append(@, entry)]

Stopped(entry) == entry.status = "failed" /\ config.stop

\* After an entry: the next item, or the end of the loop.
After(o, entries) ==
  Goto(o, IF Len(entries) = NumItems \/ Stopped(entries[Len(entries)])
          THEN "finished" ELSE "next")

\* check_resume_writes: what an approved write of an item marks is settled by
\* the item's row; what an unapproved one marks, only by settle_write.
Settled == \A i \in markers : config.gated /\ Progress[i] # NoRow

\* The run is queued, or its lease has expired, and graph_run accepts it.  A
\* loop with a checkpoint is restored and not executed.
Claim(o) ==
  /\ o \in fresh /\ \A i \in Items : approval[i] \notin {"pending", "rejected"}
  /\ fresh' = fresh \ {o} /\ holder' = {o}
  /\ Goto(o, IF Settled /\ checkpoint = <<>> /\ NumItems > 0 THEN "next" ELSE "idle")
  /\ UNCHANGED <<run, results, sent, answer>>

\* Mutant: the indices that were done are not looked up.
NothingDone(o) == FALSE

Done(o) == Progress[Current(o)] # NoRow

\* A finished item is not executed: its entry is admitted again.
Reuse(o) ==
  LET entries == Append(results[o], Progress[Current(o)]) IN
  /\ At(o, "next") /\ Done(o)
  /\ results' = [results EXCEPT ![o] = entries]
  /\ After(o, entries)
  /\ UNCHANGED <<run, holder, fresh, sent, answer>>

\* A run-wide budget refuses the item before any call: the loop ends with
\* what it has, and nothing is recorded for this item.
Refuse(o) ==
  /\ At(o, "next") /\ ~Done(o)
  /\ Goto(o, "finished")
  /\ UNCHANGED <<run, holder, fresh, results, sent, answer>>

\* The request cannot be prepared: an ordinary failure, nothing was sent.
Prepare(o) ==
  /\ At(o, "next") /\ ~Done(o)
  /\ Makes(o, Entry("failed", sent[Current(o)]))
  /\ UNCHANGED <<run, holder, fresh, sent, answer>>

\* An unapproved write: the stored result, or a marker, which needs the
\* lease.  (Without it the item fails, and saving its entry ends the attempt.)
Mark(o) ==
  LET i == Current(o) IN
  /\ At(o, "next") /\ ~Done(o) /\ ~config.gated
  /\ \/ /\ i \in stored /\ Makes(o, Entry("success", sent[i]))
        /\ UNCHANGED markers
     \/ /\ i \notin stored /\ Fence(o)
        /\ markers' = markers \cup {i} /\ Goto(o, "marked")
        /\ UNCHANGED results
     \/ /\ i \notin stored /\ ~Fence(o)
        /\ Makes(o, Entry("failed", sent[i])) /\ UNCHANGED markers
  /\ UNCHANGED <<config, rows, checkpoint, stored, approval, holder, fresh, sent,
                 answer>>

\* A gated write: resolve, then begin, which marks, or the saved result.
Begin(o) ==
  LET i == Current(o) IN
  /\ At(o, "next") /\ ~Done(o) /\ config.gated /\ Fence(o)
  /\ CASE approval[i] = "approved" ->
            /\ approval' = [approval EXCEPT ![i] = "executing"]
            /\ markers' = markers \cup {i}
            /\ Goto(o, "marked") /\ UNCHANGED results
       [] approval[i] = "completed" ->
            Makes(o, Entry("success", sent[i])) /\ UNCHANGED <<approval, markers>>
       [] OTHER -> Ends(o) /\ UNCHANGED <<approval, markers>>
  /\ approval[i] # "none"
  /\ UNCHANGED <<config, rows, checkpoint, stored, holder, fresh, sent, answer>>

\* ApprovalPause unwinds the loop: what earlier items did is in their rows.
Pause(o) ==
  /\ At(o, "next") /\ ~Done(o) /\ config.gated /\ Fence(o)
  /\ approval[Current(o)] = "none"
  /\ approval' = [approval EXCEPT ![Current(o)] = "pending"]
  /\ holder' = {} /\ Ends(o)
  /\ UNCHANGED <<config, rows, checkpoint, markers, stored, fresh, sent, answer>>

Decide(i) ==
  /\ approval[i] = "pending"
  /\ \E d \in {"approved", "rejected"} : approval' = [approval EXCEPT ![i] = d]
  /\ UNCHANGED <<config, rows, checkpoint, markers, stored, holder, fresh, step,
                 results, sent, answer>>

Send(o) ==
  /\ At(o, "marked") /\ Goto(o, "sent")
  /\ sent' = [sent EXCEPT ![Current(o)] = @ + 1]
  /\ UNCHANGED <<run, holder, fresh, results, answer>>

\* The transport fails: UncertainWriteError ends the run, the marker stays.
SendFails(o) ==
  /\ At(o, "sent") /\ Ends(o)
  /\ UNCHANGED <<run, holder, fresh, sent, answer>>

\* settle_write or complete.  Without it, a gated write is uncertain and ends
\* the run; of an unapproved one the failure is an ordinary one of the item.
Settle(o) ==
  LET i == Current(o) IN
  /\ At(o, "sent")
  /\ \/ /\ Fence(o) /\ markers' = markers \ {i}
        /\ stored' = IF config.gated THEN stored ELSE stored \cup {i}
        /\ approval' = IF config.gated THEN [approval EXCEPT ![i] = "completed"]
                       ELSE approval
        /\ Makes(o, Entry("success", sent[i]))
     \/ /\ UNCHANGED <<markers, stored, approval>>
        /\ IF config.gated THEN Ends(o) ELSE Makes(o, Entry("failed", sent[i]))
  /\ UNCHANGED <<config, rows, checkpoint, holder, fresh, sent, answer>>

\* worker_event with an item_result: the row is merged, or the attempt ends.
SaveItem(o) ==
  LET entries == results[o]
      i == Len(entries) IN
  /\ At(o, "emitting")
  /\ \/ /\ Fence(o) /\ rows' = [rows EXCEPT ![i] = entries[i]]
        /\ After(o, entries) /\ UNCHANGED results
     \/ Ends(o) /\ UNCHANGED rows
  /\ UNCHANGED <<config, checkpoint, markers, stored, approval, holder, fresh, sent,
                 answer>>

\* _compact_loop: a marker, if the rows are exactly the results.
Compact(entries) ==
  IF /\ entries # <<>>
     /\ \A i \in Items :
          rows[i] = IF i <= Len(entries) THEN entries[i] ELSE NoRow
  THEN [count |-> Len(entries), digest |-> entries]
  ELSE [entries |-> entries]

\* _hydrate_loop: the results behind a marker, or the reason to refuse them.
Hydrate(c) ==
  IF "entries" \in DOMAIN c THEN c.entries
  ELSE IF /\ \A i \in Items : (rows[i] # NoRow) <=> (i <= c.count)
          /\ c.digest = SubSeq(rows, 1, c.count)
       THEN SubSeq(rows, 1, c.count)
       ELSE <<Entry("unavailable", 0)>>

\* The loop's success event, with its checkpoint.
Publish(o) ==
  /\ At(o, "finished")
  /\ \/ /\ Fence(o)
        /\ checkpoint' = <<Compact(results[o])>> /\ answer' = results[o]
     \/ UNCHANGED <<checkpoint, answer>>
  /\ Ends(o)
  /\ UNCHANGED <<config, rows, markers, stored, approval, holder, fresh, sent>>

Crash(o) ==
  /\ o \notin fresh /\ step[o] # "idle" /\ Ends(o)
  /\ UNCHANGED <<run, holder, fresh, sent, answer>>

Next ==
  \/ \E o \in Owners :
       \/ Claim(o) \/ Reuse(o) \/ Refuse(o) \/ Prepare(o) \/ Mark(o) \/ Begin(o)
       \/ Pause(o) \/ Send(o) \/ SendFails(o) \/ Settle(o) \/ SaveItem(o)
       \/ Publish(o) \/ Crash(o)
  \/ \E i \in Items : Decide(i)

Spec == Init /\ [][Next]_vars

-----------------------------------------------------------------------------
(* The checkpoint of a loop gives back exactly what the handler returned,  *)
(* also when it only refers to the rows (_compact_loop, _hydrate_loop).    *)
RestoredAsReturned == checkpoint # <<>> => Hydrate(checkpoint[1]) = answer

-----------------------------------------------------------------------------
(* The writes of the items keep the promise of WriteOnce.                  *)
IsSettled(i) == i \in stored \/ approval[i] = "completed"

WritePhase == [i \in Items |->
  IF IsSettled(i) THEN "settled"
  ELSE IF sent[i] > 0 THEN "sent"
  ELSE IF i \in markers THEN "marked" ELSE "idle"]

ItemWrites == INSTANCE WriteOnce
  WITH Writes <- Items, phase <- WritePhase, requests <- sent
=============================================================================
