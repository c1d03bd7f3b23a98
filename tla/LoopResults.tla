----------------------------- MODULE LoopResults -----------------------------
(***************************************************************************)
(* What a loop keeps of its items' results within two sizes, what it says  *)
(* of what it lost, and what the run then says (iteration.py, worker.py).  *)
(*                                                                         *)
(* An item's result has the sizes of its value, its error and its reason   *)
(* for being incomplete.  Its other fields, a mark that it lost something  *)
(* included, cost one byte each.  The items' own work is left out: Raw is  *)
(* what each of them would return.                                         *)
(***************************************************************************)
EXTENDS Integers, Sequences, SequencesExt

CONSTANTS
  Retained,  \* RETAINED_VALUE_BYTES: the list up to which values are kept
  Hard,      \* HARD_RESULT_BYTES: the list; every item fits it in its smallest form
  TextCap    \* MAX_ENTRY_TEXT

Least(x, y) == IF x < y THEN x ELSE y
Mark(truth) == IF truth THEN 1 ELSE 0

\* What an item hands to the loop: a value and a reason when it succeeded, an
\* error when it failed, and the budget that refused the rest of its work.
Raw(status, value, error, reason, halt) ==
  [status |-> status, value |-> value, error |-> error, reason |-> reason, halt |-> halt, dropped |-> FALSE, omitted |-> FALSE]

Bytes(e) == 2 + e.value + e.error + e.reason + Mark(e.halt) + Mark(e.dropped) + Mark(e.omitted)
ListBytes(entries) == 2 + FoldSeq(LAMBDA e, n : n + Bytes(e), 0, entries) + (IF entries = <<>> THEN 0 ELSE Len(entries) - 1)

-----------------------------------------------------------------------------
\* The smallest form of an entry, and the most that one and its separator take.
Compact(e) ==
  [e EXCEPT !.value = 0, !.error = Mark(e.error > 0), !.reason = Mark(e.reason > 0),
            !.dropped = e.dropped \/ e.value > 0, !.omitted = TRUE]
CompactBytes == Bytes(Compact(Raw("success", 1, 1, 1, TRUE))) + 1

Fresh(expected) == [size |-> 2, count |-> 0, dropping |-> FALSE, expected |-> expected, list |-> <<>>]
Reserve(budget) == (budget.expected - budget.count - 1) * CompactBytes
Separator(budget) == Mark(budget.count > 0)

Capped(e) == IF e.omitted THEN e ELSE [e EXCEPT !.error = Least(e.error, TextCap), !.reason = Least(e.reason, TextCap)]
\* Once a value was dropped, no later one is kept.
ValueKept(budget, e) ==
  IF e.value > 0 /\ ~e.dropped /\ (budget.dropping \/ budget.size + Separator(budget) + Bytes(e) > Retained)
  THEN [e EXCEPT !.value = 0, !.dropped = TRUE] ELSE e
Fitted(budget, e) ==
  IF budget.size + Separator(budget) + Bytes(e) + Reserve(budget) > Hard THEN Compact(e) ELSE e

Admit(budget, e) ==
  LET entry == Fitted(budget, ValueKept(budget, Capped(e)))
  IN [budget EXCEPT !.size = @ + Separator(budget) + Bytes(entry), !.count = @ + 1,
                    !.dropping = @ \/ entry.dropped, !.list = Append(@, entry)]

-----------------------------------------------------------------------------
\* A loop over the items accepted, some of whose results an earlier attempt
\* saved: it ends at the first item a budget refused, or a failed one under
\* the stop policy.  A refusal before any work leaves no entry.
Refused == Raw("refused", 0, 0, 0, FALSE)
Ends(e, config) == e.halt \/ (e.status = "failed" /\ config.stop)

\* The items that ran: up to the one that ends the loop or cannot start.
Ran(raw, config) ==
  LET ending == {i \in DOMAIN raw : raw[i] = Refused \/ Ends(raw[i], config)}
      last == IF ending = {} THEN Len(raw) ELSE CHOOSE i \in ending : \A j \in ending : i <= j
  IN IF last > 0 /\ raw[last] = Refused THEN last - 1 ELSE last

Loop(raw, config) == FoldLeft(Admit, Fresh(Len(raw)), SubSeq(raw, 1, Ran(raw, config)))

\* The items offered to a later attempt, which saved the first n results.
Resumed(raw, config, n) == SubSeq(Loop(raw, config).list, 1, n) \o SubSeq(raw, n + 1, Len(raw))

-----------------------------------------------------------------------------
\* What the loop's summary says, each part of it a reason to call it truncated.
Halted(raw, config, results) ==
  IF results # <<>> /\ Last(results).halt THEN "budget"
  ELSE IF Len(results) < Len(raw) /\ raw[Len(results) + 1] = Refused THEN "budget"
  ELSE IF results # <<>> /\ Last(results).status = "failed" /\ config.stop THEN "stop" ELSE "none"

Count(results, Test(_)) == Len(SelectSeq(results, Test))
Completeness(total, accepted, results, halt) ==
  LET summary ==
        [limited |-> total > accepted, stopped |-> halt = "stop" /\ accepted > Len(results), budget |-> halt = "budget",
         partial |-> Count(results, LAMBDA e : e.reason > 0), dropped |-> Count(results, LAMBDA e : e.dropped),
         omitted |-> Count(results, LAMBDA e : e.omitted)]
  IN summary @@ [truncated |-> summary.limited \/ summary.stopped \/ summary.budget
                               \/ summary.partial + summary.dropped + summary.omitted > 0]

Summary(raw, config) ==
  LET results == Loop(raw, config).list
  IN Completeness(config.total, Len(raw), results, Halted(raw, config, results))

\* The checkpoint of an earlier release has results and no summary.  What they
\* cannot show counts against the loop.
Reconstructed(results, items, config) ==
  LET failed == results # <<>> /\ config.stop /\ Last(results).status = "failed"
      known == items # "lost"
      successes == SelectSeq(results, LAMBDA e : e.status = "success")
      summary == Completeness(IF known THEN config.total ELSE Len(results), IF known THEN config.accepted ELSE Len(results),
                              results, IF failed THEN "stop" ELSE "none")
      unverified == {w \in {"limited", "values", "agent"} :
                       CASE w = "limited" -> ~known
                         [] w = "values" -> successes # <<>> /\ successes[1].value = 0
                         [] w = "agent" -> config.grounded}
  IN [truncated |-> summary.truncated \/ unverified # {},
      source |-> IF summary.truncated THEN "confirmed" ELSE IF unverified # {} THEN "unverified" ELSE ""]

\* The run's verdict over its nodes: one confirmed cause outranks the others.
RunVerdict(nodes) ==
  LET sources == {nodes[i].source : i \in {j \in DOMAIN nodes : nodes[j].truncated}}
  IN [truncated |-> sources # {},
      source |-> IF "confirmed" \in sources THEN "confirmed" ELSE IF sources = {} THEN "" ELSE "unverified"]

\* incompleteRun: what the run page lists of an incomplete run, confirmed causes
\* first; without the list of causes, the run's own verdict.
PageCauses(nodes, listed) ==
  LET causes == IF listed THEN SelectSeq(nodes, LAMBDA n : n.truncated) ELSE <<>>
      recorded == IF causes = <<>> THEN <<RunVerdict(nodes)>> ELSE causes
  IN  IF RunVerdict(nodes).truncated
      THEN SelectSeq(recorded, LAMBDA n : n.source # "unverified") \o SelectSeq(recorded, LAMBDA n : n.source = "unverified")
      ELSE <<>>

\* What the earlier release stored: it dropped every value it held when one did
\* not fit, and kept those that fitted afterwards (described in the docstring).
OldResults(raw, config, at) ==
  [i \in 1 .. Ran(raw, config) |-> [raw[i] EXCEPT !.value = IF i <= at THEN 0 ELSE @, !.reason = 0]]

-----------------------------------------------------------------------------
\* The list never outgrows its ceiling, whatever the items return, and the size
\* the loop counts is the size of the list.
WithinCeiling(raw, config) ==
  LET done == Loop(raw, config) IN done.size = ListBytes(done.list) /\ done.size <= Hard

\* The values kept are the earliest: none follows one that was dropped.
KeptArePrefix(raw, config) ==
  LET list == Loop(raw, config).list
  IN \A i, j \in DOMAIN list : i < j /\ list[i].dropped => list[j].value = 0

\* An attempt that resumes after any number of saved results ends with the same
\* results and the same summary as one that was never interrupted.
ResumesAlike(raw, config) ==
  \A n \in 0 .. Ran(raw, config) :
     LET later == Resumed(raw, config, n)
     IN Loop(later, config).list = Loop(raw, config).list /\ Summary(later, config) = Summary(raw, config)

\* The summary calls the loop truncated exactly when an item did not run, a value
\* or a text is missing beyond its cap, or an item said that it was incomplete.
SummaryTells(raw, config) ==
  LET ran == Ran(raw, config)
      list == Loop(raw, config).list
      lost == \/ config.total > Len(raw) \/ ran < Len(raw)
              \/ \E i \in 1 .. ran : \/ raw[i].halt \/ raw[i].reason > 0
                                     \/ list[i].value # raw[i].value
                                     \/ list[i].error # Least(raw[i].error, TextCap)
  IN Summary(raw, config).truncated <=> lost

\* A loop restored from an earlier release, and a run with it, is never called
\* complete when it lost an item, a value or an agent's work; and the page puts a
\* loss that is certain before it.  That release knew of no run-wide budget that
\* could end a loop.
OldLossIsTold(raw, config, at, items) ==
  LET results == OldResults(raw, config, at)
      lost == \/ config.total > Len(raw) \/ Len(results) < Len(raw)
              \/ \E i \in DOMAIN results : results[i].value # raw[i].value
              \/ config.grounded /\ \E i \in DOMAIN results : raw[i].reason > 0
      restored == Reconstructed(results, items, [accepted |-> Len(raw)] @@ config)
      other == [truncated |-> TRUE, source |-> "confirmed"] IN
  lost /\ (\A i \in DOMAIN raw : ~raw[i].halt /\ raw[i] # Refused) =>
    /\ RunVerdict(<<restored>>).truncated /\ RunVerdict(<<restored, other>>).source = "confirmed"
    /\ \A listed \in BOOLEAN :
         /\ PageCauses(<<restored>>, listed) # <<>>
         /\ PageCauses(<<restored, other>>, listed)[1].source = "confirmed"
=============================================================================
