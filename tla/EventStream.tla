---------------------------- MODULE EventStream ----------------------------
(***************************************************************************)
(* The events of a run and those who follow them: the transactions that    *)
(* number and append them (storage.py), the stream an API worker serves    *)
(* page by page (main.py), and the run view of the browser, which falls    *)
(* back to polling when the connection breaks (workflow-editor.tsx).       *)
(***************************************************************************)
EXTENDS Integers, Sequences, SequencesExt

CONSTANTS
  Writers,    \* those who append: the worker, API requests, the approval sweep
  MaxEvents,  \* bounds the events of the run
  Page        \* the events a stream reads at once: 200

VARIABLES
  log,     \* run_events of the run, in the order of commits
  status,  \* the run's status
  tx,      \* each writer's transaction: holds the job row, its number taken
  open,    \* whether the follower's session is valid
  stream,  \* the generator serving the events request
  wire,    \* what it sent that has not arrived
  view,    \* the run view
  late     \* events sent since the session ended (for the properties)

vars == <<log, status, tx, open, stream, wire, view, late>>

Statuses == {"queued", "running", "awaiting_approval", "failed", "success"}
Active == {"queued", "running"}
None == -1

\* How the status of a run may go on (RunLifecycle), staying as it is included.
Successors(s) ==
  CASE s = "queued" -> {"queued", "running"}
    [] s = "running" -> Statuses
    [] s = "awaiting_approval" -> {"awaiting_approval", "queued", "failed"}
    [] s = "failed" -> {"failed", "queued"}
    [] OTHER -> {s}

NoStream == [at |-> "off", cursor |-> None, status |-> "", due |-> 0]

Init ==
  /\ log = <<>> /\ status = "queued" /\ open = TRUE /\ late = 0
  /\ tx = [w \in Writers |-> None]
  /\ stream = [NoStream EXCEPT !.at = "check"] /\ wire = <<>>
  /\ view = [at |-> "live", events |-> <<>>, status |-> "running", due |-> 0]

-----------------------------------------------------------------------------
\* Every caller of _event has locked the job row before.
Locked == \E w \in Writers : tx[w] # None

\* _event takes the number after the last.
Allocate(w) ==
  /\ ~Locked /\ Len(log) < MaxEvents
  /\ tx' = [tx EXCEPT ![w] = Len(log)]
  /\ UNCHANGED <<log, status, open, stream, wire, view, late>>

\* The event and the status it reports are committed together.
Commit(w) ==
  /\ tx[w] # None
  /\ log' = Append(log, tx[w]) /\ status' \in Successors(status)
  /\ tx' = [tx EXCEPT ![w] = None]
  /\ UNCHANGED <<open, stream, wire, view, late>>

Rollback(w) ==
  /\ tx[w] # None /\ tx' = [tx EXCEPT ![w] = None]
  /\ UNCHANGED <<log, status, open, stream, wire, view, late>>

\* The session expires or is ended by a logout elsewhere.
EndSession ==
  /\ open /\ open' = FALSE
  /\ UNCHANGED <<log, status, tx, stream, wire, view, late>>

\* run_events: the committed events from the first that is numbered above the cursor.
After(cursor) ==
  LET above == {i \in DOMAIN log : log[i] > cursor}
  IN  IF above = {} THEN <<>> ELSE SubSeq(log, Min(above), Len(log))
Batch(cursor) == SubSeq(After(cursor), 1, IF Len(After(cursor)) < Page THEN Len(After(cursor)) ELSE Page)

Send(messages) == wire' = wire \o messages
Done(s, due) == [event |-> "done", seq |-> None, status |-> s, due |-> due]
Node(seq) == [event |-> "node", seq |-> seq, status |-> "", due |-> 0]

\* One turn of the generator: the session is checked and the status read ...
Check ==
  /\ stream.at = "check"
  /\ IF open THEN /\ stream' = [stream EXCEPT !.at = "page", !.status = status, !.due = Len(log)]
                  /\ UNCHANGED wire
             ELSE stream' = NoStream /\ Send(<<Done("unauthorized", 0)>>)
  /\ UNCHANGED <<log, status, tx, open, view, late>>

\* After a page that is not full the stream ends with a status that is final,
\* awaits a person included.
Close(n) == IF n < Page /\ stream.status \notin Active THEN <<Done(stream.status, stream.due)>> ELSE <<>>

\* ... then a page of events is read and sent.
ReadPage ==
  LET batch == Batch(stream.cursor)
      nodes == [i \in DOMAIN batch |-> Node(batch[i])]
  IN  /\ stream.at = "page"
      /\ Send(nodes \o Close(Len(batch)))
      /\ stream' = IF Close(Len(batch)) # <<>> THEN NoStream
                   ELSE [stream EXCEPT !.at = "check", !.status = "", !.due = 0,
                                       !.cursor = IF batch = <<>> THEN @ ELSE Last(batch)]
      /\ late' = IF open THEN late ELSE late + Len(batch)
      /\ UNCHANGED <<log, status, tx, open, view>>

-----------------------------------------------------------------------------
\* An event already shown is ignored.
Seen(seq) == \E i \in DOMAIN view.events : view.events[i] = seq

ReceiveNode ==
  /\ view.at = "live" /\ wire # <<>> /\ Head(wire).event = "node"
  /\ wire' = Tail(wire)
  /\ view' = IF Seen(Head(wire).seq) THEN view ELSE [view EXCEPT !.events = Append(@, Head(wire).seq)]
  /\ UNCHANGED <<log, status, tx, open, stream, late>>

\* done: the stream is closed and the run read once more (finish).
ReceiveDone ==
  /\ view.at = "live" /\ wire # <<>> /\ Head(wire).event = "done"
  /\ wire' = <<>> /\ stream' = NoStream
  /\ view' = [view EXCEPT !.at = "finishing", !.status = Head(wire).status, !.due = Head(wire).due]
  /\ UNCHANGED <<log, status, tx, open, late>>

\* The connection breaks and what is under way is lost: the view polls, any
\* other EventSource reconnects after the last event it received.
Cut ==
  /\ view.at = "live" /\ wire' = <<>>
  /\ \/ stream' = NoStream /\ view' = [view EXCEPT !.at = "polling"]
     \/ /\ stream' = [NoStream EXCEPT !.at = IF open THEN "check" ELSE "off",
                        !.cursor = IF view.events = <<>> THEN None ELSE Last(view.events)]
        /\ view' = IF open THEN view ELSE [view EXCEPT !.at = "over"]
  /\ UNCHANGED <<log, status, tx, open, late>>

\* Store.run reads the document, its status with it, and then the events.
Fetching == view.at \in {"finishing", "polling"}
ReadRun ==
  /\ Fetching /\ open
  /\ view' = [view EXCEPT !.status = status, !.due = Len(log), !.at = IF view.at = "polling" THEN "polled" ELSE "finished"]
  /\ UNCHANGED <<log, status, tx, open, stream, wire, late>>

\* The answer replaces what is shown; a poll goes on while the run is active.
ShowRun ==
  /\ view.at \in {"polled", "finished"}
  /\ view' = [view EXCEPT !.events = log,
                          !.at = IF view.at = "polled" /\ view.status \in Active THEN "polling" ELSE "over"]
  /\ UNCHANGED <<log, status, tx, open, stream, wire, late>>

\* The request fails, or is refused without a session: the view stops.
FetchFails ==
  /\ Fetching
  /\ view' = [view EXCEPT !.at = "over"]
  /\ UNCHANGED <<log, status, tx, open, stream, wire, late>>

\* A decision, or resume: the view polls the run again.
Reopen ==
  /\ view.at = "over" /\ open
  /\ view' = [view EXCEPT !.at = "polling"]
  /\ UNCHANGED <<log, status, tx, open, stream, wire, late>>

Next ==
  \/ \E w \in Writers : Allocate(w) \/ Commit(w) \/ Rollback(w)
  \/ EndSession \/ Check \/ ReadPage
  \/ ReceiveNode \/ ReceiveDone \/ Cut \/ ReadRun \/ ShowRun \/ FetchFails \/ Reopen

Spec == Init /\ [][Next]_vars

-----------------------------------------------------------------------------
\* A status that is shown as where the run has come to has all its events with
\* it: whatever is committed while pages are read, lost with a connection or
\* sent twice, the view has every event up to the moment its status was read, in
\* order and once (_event, events, Store.run); and a session that has ended is
\* told one more page at most.
EventsComplete ==
  /\ \A i \in DOMAIN view.events : view.events[i] = i - 1
  /\ view.at \in {"finishing", "over"} => Len(view.events) >= view.due
  /\ late <= Page
=============================================================================
