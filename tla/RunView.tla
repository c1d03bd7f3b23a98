------------------------------ MODULE RunView -------------------------------
(***************************************************************************)
(* The run that a browser shows (workflow-editor.tsx): it is started,      *)
(* followed over its event stream or by polling, decided on, resumed and   *)
(* replaced by another while answers are under way, which come in any      *)
(* order or fail.                                                          *)
(***************************************************************************)
EXTENDS Integers, FiniteSets

CONSTANTS
  Runs,        \* run ids, numbered
  MaxPending   \* Bound: requests under way

VARIABLES
  server,   \* the status of each run
  run,      \* the run shown, with the status it is shown in
  events,   \* the runs whose events are shown
  running,  \* is editing disabled, as a run goes on?
  busy,     \* is an operation under way that disables the buttons?
  active,   \* activeRun: the run that answers are awaited for
  stream,   \* source: the run whose stream was opened, and whether it is open
  pending,  \* requests, with their answers; same: the view was not cleared since
  crossed   \* was a start or a resume answered after the view was cleared,
            \* or the view cleared while a run went on?

view == <<run, events, running, active, stream>>
vars == <<server, view, busy, pending, crossed>>

None == 0
NoRun == [id |-> None, status |-> "none"]
NoStream == [id |-> None, open |-> FALSE]
Waiting == "waiting"
Failed == "failed"
Goes(status) == status = "running"   \* or queued

Request(kind, id) == [kind |-> kind, id |-> id, answer |-> Waiting, same |-> TRUE, busy |-> FALSE]
Asks(kind, id) == Cardinality(pending) < MaxPending /\ pending' = pending \cup {Request(kind, id)}
Turns(request, requests) == pending' = (pending \ {request}) \cup requests

-----------------------------------------------------------------------------
(* The server. *)

\* A run ends, or waits for a decision.
Work ==
  /\ \E id \in Runs, to \in {"awaiting_approval", "over"} :
       Goes(server[id]) /\ server' = [server EXCEPT ![id] = to]
  /\ UNCHANGED <<view, busy, pending, crossed>>

\* A request is served, or fails before or after it was.
Serves(request) ==
  LET id == request.id  now == server[id]
      to == CASE request.kind = "start" -> "running"
              [] request.kind = "resume" /\ now = "over" -> "running"
              [] request.kind = "approve" /\ now = "awaiting_approval" -> "running"
              [] request.kind = "reject" /\ now = "awaiting_approval" -> "over"
              [] OTHER -> now
      refused == request.kind \in {"resume", "approve", "reject"} /\ to = now
  IN  /\ server' = IF id = None THEN server ELSE [server EXCEPT ![id] = to]
      /\ \E answer \in {Failed} \cup (IF refused THEN {} ELSE {IF id = None THEN "ok" ELSE to}) :
           Turns(request, {[request EXCEPT !.answer = answer]})
Served(request) ==
  /\ request.answer = Waiting /\ request.kind # "timer"
  /\ \/ Serves(request)
     \/ Turns(request, {[request EXCEPT !.answer = Failed]}) /\ UNCHANGED server
  /\ UNCHANGED <<view, busy, crossed>>

-----------------------------------------------------------------------------
(* The view. *)

Unsame(requests) == {[r EXCEPT !.same = FALSE] : r \in requests}
ClearRun(next) == run' = NoRun /\ events' = {} /\ stream' = NoStream /\ active' = next

Show(id, status) == run' = [id |-> id, status |-> status]

\* startRun: the answer of the validation, then of the request.
Start == ~busy /\ ~running /\ busy' = TRUE /\ Asks("validate", None) /\ UNCHANGED <<server, view, crossed>>
Validated(r) ==
  /\ IF r.answer = Failed THEN busy' = FALSE /\ Turns(r, {}) /\ UNCHANGED <<server, view>>
     ELSE /\ \E id \in {i \in Runs : server[i] = "none"} :
               pending' = Unsame(pending \ {r}) \cup {Request("start", id)}
          /\ ClearRun(None) /\ UNCHANGED <<server, running, busy>>
  /\ crossed' = (crossed \/ (running /\ r.answer # Failed))
Started(r) ==
  /\ busy' = FALSE /\ Turns(r, {}) /\ UNCHANGED <<server, events>>
  /\ IF r.answer = Failed THEN UNCHANGED <<run, running, active, stream, crossed>>
     ELSE /\ Show(r.id, "running") /\ running' = TRUE /\ active' = r.id
          /\ stream' = [id |-> r.id, open |-> TRUE] /\ crossed' = (crossed \/ ~r.same)

\* An event of the stream that is open.
NodeEvent ==
  /\ stream.open /\ events' = events \cup {stream.id}
  /\ UNCHANGED <<server, run, running, active, stream, busy, pending, crossed>>
\* The stream ends with the run, or breaks.
StreamEnds ==
  /\ stream.open /\ stream' = [stream EXCEPT !.open = FALSE]
  /\ \/ ~Goes(server[stream.id]) /\ Asks("finish", stream.id)
     \/ Asks("recover", stream.id)
  /\ UNCHANGED <<server, run, events, running, active, busy, crossed>>

LetsOn == running' = FALSE /\ active' = None

\* finish of the stream that is followed: the run is shown, then the history is
\* read again, and in any case somebody is let on.
SameStream(r) == stream.id = r.id
Finished(r) ==
  /\ UNCHANGED <<server, stream, busy, crossed>>
  /\ IF SameStream(r) /\ r.answer # Failed
     THEN Show(r.id, r.answer) /\ events' = {r.id} /\ Turns(r, {Request("listing", r.id)}) /\ UNCHANGED <<running, active>>
     ELSE /\ Turns(r, {}) /\ UNCHANGED <<run, events>>
          /\ IF SameStream(r) THEN LetsOn ELSE UNCHANGED <<running, active>>
Listed(r) ==
  /\ Turns(r, {}) /\ UNCHANGED <<server, run, events, stream, busy, crossed>>
  /\ IF SameStream(r) THEN LetsOn ELSE UNCHANGED <<running, active>>

\* Mutant: an answer is taken for whatever run is shown.
Wanted(r) == TRUE
Awaited(r) == active = r.id
\* recoverRun: the status, and again in a second while it goes on, or else the
\* history.  A failure of either is not asked which run it is about.
Ends(r) == Turns(r, {}) /\ busy' = (busy /\ ~r.busy)
Recovered(r) ==
  /\ UNCHANGED <<server, stream, crossed>>
  /\ IF r.answer = Failed THEN LetsOn /\ Ends(r) /\ UNCHANGED <<run, events>>
     ELSE IF ~Awaited(r) THEN Ends(r) /\ UNCHANGED <<run, events, running, active>>
     ELSE /\ Show(r.id, r.answer) /\ events' = {r.id}
          /\ IF Goes(r.answer)
             THEN /\ Turns(r, {Request("timer", r.id)}) /\ busy' = (busy /\ ~r.busy) /\ UNCHANGED <<running, active>>
             ELSE LetsOn /\ Turns(r, {[Request("page", r.id) EXCEPT !.busy = r.busy]}) /\ UNCHANGED busy
Paged(r) ==
  /\ Ends(r) /\ UNCHANGED <<server, run, events, stream, crossed>>
  /\ IF r.answer = Failed THEN LetsOn ELSE UNCHANGED <<running, active>>
Timer(r) ==
  /\ Turns(r, IF Awaited(r) THEN {Request("recover", r.id)} ELSE {})
  /\ UNCHANGED <<server, view, busy, crossed>>

\* decideApproval: whatever the answer is, the status is read again.
Decide(kind) ==
  /\ ~busy /\ ~running /\ run.status = "awaiting_approval" /\ busy' = TRUE
  /\ Asks(kind, run.id) /\ UNCHANGED <<server, view, crossed>>
Decided(r) ==
  /\ UNCHANGED <<server, run, events, stream, crossed>>
  /\ IF ~r.same THEN busy' = FALSE /\ Turns(r, {}) /\ UNCHANGED <<running, active>>
     ELSE /\ active' = r.id /\ running' = IF r.answer = Failed THEN running ELSE r.kind = "approve"
          /\ Turns(r, {[Request("recover", r.id) EXCEPT !.busy = TRUE]}) /\ UNCHANGED busy

Resume ==
  /\ ~busy /\ ~running /\ run.status = "over" /\ busy' = TRUE
  /\ Asks("resume", run.id) /\ UNCHANGED <<server, view, crossed>>
Resumed(r) ==
  /\ busy' = FALSE /\ UNCHANGED <<server, events, stream>>
  /\ IF r.answer = Failed THEN Turns(r, {}) /\ UNCHANGED <<run, running, active, crossed>>
     ELSE /\ Show(r.id, "running") /\ running' = TRUE /\ active' = r.id
          /\ Turns(r, {Request("recover", r.id)}) /\ crossed' = (crossed \/ ~r.same)

\* showRun, from the history.
Open(id) ==
  /\ ~running /\ server[id] # "none"
  /\ ClearRun(id)
  /\ Cardinality(pending) < MaxPending /\ pending' = Unsame(pending) \cup {Request("show", id)}
  /\ crossed' = FALSE /\ UNCHANGED <<server, running, busy>>
Opened(r) ==
  /\ UNCHANGED <<server, active, stream, busy, crossed>>
  /\ IF r.answer = Failed \/ ~Awaited(r) THEN Turns(r, {}) /\ UNCHANGED <<run, events, running>>
     ELSE /\ Show(r.id, r.answer) /\ events' = {r.id} /\ running' = Goes(r.answer)
          /\ Turns(r, IF Goes(r.answer) THEN {Request("recover", r.id)} ELSE {})

\* A document is loaded or imported: it takes the run's place when it arrives.
Load == ~running /\ Asks("load", None) /\ UNCHANGED <<server, view, busy, crossed>>
Loaded(r) ==
  /\ UNCHANGED <<server, running, busy>>
  /\ IF r.answer = Failed THEN Turns(r, {}) /\ UNCHANGED <<run, events, active, stream, crossed>>
     ELSE ClearRun(None) /\ pending' = Unsame(pending \ {r}) /\ crossed' = (crossed \/ running)

Init ==
  /\ server \in [Runs -> {"none", "awaiting_approval", "over"}]
  /\ run = NoRun /\ events = {} /\ running = FALSE /\ busy = FALSE /\ active = None
  /\ stream = NoStream /\ pending = {} /\ crossed = FALSE

Answers(r) ==
  CASE r.kind = "validate" -> Validated(r)
    [] r.kind = "start" -> Started(r)
    [] r.kind = "finish" -> Finished(r)
    [] r.kind = "listing" -> Listed(r)
    [] r.kind = "recover" -> Recovered(r)
    [] r.kind = "page" -> Paged(r)
    [] r.kind = "timer" -> Timer(r)
    [] r.kind \in {"approve", "reject"} -> Decided(r)
    [] r.kind = "resume" -> Resumed(r)
    [] r.kind = "show" -> Opened(r)
    [] r.kind = "load" -> Loaded(r)

Next ==
  \/ Work \/ NodeEvent \/ StreamEnds
  \/ Start \/ Resume \/ Load \/ \E kind \in {"approve", "reject"} : Decide(kind)
  \/ \E id \in Runs : Open(id)
  \/ \E r \in pending : Served(r) \/ ((r.answer # Waiting \/ r.kind = "timer") /\ Answers(r))

Spec == Init /\ [][Next]_vars

-----------------------------------------------------------------------------
\* The events under a run are its own, whichever answers come late: those of a
\* run that was replaced are dropped.  Only what starts or resumes a run does not
\* look whether another was opened in the meantime (crossed).
EventsOfRun == ~crossed => events \subseteq {run.id}

\* Editing is not left disabled: while it is, the stream of the run is open, or a
\* request is under way whose answer, even a failure, lets somebody on.  Only a
\* document that was asked for before the run and arrives after it leaves it so.
Followed ==
  ~crossed /\ running =>
    /\ active # None
    /\ \/ stream = [id |-> active, open |-> TRUE]
       \/ \E r \in pending : r.id = active /\ r.kind \in {"finish", "listing", "recover", "timer"}

\* Buttons are not left disabled: an operation under way ends.
BusyEnds == busy =>
  \E r \in pending : r.kind \in {"validate", "start", "approve", "reject", "resume"} \/ r.busy
=============================================================================
