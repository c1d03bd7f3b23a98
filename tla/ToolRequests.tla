---------------------------- MODULE ToolRequests ----------------------------
(***************************************************************************)
(* How a tool's request is built, checked, reviewed and sent while its     *)
(* connection may be edited (tool_service.py, worker.py), and what a Jira  *)
(* answer is turned into (jira_items).                                     *)
(*                                                                         *)
(* One call of one tool.  Every look at the saved connection is a step of  *)
(* its own, since the pages edit it in another process.  A text of the     *)
(* request is the same each time it is built; what the approval and the    *)
(* marker remember across attempts is ExternalWrite's.                     *)
(***************************************************************************)
EXTENDS Integers, Sequences, SequencesExt

CONSTANTS
  Names, Endpoints, Secrets,  \* what a connection may hold besides its sender; no secret is 0
  MaxEdits,                   \* edits of the connection, in all
  MaxItems, Budget            \* the issues kept of a Jira answer, and the bytes

\* Every tool with its operation, or its method.
Calls ==
  UNION {{"http"} \X {"GET", "POST", "PUT", "PATCH", "DELETE"}, {"email"} \X {"SEND"},
         {"jira"} \X {"search", "get_issue", "create_issue", "comment"},
         {"confluence"} \X {"search", "get_page", "create_page"},
         {"github"} \X {"get_issue", "list_issues", "create_issue", "comment"}}

IsWrite(call) ==
  \/ call[1] = "email"
  \/ call[1] = "http" /\ call[2] # "GET"
  \/ call[2] \in {"create_issue", "comment", "create_page"}

\* The method of the request prepared; a Jira or Confluence write is what is
\* left after the readings, a GitHub comment what is left after the others.
Method(call) ==
  CASE call[1] \in {"http", "email"} -> call[2]
    [] call[1] = "github" -> IF call[2] \in {"get_issue", "list_issues"} THEN "GET" ELSE "POST"
    [] call[1] = "jira" -> IF call[2] \in {"search", "get_issue"} THEN "GET" ELSE "POST"
    [] OTHER -> IF call[2] \in {"search", "get_page"} THEN "GET" ELSE "POST"

-----------------------------------------------------------------------------
VARIABLES
  connection,  \* as saved
  edits,
  tool,        \* the call, whether its node allows writes and whether it waits for a person
  step,        \* how many of the plan's steps are done
  prepared,    \* the request last built
  reviewed,    \* the request a person was shown, once there is one
  sent,        \* requests that left, with the connection as it was saved then
  outcome,
  raced,       \* whether an edit came since the settings were last checked
  late         \* and since they were last checked before an intent to send was recorded

vars == <<connection, edits, tool, step, prepared, reviewed, sent, outcome, raced, late>>

Connections == [name : Names, endpoint : Endpoints, secret : Secrets, sender : BOOLEAN]
Nothing == <<>>

\* Email is the only provider whose messages name the sender.
Payload(c) == IF tool.call[1] = "email" THEN <<c.endpoint, c.sender>> ELSE <<c.endpoint>>
Request(c) == [connection |-> c, payload |-> Payload(c), raced |-> raced]

Allowed(c) ==
  /\ IsWrite(tool.call) => tool.writes
  /\ tool.call[1] = "email" => c.sender

Building == <<"check", "read">>
Plan ==
  <<"check">> \o Building \o
  CASE ~IsWrite(tool.call) -> <<"send">>
    [] IsWrite(tool.call) /\ tool.gated -> <<"pause", "check">> \o Building \o <<"compare", "begin", "send">>
    [] OTHER -> <<"mark">> \o Building \o <<"send">>

\* Where an attempt starts, and whether an intent to send is on record.
Attempt == IF reviewed # Nothing THEN 4 ELSE 0
Intended == \E i \in 1 .. step : Plan[i] \in {"begin", "mark"}

Init ==
  /\ connection \in Connections /\ edits = 0
  /\ tool \in [call : {<<"http", "GET">>, <<"http", "POST">>, <<"email", "SEND">>}, writes : BOOLEAN, gated : BOOLEAN]
  /\ step = 0 /\ prepared = Nothing /\ reviewed = Nothing /\ sent = {} /\ outcome = "none"
  /\ raced = FALSE /\ late = FALSE

\* What a save leaves: without a new secret the old one stays.
Saved(old, given) == IF given.secret = 0 THEN [given EXCEPT !.secret = old.secret] ELSE given

Edit ==
  /\ edits < MaxEdits /\ edits' = edits + 1
  /\ \E given \in [name : Names, endpoint : Endpoints, secret : Secrets \cup {0}, sender : BOOLEAN] :
       connection' = Saved(connection, given)
  /\ raced' = TRUE /\ late' = TRUE
  /\ UNCHANGED <<tool, step, prepared, reviewed, sent, outcome>>

Takes(name) == outcome = "none" /\ step < Len(Plan) /\ Plan[step + 1] = name

\* A refusal is an ordinary error until an intent was recorded.
Refuse ==
  /\ outcome' = IF Intended THEN "uncertain" ELSE "refused"
  /\ UNCHANGED <<connection, edits, tool, step, prepared, reviewed, sent, raced, late>>
Continue(rest) == step' = step + 1 /\ UNCHANGED <<connection, edits, tool, sent, outcome, rest>>

Check ==
  /\ Takes("check")
  /\ IF Allowed(connection) THEN raced' = FALSE /\ late' = (late /\ Intended) /\ Continue(<<prepared, reviewed>>)
     ELSE Refuse
Read == Takes("read") /\ prepared' = Request(connection) /\ Continue(<<reviewed, raced, late>>)

\* The attempt ends; a person approves what is shown and another one starts.
Pause == Takes("pause") /\ reviewed' = prepared /\ Continue(<<prepared, raced, late>>)

\* Mutant: only the destination is compared with the one that was saved.
StillSavedByPayload(request) == Payload(connection) = request.payload

StillSaved(request) == connection = request.connection
Compare ==
  /\ Takes("compare")
  /\ IF prepared.payload = reviewed.payload /\ StillSaved(reviewed)
     THEN Continue(<<prepared, reviewed, raced, late>>) ELSE Refuse
Intend ==
  /\ Takes("begin") \/ Takes("mark")
  /\ Continue(<<prepared, reviewed, raced, late>>)

\* What an answer of the provider, or the lack of one, becomes.
Answers == {"ok", "error", "busy", "large", "unreachable"}
Taken(answer) ==
  IF answer = "ok" THEN "done"
  ELSE IF IsWrite(tool.call) THEN "uncertain"
  ELSE IF answer \in {"busy", "unreachable"} THEN "transient" ELSE "failed"

Sending == IF reviewed # Nothing THEN reviewed ELSE prepared
Send ==
  /\ Takes("send")
  /\ IF StillSaved(Sending)
     THEN /\ sent' = sent \cup {[request |-> Sending, with |-> Sending.connection, saved |-> connection]}
          /\ \E answer \in Answers : outcome' = Taken(answer)
          /\ step' = step + 1
          /\ UNCHANGED <<connection, edits, tool, prepared, reviewed, raced, late>>
     ELSE Refuse

\* The process ends before anything was intended, or a reading is repeated by
\* its node: another attempt.
Again ==
  /\ step > Attempt
  /\ \/ outcome = "none" /\ ~Intended
     \/ outcome = "transient"
  /\ step' = Attempt /\ outcome' = "none"
  /\ UNCHANGED <<connection, edits, tool, prepared, reviewed, sent, raced, late>>

Next == Edit \/ Check \/ Read \/ Pause \/ Compare \/ Intend \/ Send \/ Again

Spec == Init /\ [][Next]_vars

-----------------------------------------------------------------------------
\* What is sent goes to the destination, with the secret and from the sender
\* that were saved when it was checked last, and for a reviewed request also
\* to those the person was shown (execute_prepared, tool_service.py:285;
\* worker.py:171-184).
SentAsReviewed ==
  \A s \in sent :
    /\ s.with = s.saved /\ s.request.payload = Payload(s.with)
    /\ reviewed # Nothing => s.request.payload = reviewed.payload /\ s.with = reviewed.connection
    /\ IsWrite(tool.call) => tool.writes /\ (tool.gated => reviewed # Nothing)

\* A write that was refused did not leave.  When one is called uncertain although
\* nothing left, its connection was edited after it was last in order before the
\* intent was recorded: what stops it then is too late to say so
\* (worker.py:183-186, :199-204).
UncertainForCause ==
  /\ outcome = "refused" /\ IsWrite(tool.call) => sent = {}
  /\ outcome = "uncertain" /\ sent = {} => late

\* A message without a sender is built only when the connection was edited
\* between the check and the read that follows it (tool_service.py:239-242).
SenderChecked == \A s \in sent : tool.call[1] = "email" /\ ~s.with.sender => s.request.raced

\* The requests that change something are exactly those held to be writes, which
\* is what consent, review, retries and the reviews of decisions go by
\* (is_write and prepare, tool_service.py:97, :236).
WritesAreKnown == \A call \in Calls : IsWrite(call) <=> Method(call) # "GET"

-----------------------------------------------------------------------------
(***************************************************************************)
(* What the nodes after a Jira reading are given.  An answer has a shape,  *)
(* the bytes of its text, its rows (the bytes of an item, 0 for a row that *)
(* is not an issue), whether a token or a flag says that more pages exist, *)
(* and the total when it tells one (-1 when not).                          *)
(***************************************************************************)
Fits(result, row) == result.bytes + row + (IF result.items = <<>> THEN 0 ELSE 2) <= Budget - result.text

Unread(answer) == [text |-> answer.text, bytes |-> 2, items |-> <<>>, skipped |-> 0, causes |-> {"unreadable"}]
Empty(answer) == [Unread(answer) EXCEPT !.causes = {}]

Stopped(result) == result.causes # {}
Take(result, row) ==
  CASE Stopped(result) -> result
    [] ~Stopped(result) /\ row = 0 -> [result EXCEPT !.skipped = @ + 1]
    [] ~Stopped(result) /\ row > 0 /\ Len(result.items) >= MaxItems -> [result EXCEPT !.causes = {"limit"}]
    [] ~Stopped(result) /\ row > 0 /\ Len(result.items) < MaxItems /\ ~Fits(result, row) -> [result EXCEPT !.causes = {"budget"}]
    [] OTHER -> [result EXCEPT !.items = Append(@, row), !.bytes = @ + row + (IF result.items = <<>> THEN 0 ELSE 2)]

More(answer) == answer.token \/ answer.last = "no" \/ answer.total > Len(answer.rows)

Projected(operation, answer) ==
  LET rows == FoldLeft(Take, Empty(answer), answer.rows)
  IN CASE operation = "write" -> Empty(answer)
       [] operation # "write" /\ answer.shape = "unreadable" -> Unread(answer)
       [] operation = "search" /\ answer.shape = "rows" /\ More(answer) -> [rows EXCEPT !.causes = @ \cup {"pages"}]
       [] OTHER -> rows

Truncated(result) == result.causes # {} \/ result.skipped > 0

\* The number of issues the reason says there are; 0 when it says that more exist.
Available(answer, result) ==
  LET available == IF "pages" \in result.causes /\ answer.total >= 0 THEN answer.total ELSE Len(answer.rows)
  IN IF available > Len(result.items) THEN available ELSE 0

\* With `rest' matching issues on other pages, which the answer tells somehow: a
\* result that is not called truncated has them all; the items kept are the first
\* issues, and with the text they stay within the size both share; and the number
\* of issues told is right unless further pages are only hinted at, when it is
\* what this page holds (jira_items, tool_service.py:101-156).
ItemsTell(operation, answer, rest) ==
  LET result == Projected(operation, answer)
      issues == SelectSeq(answer.rows, LAMBDA row : row > 0)
      told == Available(answer, result)
  IN operation # "write" =>
     /\ ~Truncated(result) => answer.shape = "rows" /\ result.items = answer.rows /\ (operation = "search" => rest = 0)
     /\ result.items = SubSeq(issues, 1, Len(result.items)) /\ Len(result.items) <= MaxItems
     /\ result.items # <<>> => answer.text + result.bytes <= Budget
     /\ result.causes # {"unreadable"} /\ Truncated(result) /\ told # 0 =>
          told = Len(answer.rows) + (IF operation = "search" /\ answer.total >= 0 THEN rest ELSE 0)
     /\ "pages" \notin result.causes /\ result.causes # {"unreadable"} /\ Truncated(result) => told # 0
=============================================================================
