----------------------------- MODULE ModelCalls -----------------------------
(***************************************************************************)
(* Calls to a model provider: their HTTP attempts, retries and token       *)
(* counts (providers.py), and what a run adds up of them (registry.py).    *)
(* The provider is the environment: it counts truly what it counts at all, *)
(* and charges nothing for a request it answers with an error status.      *)
(***************************************************************************)
EXTENDS Integers, FiniteSets

CONSTANTS
  Attempts,   \* tries per call
  MaxCalls,   \* bound on the calls of the run
  MaxTokens   \* bound on each count

VARIABLES
  provider,   \* of the run's model: Claude reports its input in disjoint parts
  stage,      \* "idle", "ready" (an attempt may start), "sending"
  attempt,    \* attempts made by this call
  usage,      \* CallUsage
  totals,     \* the node's totals: account_usage
  made,       \* calls made
  charged,    \* the tokens providers processed
  lost        \* tokens of attempts of which no response came back

vars == <<provider, stage, attempt, usage, totals, made, charged, lost>>

-----------------------------------------------------------------------------
\* A count that is reported, or one that is absent or unusable.
Absent == -1
Bad == -2
Count(value) == value >= 0
Known(value) == IF Count(value) THEN value ELSE 0

NewUsage ==
  [dispatched |-> 0, undelivered |-> 0, received |-> FALSE, valid |-> 0, complete |-> TRUE,
   prompt |-> 0, completion |-> 0, cache |-> 0]

\* CallUsage.status
Status(u) ==
  CASE u.received /\ u.valid = 0 -> "unreported"
    [] u.received /\ u.valid = 2 /\ u.complete -> "reported"
    [] u.received /\ u.valid # 0 /\ ~(u.valid = 2 /\ u.complete) -> "partial"
    [] ~u.received /\ u.dispatched > u.undelivered -> "unanswered"
    [] OTHER -> "nothing"

\* Mutant: the cache is added to a prompt that holds it already.
InputTwice(body) ==
  [tokens |-> IF Count(body.base) THEN body.base + Known(body.read) + Known(body.write) ELSE Absent,
   cache |-> Known(body.read) + Known(body.write), complete |-> Count(body.base) /\ Bad \notin {body.read, body.write}]

\* _claude_input: a prompt is what precedes, reads and writes the cache.
\* _cache_parts: elsewhere the cache is part of the prompt, or is dropped.
Input(body) ==
  LET parts == {body.read, body.write} IN
  IF provider = "claude"
  THEN [tokens |-> IF \E v \in {body.base} \cup parts : Count(v)
                   THEN Known(body.base) + Known(body.read) + Known(body.write) ELSE Absent,
        cache |-> Known(body.read) + Known(body.write),
        complete |-> Count(body.base) /\ Bad \notin parts]
  ELSE LET cached == Known(body.read) + Known(body.write)
       IN  [tokens |-> body.base, complete |-> TRUE,
            cache |-> IF Count(body.base) /\ Bad \notin parts /\ cached <= body.base THEN cached ELSE 0]

\* record_usage
Recorded(u, body) ==
  LET input == Input(body) IN
  [u EXCEPT !.received = TRUE, !.complete = input.complete,
            !.valid = Cardinality({k \in {1, 2} : Count(<<input.tokens, body.out>>[k])}),
            !.prompt = @ + Known(input.tokens), !.completion = @ + Known(body.out), !.cache = @ + input.cache]

\* account_usage: a call counts once, whatever its retries.
Accounted(u) ==
  LET status == Status(u)
      one(s) == IF s = status THEN 1 ELSE 0
  IN
  IF status = "nothing" THEN totals
  ELSE [prompt |-> totals.prompt + u.prompt, completion |-> totals.completion + u.completion,
        cache |-> totals.cache + u.cache, calls |-> totals.calls + 1 - one("unanswered"),
        partial |-> totals.partial + one("partial"), unreported |-> totals.unreported + one("unreported"),
        unanswered |-> totals.unanswered + one("unanswered")]

\* The call ends, with an answer or an error.
Ends(u) ==
  /\ usage' = NewUsage /\ totals' = Accounted(u)
  /\ stage' = "idle" /\ attempt' = 0

\* ProviderBusy: with_retries tries again, up to its limit.
Busy(u) ==
  IF attempt = Attempts THEN Ends(u)
  ELSE stage' = "ready" /\ usage' = u /\ UNCHANGED <<attempt, totals>>

-----------------------------------------------------------------------------
\* call_model: a request whose preparation fails is not sent.
Call ==
  /\ stage = "idle" /\ made < MaxCalls
  /\ made' = made + 1 /\ stage' = "ready"
  /\ UNCHANGED <<provider, attempt, usage, totals, charged, lost>>
Unprepared ==
  /\ stage = "ready" /\ Ends(usage)
  /\ UNCHANGED <<provider, made, charged, lost>>

\* _send
Send ==
  /\ stage = "ready"
  /\ stage' = "sending" /\ attempt' = attempt + 1 /\ usage' = [usage EXCEPT !.dispatched = @ + 1]
  /\ UNCHANGED <<provider, totals, made, charged, lost>>

\* No connection carried the request: a timeout is retried, an error is not.
Unconnected ==
  /\ stage = "sending"
  /\ LET u == [usage EXCEPT !.undelivered = @ + 1] IN Busy(u) \/ Ends(u)
  /\ UNCHANGED <<provider, made, charged, lost>>

\* The connection is lost, or times out, or the run is cancelled; what the
\* provider made of the request is not known.
Spends(prompt, out) ==
  charged' = [prompt |-> charged.prompt + prompt, completion |-> charged.completion + out]
Lost ==
  /\ stage = "sending"
  /\ Busy(usage) \/ Ends(usage)
  /\ \E prompt, out \in {0, MaxTokens} : Spends(prompt, out) /\ lost' = lost + prompt + out
  /\ UNCHANGED <<provider, made>>

\* CancelledError between two attempts.
Cancelled ==
  /\ stage = "ready" /\ attempt > 0 /\ Ends(usage)
  /\ UNCHANGED <<provider, made, charged, lost>>

\* A response with an error status: some are retried.
Refused ==
  /\ stage = "sending"
  /\ LET u == [usage EXCEPT !.received = TRUE] IN Busy(u) \/ Ends(u)
  /\ UNCHANGED <<provider, made, charged, lost>>

\* A complete response.  Without usage metadata that can be read it is refused
\* before any count is taken; its text is judged after.  A prompt or completion
\* that cannot be used is taken as one that is absent.
Reports(n) == {n, Bad} \cup (IF n = 0 THEN {Absent} ELSE {})
Answered ==
  /\ stage = "sending"
  /\ \E base, read, write, out \in 0 .. MaxTokens :
       /\ Spends(IF provider = "claude" THEN base + read + write ELSE base, out)
       /\ \/ Ends([usage EXCEPT !.received = TRUE])
          \/ \E body \in [base : {base, Bad}, out : {out, Bad}, read : Reports(read), write : Reports(write)] :
               Ends(Recorded(usage, body))
  /\ UNCHANGED <<provider, made, lost>>

-----------------------------------------------------------------------------
Init ==
  /\ provider \in {"claude", "other"}
  /\ stage = "idle" /\ attempt = 0 /\ usage = NewUsage /\ made = 0 /\ lost = 0
  /\ totals = [prompt |-> 0, completion |-> 0, cache |-> 0, calls |-> 0, partial |-> 0, unreported |-> 0, unanswered |-> 0]
  /\ charged = [prompt |-> 0, completion |-> 0]

Next == Call \/ Unprepared \/ Send \/ Unconnected \/ Lost \/ Cancelled \/ Refused \/ Answered

Spec == Init /\ [][Next]_vars

-----------------------------------------------------------------------------
\* usageLabel: how the page shows the totals of a node.
Label(t) ==
  CASE t.calls + t.unanswered = 0 -> "none"
    [] t.calls = 0 /\ t.unanswered > 0 -> "tokens unknown"
    [] t.calls > 0 /\ t.partial + t.unreported + t.unanswered = 0 -> "exact"
    [] t.unreported = t.calls /\ t.calls > 0 /\ t.unanswered = 0 /\ t.prompt + t.completion = 0 -> "not reported"
    [] OTHER -> "incomplete"

\* What a run adds up is never more than was spent, and the cache is never more
\* than the prompts it is part of.  Counts that the page shows without a warning
\* are what was spent, but for attempts that were lost in calls which were then
\* answered in full; where it shows none, none was reported; and where it shows
\* nothing at all, nothing was spent (registry.py:161-219, usageLabel).
TotalsTell ==
  stage = "idle" =>
    /\ totals.prompt <= charged.prompt /\ totals.completion <= charged.completion
    /\ totals.cache <= totals.prompt
    /\ CASE Label(totals) = "none" -> charged = [prompt |-> 0, completion |-> 0]
         [] Label(totals) = "exact" ->
              /\ totals.prompt + totals.completion + lost >= charged.prompt + charged.completion
              /\ lost = 0 => totals.prompt = charged.prompt /\ totals.completion = charged.completion
         [] Label(totals) \in {"tokens unknown", "not reported"} -> totals.prompt + totals.completion = 0
         [] Label(totals) = "incomplete" -> TRUE
=============================================================================
