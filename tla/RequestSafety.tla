---------------------------- MODULE RequestSafety ----------------------------
(***************************************************************************)
(* Who may decide and write in a contract-2 run: a reading of the request  *)
(* is verified by code or confirmed by a person, values derived from it    *)
(* inherit that authority, and a decision on anything else is a person's.  *)
(* One chain: trigger, extract and verify (or the request reader in their  *)
(* place), fetch, derive, decide, write.  A value is the set of what it is *)
(* made of.                                                                *)
(***************************************************************************)
EXTENDS Naturals, Sequences, FiniteSets

CONSTANT MaxClaims  \* bound: attempts at the run

Flow == <<"extract", "verify", "fetch", "derive", "decide", "write">>
Nodes == {"extract", "verify", "fetch", "derive", "decide", "write"}

Readings == {{"stated"}, {"stated", "large"}, {"unsure"}, {"empty"}, {"stated", "unrelated"}}

\* What an extraction check of a reading reports.
Verdict(v) ==
  IF "unsure" \in v THEN "needs_review" ELSE IF "empty" \in v THEN "clarify" ELSE "passed"

Trusted == {"source", "calculated"}

Put(f, n, x) == [m \in DOMAIN f \cup {n} |-> IF m = n THEN x ELSE f[m]]

-----------------------------------------------------------------------------
(***************************************************************************)
(* A workflow w: reader says which entry it has; derive and decide have a  *)
(* kind; on names the node or nodes that each one's inputs are bound to.   *)
(***************************************************************************)
Inputs(w, n) ==
  CASE n = "verify" -> IF w.reader THEN {"trigger"} ELSE {"extract"}
    [] n \in {"derive", "decide", "write"} -> w.on[n]
    [] OTHER -> {"trigger"}

\* checked_dependency: the verifier's text, or what is built only from it.
CheckedDependency(w, n) ==
  LET checked[r \in Nodes \cup {"trigger"}] ==
        \/ r = "verify"
        \/ /\ r = "derive" \/ (r = "decide" /\ w.decide = "check")
           /\ \A i \in Inputs(w, r) : checked[i]
  IN checked[n]

UncheckedModelInput(w, n) ==
  LET model[r \in Nodes \cup {"trigger"}] ==
        CASE r = "extract" -> TRUE
          [] r \in {"verify", "trigger"} -> FALSE
          [] OTHER -> \E i \in Inputs(w, r) : model[i]
  IN model[n]

\* static_label: known to be trusted from the graph alone.
StaticTrusted(w, n) == n = "trigger" \/ (n = "derive" /\ w.on["derive"] = {"trigger"})

SwitchInputAllowed(w, n) ==
  CheckedDependency(w, n) \/ (StaticTrusted(w, n) /\ ~UncheckedModelInput(w, n))

\* request_contract_errors finds nothing.
Valid(w) ==
  /\ \A r \in w.on["write"] : CheckedDependency(w, r)
  /\ \A r \in w.on["decide"] :
       IF w.decide = "switch" THEN SwitchInputAllowed(w, r) ELSE ~UncheckedModelInput(w, r)

Drawings ==
  LET Before(n) == {"trigger", "verify", "fetch", "extract"} \cup (IF n = "derive" THEN {} ELSE {"derive"})
      Bound == [derive : {s \in SUBSET Before("derive") : Cardinality(s) \in {1, 2}},
                decide : {{r} : r \in Before("decide")},
                write : {{r} : r \in {"verify", "derive", "decide"}}]
  IN {w \in [reader : BOOLEAN, derive : {"prompt", "compute"},
             decide : {"condition", "check", "switch"}, on : Bound] :
        /\ w.reader => "extract" \notin w.on["derive"] \cup w.on["decide"]
        /\ w.derive = "compute" => Cardinality(w.on["derive"]) = 1
        /\ w.on["write"] = {"decide"} => w.decide = "check"
        /\ Valid(w)}

-----------------------------------------------------------------------------
VARIABLES
  drawing,  \* the saved workflow
  nulls,    \* its calculation finds a field missing in this run's input
  status,   \* of the run
  cancel,   \* cancel_requested
  claims,   \* attempts so far
  saved,    \* checkpoint of each completed node
  frame,    \* readings kept over a pause
  reviews,  \* rows of run_approvals, by the node that asked
  at,       \* next node of the chain, in the worker
  out,      \* outputs this attempt has, restored or new
  bound,    \* eligible_outputs of this attempt
  path,     \* control_reviews of this attempt
  reading,  \* the reader's answer, held in memory
  granted,  \* decision_reviews of this attempt
  cleared,  \* the write passed the eligibility check: what it goes by
  sent,     \* writes sent
  why       \* what the last refusal was about

memory == <<at, out, bound, path, reading, granted, cleared>>
vars == <<drawing, nulls, status, cancel, claims, saved, frame, reviews, memory, sent, why>>

Forget ==
  /\ at' = (IF drawing.reader THEN 2 ELSE 1)
  /\ out' = Put(<< >>, "trigger", [value |-> {"msg"}, label |-> "source"])
  /\ bound' = << >> /\ path' = {} /\ granted' = << >> /\ cleared' = << >>

Node == Flow[at]
Value(n) == out[n].value
Read(n) == UNION {Value(r) : r \in Inputs(drawing, n)}  \* resolved inputs
InputTrusted(n) == \A r \in Inputs(drawing, n) : out[r].label \in Trusted

\* checked_review and consume_review accept a row only while it stands.
Stands(n) == reviews[n].status = "completed" /\ ~reviews[n].lapsed /\ ~cancel
PathStands == \A n \in path : Stands(n)

\* The confirmations a binding rests on: the verifier's, and decisions in it.
RestsOn(b) == {n \in {"verify"} : saved["verify"].reviewed} \cup DOMAIN b.choices

\* binding_valid says yes; it raises when a confirmation no longer stands.
Proven(n) ==
  \E r \in Inputs(drawing, n) \cap DOMAIN bound :
    LET b == bound[r] IN
    /\ b.value = Value(r)
    /\ \A d \in DOMAIN b.choices : reviews[d].choice = b.choices[d]
Lapsed(n) ==
  \E r \in Inputs(drawing, n) \cap DOMAIN bound : \E d \in RestsOn(bound[r]) : ~Stands(d)

Deciding == drawing.decide \in {"condition", "check"}

\* evaluate and run(..., 'check'): a missing value is an error.
Errs(v) == "null" \in v
Holds(v) == "large" \notin v

NeedsDecision ==
  /\ Deciding
  /\ \/ ~Proven("decide") /\ ~InputTrusted("decide")
     \/ drawing.decide = "check" /\ (Errs(Read("decide")) \/ ~Holds(Read("decide")))

\* Mutant: a reading called unrelated goes on when its facts check out.
DoubtsFacts(v) == Verdict(v) = "needs_review"

NeedsPerson(v) == Verdict(v) = "needs_review" \/ (Verdict(v) = "passed" /\ "unrelated" \in v)

\* What the verifier checks: the reader its own reading, else the extraction.
ToVerify == IF drawing.reader THEN reading["now"] ELSE Read("verify")
CanVerify == drawing.reader => reading # << >>

Asks(n) ==
  \/ n = "verify" /\ CanVerify
     /\ IF drawing.reader THEN NeedsPerson(ToVerify) ELSE Verdict(ToVerify) = "needs_review"
  \/ n = "decide" /\ NeedsDecision
Payload(n) == IF n = "verify" THEN ToVerify ELSE Read("decide")

\* A step of the worker at a node that has no checkpoint yet, or has one.
Working(n) == status = "running" /\ at <= Len(Flow) /\ Node = n
Fresh(n) == Working(n) /\ n \notin DOMAIN saved

Fail(reason) ==
  /\ status' = "failed" /\ why' = reason
  /\ UNCHANGED <<drawing, nulls, cancel, claims, saved, frame, reviews, memory, sent>>

-----------------------------------------------------------------------------
\* What each node leaves: its value, its label, and the reviews behind it.
Derive ==
  LET r == Read("derive") IN
  IF drawing.derive = "compute" /\ nulls THEN [value |-> {"null"}, label |-> "absent"]
  ELSE [value |-> r \cup {drawing.derive},
        label |-> IF InputTrusted("derive") THEN "calculated" ELSE "guessed"]

Decision ==
  LET choice == IF "decide" \in DOMAIN granted THEN granted["decide"] ELSE Holds(Read("decide")) IN
  [value |-> {IF choice THEN "true" ELSE "false"}, choice |-> choice,
   label |-> IF "decide" \in DOMAIN granted THEN "guessed" ELSE "calculated",
   manual |-> "decide" \in DOMAIN granted]

\* finalize: a verifier's text is eligible, and what comes of an eligible input.
Inherits(n, o) ==
  IF n = "verify" THEN bound' = Put(bound, n, [value |-> o.value, choices |-> << >>])
  ELSE IF n = "derive" \/ (n = "decide" /\ drawing.decide = "check")
  THEN IF Proven(n)
       THEN bound' = Put(bound, n, [value |-> o.value,
              choices |-> IF n = "decide" /\ o.manual THEN Put(<< >>, n, o.choice) ELSE << >>])
       ELSE UNCHANGED bound
  ELSE UNCHANGED bound

\* The rest of finalize, and the next node: the chain ends on a reply or a no.
Finish(n, o) ==
  /\ Inherits(n, o)
  /\ out' = Put(out, n, o)
  /\ path' = path \cup (IF (n = "verify" /\ o.reviewed) \/ (n = "decide" /\ o.manual) THEN {n} ELSE {})
  /\ LET ends == \/ n = "verify" /\ Verdict(o.value) = "clarify"
                 \/ n = "decide" /\ drawing.decide # "check" /\ ~o.choice
     IN /\ at' = at + 1
        /\ status' = IF ends THEN "success" ELSE status
  /\ UNCHANGED <<drawing, nulls, cancel, claims, reviews, sent, why>>

\* Each outcome is saved before the next node starts.
Complete(n, o) ==
  /\ Finish(n, o)
  /\ saved' = Put(saved, n, o)
  /\ frame' = IF n = "verify" THEN << >> ELSE frame
  /\ UNCHANGED <<reading, granted, cleared>>

-----------------------------------------------------------------------------
\* Model and HTTP calls.
Extract == Fresh("extract") /\ \E v \in Readings :
  Complete("extract", [value |-> v, label |-> "guessed"])
Fetch == Fresh("fetch") /\ \E v \in {{"page"}, {"page", "large"}} :
  Complete("fetch", [value |-> v, label |-> "guessed"])
ReadRequest ==
  /\ Fresh("verify") /\ drawing.reader /\ reading = << >>
  /\ \E v \in Readings : reading' = Put(<< >>, "now", v)
  /\ UNCHANGED <<drawing, nulls, status, cancel, claims, saved, frame, reviews,
                 at, out, bound, path, granted, cleared, sent, why>>

\* The verifier, once nobody is to be asked or the person has accepted.
Confirmed(n) == n \in DOMAIN granted
VerifyRuns ==
  /\ Fresh("verify") /\ CanVerify /\ (Asks("verify") => Confirmed("verify"))
  /\ IF Confirmed("verify") /\ ~Stands("verify") THEN Fail("lapsed")
     ELSE Complete("verify", [value |-> ToVerify, label |-> "guessed", reviewed |-> Confirmed("verify")])

DeriveRuns ==
  /\ Fresh("derive")
  /\ IF Lapsed("derive") THEN Fail("lapsed") ELSE Complete("derive", Derive)

\* guard and then the handler; a Switch is never reviewed.
DecideRuns ==
  /\ Fresh("decide") /\ (NeedsDecision => Confirmed("decide"))
  /\ IF ~PathStands \/ Lapsed("decide") THEN Fail("lapsed")
     ELSE IF drawing.decide = "switch" /\ ~Proven("decide") /\ ~InputTrusted("decide")
     THEN Fail("switch")
     ELSE IF ~Confirmed("decide") /\ Errs(Read("decide")) /\ Deciding THEN Fail("error")
     ELSE Complete("decide", Decision)

\* A node that asks and has no row yet: the run waits for a person.
Pause(n) ==
  /\ Fresh(n) /\ Asks(n) /\ n \notin DOMAIN reviews /\ ~cancel
  /\ n = "decide" => PathStands /\ ~Lapsed(n)
  /\ reviews' = Put(reviews, n, [payload |-> Payload(n), status |-> "pending",
                                  choice |-> TRUE, lapsed |-> FALSE])
  /\ frame' = IF n = "verify" THEN reading ELSE << >>
  /\ status' = "awaiting" /\ UNCHANGED <<drawing, nulls, cancel, claims, saved, memory, sent, why>>

\* consume_review settles the person's answer before the node goes on.
Consume(n) ==
  LET row == reviews[n] IN
  /\ Fresh(n) /\ Asks(n) /\ n \in DOMAIN reviews /\ ~Confirmed(n)
  /\ n = "decide" => PathStands /\ ~Lapsed(n)
  /\ IF row.payload # Payload(n) \/ cancel \/ row.status \notin {"approved", "completed"}
     THEN Fail("lapsed")
     ELSE IF row.lapsed
     THEN /\ reviews' = [reviews EXCEPT ![n].status = "expired"] /\ status' = "closed"
          /\ UNCHANGED <<drawing, nulls, cancel, claims, saved, frame, memory, sent, why>>
     ELSE /\ reviews' = [reviews EXCEPT ![n].status = "completed"]
          /\ granted' = Put(granted, n, row.choice)
          /\ UNCHANGED <<drawing, nulls, status, cancel, claims, saved, frame,
                         at, out, bound, path, reading, cleared, sent, why>>

\* A checkpoint is used again only with the authority it had.
Restore(n) ==
  LET o == saved[n]
      asks == IF n \in DOMAIN reviews THEN ~Stands(n) \/ reviews[n].choice # o.choice ELSE NeedsDecision
  IN
  /\ Working(n) /\ n \in DOMAIN saved
  /\ IF \/ n = "verify" /\ o.reviewed /\ ~Stands(n)
        \/ n = "derive" /\ Lapsed(n)
        \/ n = "decide" /\ (~PathStands \/ Lapsed(n) \/ asks)
     THEN Fail("lapsed")
     ELSE Finish(n, o) /\ UNCHANGED <<saved, frame, reading, granted, cleared>>

-----------------------------------------------------------------------------
PathAllows == PathStands /\ ~Lapsed("write")

\* The eligibility check of the write, before anything is reserved or sent.
Clear ==
  /\ Working("write") /\ cleared = << >>
  /\ IF ~PathAllows THEN Fail("lapsed")
     ELSE IF ~Proven("write") THEN Fail("unbound")
     ELSE /\ cleared' = Put(<< >>, "now", [value |-> Read("write"),
                                   stale |-> {n \in DOMAIN reviews : ~Stands(n)}])
          /\ UNCHANGED <<drawing, nulls, status, cancel, claims, saved, frame, reviews,
                         at, out, bound, path, reading, granted, sent, why>>
Send ==
  /\ Working("write") /\ cleared # << >>
  /\ sent' = sent \cup {cleared["now"]} /\ status' = "success"
  /\ UNCHANGED <<drawing, nulls, cancel, claims, saved, frame, reviews, memory, why>>

-----------------------------------------------------------------------------
Claim ==
  /\ status = "queued" /\ claims < MaxClaims
  /\ status' = "running" /\ claims' = claims + 1 /\ Forget
  /\ reading' = frame
  /\ UNCHANGED <<drawing, nulls, cancel, saved, frame, reviews, sent, why>>

\* The worker dies; its lease runs out.
Crash ==
  /\ status = "running" /\ status' = "queued"
  /\ UNCHANGED <<drawing, nulls, cancel, claims, saved, frame, reviews, memory, sent, why>>

Approve(n, choice) ==
  /\ status = "awaiting" /\ n \in DOMAIN reviews /\ reviews[n].status = "pending"
  /\ ~reviews[n].lapsed /\ (n = "verify" => choice)
  /\ reviews' = [reviews EXCEPT ![n].status = "approved", ![n].choice = choice]
  /\ status' = "queued"
  /\ UNCHANGED <<drawing, nulls, cancel, claims, saved, frame, memory, sent, why>>

\* Rejected, or found expired by the sweep or by a late decision.
Close(n) ==
  /\ status \in {"awaiting", "queued"} /\ n \in DOMAIN reviews
  /\ \/ status = "awaiting" /\ reviews[n].status = "pending"
     \/ reviews[n].lapsed /\ reviews[n].status \in {"pending", "approved"}
  /\ reviews' = [reviews EXCEPT ![n].status = "closed"] /\ status' = "closed"
  /\ UNCHANGED <<drawing, nulls, cancel, claims, saved, frame, memory, sent, why>>

Lapse(n) ==
  /\ n \in DOMAIN reviews /\ ~reviews[n].lapsed
  /\ status \in {"queued", "running", "awaiting"}
  /\ reviews' = [reviews EXCEPT ![n].lapsed = TRUE]
  /\ UNCHANGED <<drawing, nulls, status, cancel, claims, saved, frame, memory, sent, why>>

\* A running attempt stops when it sees the request; a run that waits, at once.
Cancel ==
  /\ status \in {"queued", "running", "awaiting"} /\ ~cancel
  /\ cancel' = TRUE
  /\ LET open == {n \in DOMAIN reviews : reviews[n].status \in {"pending", "approved"}} IN
     IF status = "running" THEN UNCHANGED <<status, reviews>>
     ELSE /\ reviews' = [n \in DOMAIN reviews |->
                           IF n \in open THEN [reviews[n] EXCEPT !.status = "closed"] ELSE reviews[n]]
          /\ status' = IF open = {} THEN "cancelled" ELSE "closed"
  /\ UNCHANGED <<drawing, nulls, claims, saved, frame, memory, sent, why>>
Stop ==
  /\ status = "running" /\ cancel /\ status' = "cancelled"
  /\ UNCHANGED <<drawing, nulls, cancel, claims, saved, frame, reviews, memory, sent, why>>

\* A closed review ends the run for good.
Resume ==
  /\ status \in {"failed", "cancelled"} /\ claims < MaxClaims
  /\ status' = "queued" /\ cancel' = FALSE
  /\ UNCHANGED <<drawing, nulls, claims, saved, frame, reviews, memory, sent, why>>

Init ==
  /\ drawing \in Drawings /\ nulls \in BOOLEAN
  /\ status = "queued" /\ cancel = FALSE /\ claims = 0 /\ saved = << >> /\ frame = << >>
  /\ reviews = << >> /\ sent = {} /\ why = ""
  /\ at = 1 /\ out = << >> /\ bound = << >> /\ path = {} /\ reading = << >>
  /\ granted = << >> /\ cleared = << >>

Next ==
  \/ Claim \/ Extract \/ ReadRequest \/ VerifyRuns \/ Fetch \/ DeriveRuns \/ DecideRuns
  \/ Clear \/ Send \/ Crash \/ Cancel \/ Stop \/ Resume
  \/ \E n \in Nodes : Restore(n)
  \/ \E n \in {"verify", "decide"} :
       Pause(n) \/ Consume(n) \/ Close(n) \/ Lapse(n) \/ \E c \in BOOLEAN : Approve(n, c)

Spec == Init /\ [][Next]_vars

-----------------------------------------------------------------------------
\* What a value is made of in the end.
Roots(n) ==
  LET roots[r \in Nodes \cup {"trigger"}] ==
        IF r \in {"trigger", "extract", "verify", "fetch"} THEN {r}
        ELSE UNION {roots[i] : i \in Inputs(drawing, r)}
  IN roots[n]

\* A write carries the reading that the checks passed or that a person
\* accepted, word for word or as the workflow derives it, and a check that a
\* person decided carries that person's choice: over pauses, crashes and
\* resumed runs.
SentOnAuthority == \A s \in sent :
  LET v == saved["verify"].value
      accepted == "verify" \in DOMAIN reviews /\ reviews["verify"].payload = v
                    /\ reviews["verify"].status = "completed"
      decided == "decide" \in DOMAIN reviews
      derived == IF drawing.derive = "compute" /\ nulls THEN {"null"} ELSE v \cup {drawing.derive}
      Made(n) == CASE n = "verify" -> v
                   [] n = "derive" -> derived
                   [] OTHER -> {IF decided THEN IF reviews["decide"].choice THEN "true" ELSE "false"
                                ELSE "true"}
  IN /\ (Verdict(v) = "passed" /\ ~(drawing.reader /\ "unrelated" \in v)) \/ accepted
     /\ \A n \in drawing.on["write"] : s.value = Made(n)

\* Every person's answer behind a write, for its value or for the branch that
\* led to it, still stood when the write was let through: wiring around a
\* review does not outlive its expiry.
SentWhileConfirmed == \A s \in sent : s.stale = {}

\* Validation is honest: a write or a Switch of a workflow that validates is
\* refused only because a confirmation lapsed, or, for a Switch, because the
\* calculation it routes on came to nothing.
RefusedForCause == why # "unbound" /\ (why = "switch" => nulls /\ drawing.derive = "compute")

\* What the documentation promises of decisions: code decides alone only on
\* values that were checked or are trusted, all of them.
DecidedOnChecked ==
  "decide" \in DOMAIN saved /\ Deciding /\ ~saved["decide"].manual
    => \A r \in drawing.on["decide"] : Roots(r) \subseteq {"trigger", "verify"}
=============================================================================
