----------------------------- MODULE Extraction -----------------------------
(***************************************************************************)
(* What a model read in a request is checked by code alone against the     *)
(* original message (extraction_checks.py), and what the request reader    *)
(* does with the report (request_reader.py).  A message is the numbers and *)
(* texts written in it, and perhaps an object; a reading is a flat object, *)
(* in which a field that is not stated is null.                            *)
(***************************************************************************)
EXTENDS Integers, Sequences, FiniteSets, SequencesExt, Functions

CONSTANTS
  Fields,    \* the fields of a reading
  Listed,    \* the values that an enum allows, and those of the reference records
  Accepted,  \* the values that the schema accepts, by field
  Texts,     \* of each value that is a text, the numbers written in it
  Truths     \* the values that are true or false

Null == -1

\* A cross-check: a field that equals a calculation, or none, and what it reads.
Check(target, op, operands) == [target |-> target, op |-> op, operands |-> operands]
ReadBy(check) == Range(check.operands) \cup IF check.target = "" THEN {} ELSE {check.target}

Holds(check, reading) ==
  LET x == reading[check.operands[1]]  y == reading[check.operands[2]] IN
  CASE check.op = "*" -> reading[check.target] = x * y
    [] check.op = "+" -> reading[check.target] = x + y
    [] check.op = "<" -> x < y

\* A message: what is written in it, and the fields of the object it may be;
\* whether it is eligible as the origin of values, and whether records that are
\* independent of it were read.
Message(written, object, eligible, records) ==
  [written |-> written, object |-> object, eligible |-> eligible, records |-> records]
NotAnObject == <<>>

\* A configuration that is accepted: what is required has a rule.
Complete(config) ==
  \A f \in config.required \cup UNION config.any : config.rules[f] # {}

-----------------------------------------------------------------------------
Result(status, reason) == [status |-> status, reason |-> reason]
Absent(reading) == {f \in Fields : reading[f] = Null}

\* A truth value is not written anywhere: only an object can state it.
Quoted(f, reading, message) ==
  /\ message.eligible
  /\ IF reading[f] \in Truths THEN f \in DOMAIN message.object /\ message.object[f] = reading[f]
     ELSE reading[f] \in message.written

\* What a rule of a field says of its value: nothing, that it suits, that it is
\* established with its origin, or why it is not.
Says(rule, f, reading, message) ==
  CASE rule = "quoted" -> "nothing"
    [] rule = "accept_quoted" -> IF Quoted(f, reading, message) THEN "suits" ELSE "nothing"
    [] rule = "source_field" ->
         IF ~message.eligible \/ f \notin DOMAIN message.object THEN "unknown"
         ELSE IF message.object[f] # reading[f] THEN "fails" ELSE "established"
    [] rule = "reference_member" /\ ~message.records -> "unknown"
    [] OTHER -> IF reading[f] \in Listed THEN "suits" ELSE "fails"   \* enum, reference_member

\* The first result of a field, before any cross-check.
FieldResult(f, reading, message, config) ==
  LET says == {Says(rule, f, reading, message) : rule \in config.rules[f]}
      origin == Quoted(f, reading, message) \/ "established" \in says IN
  CASE reading[f] = Null -> Result("absent", IF f \in config.required THEN "required_absent" ELSE "value_absent")
    [] reading[f] # Null /\ config.rules[f] = {} -> Result("unverified", "rule_missing")
    [] OTHER ->
         IF "fails" \in says THEN Result("failed", "mismatch")
         ELSE IF "unknown" \in says THEN Result("unverified", "source_unavailable")
         ELSE IF ~origin THEN Result("unverified", "origin_unconfirmed")
         ELSE IF says \cap {"suits", "established"} = {} THEN Result("unverified", "suitability_unverified")
         ELSE Result("passed", "source_checked")

GroupMet(reading, config) ==
  config.any = {} \/ \E group \in config.any : group \cap Absent(reading) = {}

\* Of alternatives, all that are absent are required when none is complete.
FirstResults(reading, message, config) ==
  [f \in Fields |->
     IF f \in Absent(reading) \cap UNION config.any /\ ~GroupMet(reading, config) THEN Result("absent", "required_absent")
     ELSE FieldResult(f, reading, message, config)]

\* A calculation that holds establishes a value found nowhere, if what it is
\* calculated from is established and no other check refuted it.
Derives(check, r) ==
  /\ check.op # "<" /\ check.target \notin Range(check.operands)
  /\ check.target \in r.candidates \ r.refuted
  /\ \A f \in Range(check.operands) : r.results[f].status = "passed"

CrossCheck(r, check, reading) ==
  IF ReadBy(check) \cap Absent(reading) # {} THEN r   \* nothing to compare
  ELSE IF ~Holds(check, reading)
  THEN [r EXCEPT !.refuted = @ \cup ReadBy(check),
                 !.results = [f \in Fields |-> IF f \in ReadBy(check) THEN Result("failed", "cross_check_failed") ELSE @[f]]]
  ELSE IF Derives(check, r) THEN [r EXCEPT !.results[check.target] = Result("passed", "calculated_checked")]
  ELSE r

Numbers(message) == message.written \ DOMAIN Texts

\* The numbers that were read: in a workflow with number fields, one that went
\* into a text was not.
NumbersRead(reading) ==
  LET declared == (UNION {Accepted[f] : f \in Fields}) \ (DOMAIN Texts \cup Truths)
      texts == Range(reading) \cap DOMAIN Texts
  IN  (Range(reading) \ DOMAIN Texts) \cup IF declared = {} THEN UNION {Texts[v] : v \in texts} ELSE {}

\* Mutant: it is enough that as many values are read as numbers are written.
UnreadByCount(reading, message, config, results) ==
  /\ message.eligible /\ Cardinality(Numbers(message)) > Cardinality(Fields \ Absent(reading))
  /\ \E f \in Fields : "accept_quoted" \in config.rules[f] /\ results[f].status = "passed"

\* Every number written is among the values read, once one is accepted as quoted.
Unread(reading, message, config, results) ==
  /\ message.eligible /\ Numbers(message) \ NumbersRead(reading) # {}
  /\ \E f \in Fields : "accept_quoted" \in config.rules[f] /\ results[f].status = "passed"

\* verify_extraction: a verdict and the results by field.
Report(verdict, results) == [verdict |-> verdict, results |-> results]
Verify(reading, message, config) ==
  LET first == FirstResults(reading, message, config)
      start == [results |-> first, refuted |-> {f \in Fields : first[f].status = "failed"},
                candidates |-> {f \in Fields : first[f].reason = "origin_unconfirmed"}]
      results == FoldLeft(LAMBDA r, check : CrossCheck(r, check, reading), start, config.checks).results
      missing == config.required \cap Absent(reading) # {} \/ ~GroupMet(reading, config)
      passed == /\ ~Unread(reading, message, config, results)
                /\ \E f \in Fields : results[f].status = "passed"
                /\ \A f \in Fields : results[f].status = "passed" \/ results[f] = Result("absent", "value_absent")
  IN  IF \A f \in Fields \ Absent(reading) : reading[f] \in Accepted[f]
      THEN Report(IF missing THEN "clarify" ELSE IF passed THEN "passed" ELSE "needs_review", results)
      ELSE Report("clarify", <<>>)   \* schema_invalid

-----------------------------------------------------------------------------
\* validate_reading: a field the model leaves out is null.
Completed(values) == [f \in Fields |-> IF f \in DOMAIN values THEN values[f] ELSE Null]

\* The reader's table: the branch taken, whose reply, and whether a person is asked.
Outcome(branch, reply, person) == [branch |-> branch, reply |-> reply, person |-> person]
Routed(answer, verdict) ==
  IF verdict = "clarify"
  THEN Outcome("reply", IF answer.type = "unrelated" /\ Range(answer.values) \subseteq {Null} /\ answer.reply THEN "model" ELSE "saved", FALSE)
  ELSE Outcome("continue", "none", verdict = "needs_review" \/ answer.type = "unrelated")
ReaderOutcome(answer, message, config) ==
  Routed(answer, Verify(Completed(answer.values), message, config).verdict)

-----------------------------------------------------------------------------
\* A reference: what is established of a reading, without any order: quoted and
\* opted in for, equal to a field of the original, or calculated from those.
RECURSIVE Closure(_, _, _)
Closure(known, reading, config) ==
  LET more == {check.target : check \in {c \in Range(config.checks) :
                 c.op # "<" /\ Range(c.operands) \subseteq known /\ Holds(c, reading)}} \ known
  IN  IF more = {} THEN known ELSE Closure(known \cup more, reading, config)
Established(reading, message, config) ==
  LET direct == {f \in Fields \ Absent(reading) :
        \/ Quoted(f, reading, message) /\ config.rules[f] \cap {"accept_quoted", "enum", "reference_member"} # {}
        \/ message.eligible /\ "source_field" \in config.rules[f] /\ f \in DOMAIN message.object /\ message.object[f] = reading[f]}
  IN  Closure(direct, reading, config)

\* A request goes on without a person only if all that was read is established,
\* no check and no list contradicts it, nothing required is missing and no number
\* of the message was left out; whatever the order of the checks, and whatever
\* the model says of the request (verify_extraction, outcome).
PassedIsEstablished(answer, message, config) ==
  LET reading == Completed(answer.values)
      outcome == ReaderOutcome(answer, message, config) IN
  outcome.branch = "continue" /\ ~outcome.person =>
    /\ message.eligible /\ answer.type # "unrelated"
    /\ Fields \ Absent(reading) # {}
    /\ Fields \ Absent(reading) \subseteq Established(reading, message, config)
    /\ \A check \in Range(config.checks) : ReadBy(check) \cap Absent(reading) = {} => Holds(check, reading)
    /\ \A f \in Fields \ Absent(reading) : config.rules[f] \cap {"enum", "reference_member"} # {} => reading[f] \in Listed
    /\ \A f \in Fields \ Absent(reading) : "reference_member" \in config.rules[f] => message.records
    /\ config.required \cap Absent(reading) = {} /\ GroupMet(reading, config)
    /\ (\E f \in Fields \ Absent(reading) : "accept_quoted" \in config.rules[f]) => Numbers(message) \subseteq NumbersRead(reading)

\* A person is not asked in vain: what is complete, all quoted or given, and not
\* contradicted goes on (outcome).
EstablishedPasses(answer, message, config) ==
  LET reading == Completed(answer.values)
      present == Fields \ Absent(reading)
      direct == {f \in present : Quoted(f, reading, message) /\ "accept_quoted" \in config.rules[f]} IN
  (/\ present # {} /\ present = direct /\ Numbers(message) \subseteq NumbersRead(reading)
   /\ \A f \in present : config.rules[f] \subseteq {"accept_quoted", "quoted"}
   /\ \A check \in Range(config.checks) : ReadBy(check) \subseteq present => Holds(check, reading)
   /\ config.required \subseteq present /\ GroupMet(reading, config)
   /\ (\A f \in present : reading[f] \in Accepted[f]) /\ answer.type # "unrelated")
  => ReaderOutcome(answer, message, config) = Outcome("continue", "none", FALSE)
=============================================================================
