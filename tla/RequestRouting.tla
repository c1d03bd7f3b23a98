--------------------------- MODULE RequestRouting ---------------------------
(***************************************************************************)
(* The workflows a new project starts from (request-routing.ts): what each *)
(* draft's request reader must find, how its nodes are connected and what  *)
(* code then decides; the fields the editor suggests for a reader; and     *)
(* what the run page says of a request check.  The readers, calculations,  *)
(* conditions and graphs are those of the modules that model them.         *)
(***************************************************************************)
EXTENDS Integers, Sequences, FiniteSets, SequencesExt, Functions

CONSTANTS
  Most,       \* numbers in a request run to this
  Threshold,  \* what a draft's condition compares with: 1000, 100
  Limit       \* the largest result of a calculation

\* Values: numbers; texts, one of them with a number in it; true and false.
Null == -1
Words == [text \in {101, 102, 103} |-> IF text = 103 THEN {1} ELSE {}]
Spelled == [text \in DOMAIN Words |-> CASE text = 101 -> "billing" [] text = 102 -> "laptop" [] OTHER -> "room 1"]
Listed == {101}   \* in the catalogue, or among the categories: billing
Yes == 201
No == 202

Allowed(type) ==
  CASE type = "text" -> DOMAIN Words
    [] type = "number" -> 0 .. Most
    [] type = "positive" -> 1 .. Most
    [] type = "truth" -> {Yes, No}
    [] type = "any" -> UNION {DOMAIN Words, 0 .. Most, {Yes, No}}

Calc == INSTANCE Calculation WITH
  Numerals <- <<>>, Fields <- {"total", "quantity", "unit_price"}, Limit <- Limit, MaxDepth <- 3
Decide == INSTANCE Conditions WITH
  Scale <- 1, Magnitude <- 1, Precision <- 3, FloatRange <- 1, IntDigits <- 2, TextDigits <- 2, MaxExponent <- 1
Read(fields) == INSTANCE Extraction WITH
  Fields <- DOMAIN fields, Listed <- Listed, Accepted <- [f \in DOMAIN fields |-> Allowed(fields[f])],
  Texts <- Words, Truths <- {Yes, No}
Graph(n) == INSTANCE WorkflowGraph WITH
  N <- n, Kinds <- {}, MaxAttempts <- 1, workflow <- 0, status <- "none", attempt <- 0, ready <- {}, over <- {},
  values <- {}, recovered <- {}, arrived <- {}, ran <- {}, branch <- {}, completed <- {}

-----------------------------------------------------------------------------
\* The policy of each draft: fields by type, what is required, the rules of each
\* field, the checks between them, and what is calculated and decided.
Condition(field, operator, operand) ==
  [field |-> <<field>>, operator |-> operator, operands |-> <<operand>>, number |-> FALSE, sensitive |-> FALSE]
Numeral(n) == Decide!Text(Decide!Numeral([digits |-> n, exp |-> 0], "str"), FALSE, FALSE)[2]
Word(word) == Decide!Text(Decide!Word(word), FALSE, FALSE)[2]

Plan(name, fields, any, rules, condition) ==
  [name |-> name, fields |-> fields, any |-> any, rules |-> rules, condition |-> condition, checks |-> <<>>,
   expression |-> <<>>, required |-> DOMAIN fields \ UNION any]

Drafts ==
  LET quoted == {"quoted", "reference_member"} IN
  {Plan("qa", [question |-> "text"], {}, [question |-> {"accept_quoted"}], <<>>),
   [Plan("purchase", [item |-> "text", quantity |-> "positive", unit_price |-> "number", total |-> "number"],
         {{"total"}, {"quantity", "unit_price"}},
         [f \in {"item", "quantity", "unit_price", "total"} |->
            {"accept_quoted"} \cup IF f = "item" THEN {"reference_member"} ELSE {}],
         Condition("result", "gt", Numeral(Threshold))) EXCEPT
      !.checks = <<[target |-> "total", op |-> "*", operands |-> <<"quantity", "unit_price">>]>>,
      !.expression = Calc!Tree("coalesce", <<Calc!Leaf("total"),
                                             Calc!Tree("*", <<Calc!Leaf("quantity"), Calc!Leaf("unit_price")>>)>>)],
   Plan("support", [summary |-> "text", category |-> "text"], {},
        [summary |-> {"source_field"}, category |-> {"source_field", "enum"}],
        Condition("category", "eq", Word("billing"))),
   Plan("refund", [order_id |-> "text", amount |-> "number"], {},
        [order_id |-> quoted, amount |-> {"source_field"}], Condition("amount", "lte", Numeral(Threshold))),
   Plan("yesno", [record_id |-> "text", eligible |-> "truth"], {},
        [record_id |-> quoted, eligible |-> {"quoted"}], Condition("eligible", "eq", Word("true")))}

Referenced(t) == \E f \in DOMAIN t.rules : "reference_member" \in t.rules[f]
Calculated(t) == t.expression # <<>>

\* The request contract of a draft.
readerConfig(t) ==
  [rules |-> t.rules, required |-> t.required, any |-> t.any, checks |-> t.checks]

-----------------------------------------------------------------------------
\* The graph of a draft: its nodes in the order they are added, the edges with
\* the route they leave by, and what each input is bound to.
Nodes(t) ==
  IF t.name = "qa" THEN <<"input", "reader", "agent", "response", "readerReply">>
  ELSE <<"input">> \o (IF Referenced(t) THEN <<"records">> ELSE <<>>) \o <<"reader">>
         \o (IF Calculated(t) THEN <<"calculate">> ELSE <<>>)
         \o <<"decision", "yesText", "yes", "noText", "no", "readerReply">>

Kind(n) ==
  CASE n = "input" -> "trigger"
    [] n \in {"reader", "decision"} -> "control"
    [] n \in {"response", "readerReply", "yes", "no"} -> "response"
    [] OTHER -> "step"

\* Of a control, "yes" is continue or true and "no" is reply or false.
Edge(source, handle, target) == [source |-> source, handle |-> handle, target |-> target]
Decided(t) == IF Calculated(t) THEN "calculate" ELSE "reader"
Edges(t) ==
  UNION {
    IF Referenced(t) THEN {Edge("input", "output", "records"), Edge("records", "output", "reader")}
                     ELSE {Edge("input", "output", "reader")},
    {Edge("reader", "no", "readerReply")},
    IF t.name = "qa" THEN {Edge("reader", "yes", "agent"), Edge("agent", "output", "response")}
    ELSE {Edge("decision", "yes", "yesText"), Edge("yesText", "output", "yes"),
          Edge("decision", "no", "noText"), Edge("noText", "output", "no"),
          Edge("reader", "yes", IF Calculated(t) THEN "calculate" ELSE "decision")}
         \cup IF Calculated(t) THEN {Edge("calculate", "output", "decision")} ELSE {}}

Ref(node, port) == [node |-> node, port |-> port]
Inputs(t, n) ==
  CASE n = "input" -> {}
    [] n = "records" \/ n = "agent" -> {Ref("input", "message")}
    [] n = "reader" -> {Ref("input", "message")} \cup IF Referenced(t) THEN {Ref("records", "text")} ELSE {}
    [] n = "response" -> {Ref("agent", "text")}
    [] n = "readerReply" -> {Ref("reader", "reply")}
    [] n = "calculate" -> {Ref("reader", "text")}
    [] n \in {"decision", "yesText", "noText"} -> {Ref(Decided(t), "text")}
    [] n = "yes" -> {Ref("yesText", "text")}
    [] n = "no" -> {Ref("noText", "text")}
Drawn(t) ==
  LET ns == Nodes(t)
      at(n) == CHOOSE i \in DOMAIN ns : ns[i] = n
      leaving(n) == {e \in Edges(t) : e.source = n}
  IN  Graph(Len(ns))!Drawing([i \in DOMAIN ns |-> Kind(ns[i])], [i \in DOMAIN ns |-> "fail"],
                             [i \in DOMAIN ns |-> {[handle |-> e.handle, to |-> at(e.target)] : e \in leaving(ns[i])}], {})

-----------------------------------------------------------------------------
\* What validation asks of such a graph.
Outputs(n) ==
  CASE n = "input" -> {"message"}
    [] n = "records" -> {"text", "items"}
    [] n = "reader" -> {"text", "branch", "reply", "report", "reading"}
    [] n = "decision" -> {"branch"}
    [] n = "agent" -> {"text", "provider", "sources", "grounding"}
    [] n \in {"calculate", "yesText", "noText"} -> {"text"}
    [] OTHER -> {"text", "sources"}

\* unchecked_model_input: what a model wrote and no verifier checked.
Unchecked(t, ref) ==
  LET model[r \in UNION {{[node |-> n, port |-> x] : x \in Outputs(n)} : n \in Range(Nodes(t))}] ==
        CASE r.node = "reader" -> r.port # "text"
          [] r.node = "agent" -> TRUE
          [] OTHER -> \E i \in Inputs(t, r.node) : model[i]
  IN  model[ref]

After(t, n) == {e.target : e \in {x \in Edges(t) : x.source = n}}
EntersByReader(t) ==
  \/ After(t, "input") = {"reader"}
  \/ After(t, "input") = {"records"} /\ After(t, "records") = {"reader"}

Accepted(t) ==
  LET config == readerConfig(t) IN
  /\ DOMAIN t.fields # {} /\ config.required \cup UNION config.any # {}
  /\ Read(t.fields)!Complete(config)

Admitted(t) ==
  LET d == Drawn(t)  ns == Nodes(t)
      available == Graph(Len(ns))!Guarantees(d).available
  IN
  /\ Graph(Len(ns))!Valid(d)
  /\ \A i \in DOMAIN ns : \A ref \in Inputs(t, ns[i]) :
       ref.port \in Outputs(ref.node) /\ \E j \in available[i] : ns[j] = ref.node
  /\ EntersByReader(t) /\ Ref("input", "message") \in Inputs(t, "reader")
  /\ Referenced(t) => Ref("records", "text") \in Inputs(t, "reader")
  /\ \A e \in Edges(t) : e.source = "reader" /\ e.handle = "no" => Kind(e.target) = "response"
  /\ \A n \in {"decision"} \cap Range(ns) : \A ref \in Inputs(t, n) : ~Unchecked(t, ref)
  /\ Accepted(t)

-----------------------------------------------------------------------------
\* A run of a draft: the reader's outcome for a message, and what is calculated
\* and decided with the values that it passes on.
Stated(t, answer) == Read(t.fields)!Completed(answer.values)
Outcome(t, answer, report) == Read(t.fields)!Routed(answer, report.verdict)

Operand(v) == IF v = Null THEN Calc!Null ELSE <<"number", v>>
Total(t, stated) == Calc!Evaluate(t.expression, [f \in DOMAIN stated \ {"item"} |-> Operand(stated[f])]).v

Shown(v) ==
  CASE v = Null -> Decide!Null
    [] v \in {Yes, No} -> Decide!Value("bool", v = Yes)
    [] v \in DOMAIN Words -> Decide!Text(Decide!Word(Spelled[v]), FALSE, FALSE)
    [] OTHER -> Decide!Value("number", [digits |-> v, exp |-> 0])
Json(object) == Decide!Text(Decide!Json(Decide!Object(object)), FALSE, FALSE)
Calculation(total) == [result |-> IF total = Calc!Null THEN Decide!Null ELSE Shown(total[2])]
Compared(t, object) == Decide!Evaluate(Json(object), t.condition)
DecisionOn(t, stated, total) ==
  IF Calculated(t) /\ Calc!Failed(total) THEN "error"
  ELSE Compared(t, IF Calculated(t) THEN Calculation(total) ELSE [f \in DOMAIN stated |-> Shown(stated[f])])
Decision(t, stated) == DecisionOn(t, stated, IF Calculated(t) THEN Total(t, stated) ELSE Calc!Null)

\* What a run knows of its request once the reader is done.
Run(t, answer, message) ==
  [draft |-> t, answer |-> answer, message |-> message, stated |-> Stated(t, answer),
   report |-> Read(t.fields)!Verify(Stated(t, answer), message, readerConfig(t))]

-----------------------------------------------------------------------------
\* missing_reply: the facts that the reader's reply asks for.
AskedFor(t, reading) ==
  LET absent == {f \in DOMAIN reading : reading[f] = Null}  any == t.any IN
  (t.required \cap absent)
    \cup IF any # {} /\ \A group \in any : group \cap absent # {} THEN UNION any ELSE {}

\* What the run's record holds of the reader: its outputs and, in the receipt of a
\* request that goes on, the review by which a person confirmed it.
ReaderEvent(outcome, report) ==
  [type |-> "request_reader", prepared |-> FALSE, review |-> outcome.person, report |-> report]

\* admissionDetails, of a reader: how the run page titles its event, and the facts
\* that it says are missing.
Detail(event) ==
  LET report == event.report
      told(title) == [title |-> title, missing |-> {f \in DOMAIN report.results : report.results[f].status = "absent"}] IN
  CASE event.prepared -> [title |-> "prepared reply", missing |-> {}]
    [] ~event.prepared /\ event.review -> told("confirmed by a person")
    [] OTHER -> told(CASE report.verdict = "passed" -> "checks passed"
                       [] report.verdict = "clarify" -> "facts missing"
                       [] report.verdict = "needs_review" -> "needs review")

-----------------------------------------------------------------------------
\* fieldsReadDownstream: what conditions and calculations read of a node's text,
\* and whether they read it as a number.
Readings(t, n) ==
  LET readers == {m \in Range(Nodes(t)) : Ref(n, "text") \in Inputs(t, m)}
      compared == IF "decision" \in readers THEN {t.condition.field[1]} ELSE {}
      calculated == IF "calculate" \in readers THEN Calc!Suggested(Calc!Written(t.expression)) ELSE {}
  IN  [f \in compared \cup calculated |-> f \in calculated \/ t.condition.operator \in Decide!Ordering]

\* withSuggestedFields: what is read is declared, and accepted as it is quoted.
WithSuggested(config, readings) ==
  [fields |-> [f \in DOMAIN config.fields \cup DOMAIN readings |->
                 IF f \in DOMAIN config.fields THEN config.fields[f] ELSE IF readings[f] THEN "number" ELSE "any"],
   rules |-> [f \in DOMAIN config.rules \cup DOMAIN readings |->
                 IF f \in DOMAIN config.rules THEN config.rules[f] ELSE {"accept_quoted"}]]

-----------------------------------------------------------------------------
\* Each draft is accepted as it is, but for the model and the connection that it
\* needs (createRequestWorkflow; validate_workflow).
DraftsAdmitted == \A t \in Drafts : Admitted(t)

\* What a draft's reader lets through, checked by code or confirmed by a person,
\* is enough for its decision: no request goes on only to fail there, unless the
\* total is too large to calculate.  A decision without a person rests on records,
\* where the draft has them, and is the same from each set of values that would
\* have been enough; that a person is eligible is never decided without one
\* (createRequestWorkflow).
DecidedOn(t, run, outcome, decision) ==
  LET stated == run.stated
      known(fields) == \A f \in fields : stated[f] # Null IN
  /\ decision \in {"true", "false"} \/ (Calculated(t) /\ stated["total"] = Null /\ Total(t, stated) = Calc!Error)
  /\ t.name = "yesno" \/ (Referenced(t) /\ ~run.message.records) => outcome.person
  /\ ~outcome.person /\ t.name = "purchase" =>
       \A group \in t.any : known(group) =>
         decision = Decision(t, [f \in DOMAIN stated |-> IF f \in group \cup {"item"} THEN stated[f] ELSE Null])
DraftDecides(run, outcome) ==
  outcome.branch = "continue" /\ run.draft.name # "qa" =>
    DecidedOn(run.draft, run, outcome, Decision(run.draft, run.stated))

\* The page says that checks passed of exactly the requests that go on without a
\* person, and that a person confirmed of those that a person let go on; and what
\* the reader asks for is enough: with these facts the request misses nothing more
\* (admissionDetails, missing_reply).
DetailTells(run, outcome) ==
  LET t == run.draft
      detail == Detail(ReaderEvent(outcome, run.report))
      asked == AskedFor(t, run.stated)
      given == {f \in DOMAIN run.stated : run.stated[f] # Null} \cup asked IN
  /\ detail.title = IF outcome.branch = "reply" THEN "facts missing"
                    ELSE IF outcome.person THEN "confirmed by a person" ELSE "checks passed"
  /\ t.required \subseteq given /\ (t.any = {} \/ \E group \in t.any : group \subseteq given)
  /\ outcome.branch = "reply" /\ detail.missing # {} => asked \cap detail.missing # {}

\* Whatever the author removed of a draft's fields and rules: with the suggestions
\* accepted each field that the decision reads is declared and has a rule, what was
\* there stays, and any values that the reader then accepts are decided on, a total
\* that is too large to calculate apart (fieldsReadDownstream, withSuggestedFields).
SuggestionsSuffice ==
  \A t \in {draft \in Drafts : draft.name # "qa"} : \A fields \in SUBSET DOMAIN t.fields :
    LET readings == Readings(t, "reader")
        with(rules) == WithSuggested([fields |-> Restrict(t.fields, fields), rules |-> Restrict(t.rules, rules)], readings)
        types == with({}).fields IN
    /\ \A f \in fields : types[f] = t.fields[f]
    /\ \A rules \in SUBSET DOMAIN t.rules :
         /\ \A f \in rules : with(rules).rules[f] = t.rules[f]
         /\ DOMAIN readings \subseteq DOMAIN types \cap DOMAIN with(rules).rules
    /\ \A stated \in {v \in [DOMAIN readings -> UNION {Allowed(types[f]) : f \in DOMAIN readings}] :
                         \A f \in DOMAIN v : v[f] \in Allowed(types[f])} :
         Decision(t, stated) \in {"true", "false"} \/ (Calculated(t) /\ Total(t, stated) = Calc!Error)
=============================================================================
