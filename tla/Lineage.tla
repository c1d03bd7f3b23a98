------------------------------- MODULE Lineage -------------------------------
(***************************************************************************)
(* Where each value of a run comes from (provenance.py): the labels that   *)
(* nodes give to what they return, what an Agent's values are checked      *)
(* against, the labels kept from an older release's checkpoints, and what  *)
(* the editor warns of before any run.  Nodes are drawn as they are run.   *)
(* A text is the set of the facts written in it; an object has fields.     *)
(***************************************************************************)
EXTENDS Integers, Sequences, FiniteSets, SequencesExt, Functions

CONSTANTS
  MaxNodes,   \* bounds the nodes after the trigger
  Results     \* per node: the fact that a calculation there yields

VARIABLES
  nodes       \* the nodes that have run, the trigger first

Trusted == {"source", "quoted", "calculated"}
Rank(label) == CASE label = "guessed" -> 0 [] label \in {"quoted", "calculated"} -> 1 [] label = "source" -> 2

Weakest(labels) ==
  LET present == labels \ {"absent"}
  IN  IF present = {} THEN "absent" ELSE CHOOSE x \in present : \A y \in present : Rank(x) <= Rank(y)

\* A value: what is written in it and, if it is an object, its fields.
NoFields == <<>>
Text(atoms) == [atoms |-> atoms, fields |-> NoFields]
Object(fields) == [atoms |-> Range(fields) \ {"null"}, fields |-> fields]

\* A record: the labels of the ports and of the fields of a port, and the ports
\* whose data, or whose passages, others may quote.
Record(ports, fields, eligible, passages) ==
  [ports |-> ports, fields |-> fields, eligible |-> eligible, passages |-> passages]
Labels(ports) == Record(ports, <<>>, {}, {})

\* A node that has run: its kind, the reference to its input, its expression,
\* what it returned, with what label; whether an older release ran it; and the
\* facts that are established by it (for the properties).
Independent(kind) == kind \in {"input", "record"}
Ref(i, port) == [node |-> i, port |-> port]
Bound == nodes[Len(nodes)]
ValueAt(ref) == nodes[ref.node].out[ref.port]
Lineage(ref) == nodes[ref.node].record
Facts == UNION {nodes[i].facts : i \in DOMAIN nodes}

PortLabel(ref) == Lineage(ref).ports[ref.port]

\* A field's label, or else its port's: "" is the whole value.
ValueLabel(ref, field) ==
  LET record == Lineage(ref) IN
  IF field = "" \/ ref.port \notin DOMAIN record.fields THEN PortLabel(ref)
  ELSE IF field \in DOMAIN record.fields[ref.port] THEN record.fields[ref.port][field] ELSE "guessed"

-----------------------------------------------------------------------------
\* Mutant: what is trusted may be quoted.
TrustedMayBeQuoted(ref) ==
  IF ref.port \in Lineage(ref).passages THEN ValueAt(Ref(ref.node, "sources")).atoms
  ELSE IF PortLabel(ref) \in Trusted THEN ValueAt(ref).atoms ELSE {}

\* What an Agent's values may be quoted from: the passages alone, or data that
\* is trusted and eligible (evidence_context).
Eligible(ref) ==
  IF ref.port \in Lineage(ref).passages THEN ValueAt(Ref(ref.node, "sources")).atoms
  ELSE IF PortLabel(ref) \in Trusted /\ ref.port \in Lineage(ref).eligible THEN ValueAt(ref).atoms ELSE {}

\* The label of a value found, or not, in the evidence.
Quoted(atom, evidence) ==
  IF atom = "null" THEN "absent" ELSE IF atom \in evidence THEN "quoted" ELSE "guessed"
FieldLabels(value, evidence) == [f \in DOMAIN value.fields |-> Quoted(value.fields[f], evidence)]

\* An expression reads the fields x and y of its input: both, or y if x is null.
Expressions == {"x", "x + y", "coalesce(x, y)"}
Operands(expression) == IF expression = "x" THEN {"x"} ELSE {"x", "y"}
Reads(expression, fields) ==
  IF expression = "coalesce(x, y)" /\ fields["x"] # "null" THEN {"x"} ELSE Operands(expression)
Yields(expression, fields) ==
  LET nulls == {f \in Operands(expression) : fields[f] = "null"}
  IN  IF nulls = {} \/ (expression = "coalesce(x, y)" /\ nulls # {"x", "y"}) THEN Results[Len(nodes) + 1] ELSE "null"

\* It is calculated if all that it did read is trusted (calculation_label).
CalculationLabel(ref, expression) ==
  LET fields == ValueAt(ref).fields IN
  IF Yields(expression, fields) = "null" THEN "absent"
  ELSE IF Weakest({ValueLabel(ref, f) : f \in Reads(expression, fields)}) \in Trusted \cup {"absent"}
       THEN "calculated" ELSE "guessed"

-----------------------------------------------------------------------------
\* The record a node goes on with: its own, or the one of an older release, of
\* which only the sources are believed (restored_record).
RestoredRecord(kind, record, left) ==
  IF left = {} \/ Independent(kind) THEN [record EXCEPT !.eligible = IF left = {} THEN @ ELSE {}]
  ELSE Record([p \in DOMAIN record.ports |-> "guessed"],
              [p \in DOMAIN record.fields |-> [f \in DOMAIN record.fields[p] |-> "guessed"]], {}, {})

\* What an older release may have left: it labelled by other rules.
LeftBy(record) ==
  {Record([p \in DOMAIN record.ports |-> "calculated"],
          [p \in DOMAIN record.fields |-> [f \in DOMAIN record.fields[p] |-> "quoted"]], {}, {})}

\* A node has run, or is restored from the checkpoint of an older release if all
\* those before it are.
Ran(kind, ref, config, out, record, facts) ==
  \E old \in {FALSE, Last(nodes).old} :
    nodes' = Append(nodes, [kind |-> kind, ref |-> ref, config |-> config, out |-> out, facts |-> facts, old |-> old,
                            record |-> RestoredRecord(kind, record, IF old THEN LeftBy(record) ELSE {})])

Running == Len(nodes) <= MaxNodes
Ports(i) == DOMAIN nodes[i].out
Refs == UNION {{Ref(i, p) : p \in Ports(i) \ {"sources"}} : i \in DOMAIN nodes}
At(v) == "text" :> v
NoRef == Ref(0, "")

\* What a model may write: something it invents, or anything the run has seen;
\* of two fields one is null, or the second is invented or like the first.
Seen == UNION {UNION {nodes[i].out[p].atoms : p \in Ports(i)} : i \in DOMAIN nodes}
Written == {"m", "null"} \cup Seen
Readings ==
  {Object([x |-> "null", y |-> w]) : w \in Written} \cup
  UNION {{Object([x |-> v, y |-> w]) : w \in {v, "m"}} : v \in Written}

-----------------------------------------------------------------------------
\* The trigger: a text or an object, from outside.
Init ==
  \E v \in {Text({"r"}), Object([x |-> "r", y |-> "null"])}, old \in BOOLEAN :
    nodes = <<[kind |-> "input", ref |-> NoRef, config |-> "", out |-> At(v), facts |-> v.atoms, old |-> old,
               record |-> Record("text" :> "source", <<>>, IF old THEN {} ELSE {"text"}, {})]>>

\* A record read by an adapter, whatever it was asked with.
ReadRecord ==
  /\ Running
  /\ Ran("record", NoRef, "", At(Object([x |-> "s", y |-> "null"])), Record("text" :> "source", <<>>, {"text"}, {}), {"s"})

\* An HTTP or Python result, which may echo anything; or a model's free text.
Opaque ==
  /\ Running
  /\ \E w \in Written \ {"null"} :
       Ran("opaque", NoRef, "", At(Text({w})), Labels("text" :> "guessed"), {})

\* An Agent with a schema: field by field, quoted from its input or a guess.
Extract ==
  /\ Running
  /\ \E ref \in Refs, v \in Readings :
       Ran("agent", ref, "", At(v),
           Record("text" :> "guessed", "text" :> FieldLabels(v, Eligible(ref)), {}, {}), {})

\* The request reader: quoted from the original message alone.
ReadRequest ==
  /\ Running
  /\ \E v \in Readings :
       Ran("reader", Ref(1, "text"), "", At(v),
           Record("text" :> "guessed", "text" :> FieldLabels(v, ValueAt(Ref(1, "text")).atoms), {}, {}), {})

\* Verify extraction hands on what it checks, with its labels.
Verify ==
  /\ Running
  /\ \E ref \in Refs :
       /\ ValueAt(ref).fields # NoFields
       /\ LET of == Lineage(ref).fields
          IN  Ran("verify", ref, "", At(ValueAt(ref)),
                  Record("text" :> PortLabel(ref), IF ref.port \in DOMAIN of THEN "text" :> of[ref.port] ELSE <<>>, {}, {}), {})

\* A template: its input with words of the author.
Compose ==
  /\ Running
  /\ \E ref \in Refs :
       Ran("prompt", ref, "", At(Text(ValueAt(ref).atoms \cup {"l"})),
           Labels("text" :> IF PortLabel(ref) \in Trusted THEN "calculated" ELSE "guessed"), {})

Calculate ==
  /\ Running
  /\ \E ref \in Refs, expression \in Expressions :
       LET fields == ValueAt(ref).fields
           label == CalculationLabel(ref, expression) IN
       /\ Operands(expression) \subseteq DOMAIN fields
       /\ Ran("calculate", ref, expression, At(Object([x |-> Yields(expression, fields)])),
              Record("text" :> label, "text" :> [x |-> label], IF label \in Trusted THEN {"text"} ELSE {}, {}),
              IF \A f \in Reads(expression, fields) : fields[f] \in Facts \cup {"null"}
              THEN {Yields(expression, fields)} \ {"null"} ELSE {})

\* Passages from a knowledge base; the context repeats the question.
Retrieve ==
  /\ Running
  /\ \E ref \in Refs :
       LET echoed == PortLabel(ref)
           question == ValueAt(ref).atoms IN
       Ran("retrieve", ref, "",
           [query |-> Text(question), context |-> Text(question \cup {"s"}), sources |-> Text({"s"})],
           Record([query |-> echoed, context |-> IF echoed \in Trusted THEN "calculated" ELSE "guessed", sources |-> "source"],
                  <<>>, IF question # {} /\ question \subseteq Eligible(ref) THEN {"query"} ELSE {}, {"context"}), {"s"})

\* A loop over what is written in its input, with an Agent as its body: each item
\* is quoted from itself, if the input is eligible, and its result is one of the
\* items or invented; the results are as their weakest item.
ForEach ==
  /\ Running
  /\ \E ref \in Refs :
       LET items == ValueAt(ref).atoms
           own(i) == IF PortLabel(ref) \in Trusted /\ Eligible(ref) # {} THEN {i} ELSE {} IN
       \E results \in [items -> {"m", "null"} \cup items] :
         Ran("for_each", ref, "", At(Text(Range(results) \ {"null"})),
             Labels("text" :> Weakest({Quoted(results[i], own(i)) : i \in items})), {})

Next == ReadRecord \/ Opaque \/ Extract \/ ReadRequest \/ Verify \/ Compose \/ Calculate \/ Retrieve \/ ForEach

Spec == Init /\ [][Next]_nodes

-----------------------------------------------------------------------------
\* What a value can be, from the graph alone (static_label).
StaticRank(label) == CASE label = "guessed" -> 0 [] label = "runtime" -> 1 [] label = "trusted" -> 2
StaticWeakest(labels) == CHOOSE x \in labels : \A y \in labels : StaticRank(x) <= StaticRank(y)

RECURSIVE Static(_, _)
Static(ref, field) ==
  LET node == nodes[ref.node] IN
  CASE Independent(node.kind) -> "trusted"
    [] node.kind = "retrieve" -> Static(node.ref, "")
    [] node.kind \in {"reader", "agent"} -> IF field # "" THEN "runtime" ELSE "guessed"
    [] node.kind = "calculate" ->
         LET label == StaticWeakest({Static(node.ref, f) : f \in Operands(node.config)})
         IN  IF label = "guessed" THEN "runtime" ELSE label   \* a result may be null
    [] node.kind = "for_each" -> "runtime"
    [] node.kind = "prompt" -> Static(node.ref, "")
    [] node.kind \in {"opaque", "verify"} -> "guessed"

RECURSIVE Behind(_)
Behind(ref) == IF ref = NoRef THEN {} ELSE {ref} \cup Behind(nodes[ref.node].ref)

\* What the node that ran last has returned: it changes nothing of the others.
LastRefs == {ref \in Refs : ref.node = Len(nodes)}

\* What is trusted was not invented: whichever way a model's words go on, through
\* templates, questions, loops, calculations, other models, or the checkpoints of
\* an older release, they are never trusted unless a source says the same, nor is
\* a result of them; and what the author wrote is quoted by nobody (for_node,
\* evidence_context, calculation_label, restored_record).
NothingLaundered ==
  \A ref \in LastRefs :
    /\ PortLabel(ref) \in Trusted => ValueAt(ref).atoms \subseteq Facts \cup {"l"}
    /\ \A f \in DOMAIN ValueAt(ref).fields :
         ValueLabel(ref, f) \in Trusted => ValueAt(ref).fields[f] \in Facts \cup {"null"}

\* What the editor says of a decision before any run holds in every run: what is
\* "always a guess" is never trusted, but for what a verification hands on; and
\* what is always trusted is, unless a calculation had nothing to calculate from
\* (static_label, decision_warnings).
WarningsHold ==
  \A ref \in LastRefs : \A f \in {""} \cup DOMAIN ValueAt(ref).fields :
    LET behind == {nodes[r.node] : r \in Behind(ref)} IN
    ~(\E n \in behind : n.old \/ n.kind = "verify") =>
      /\ Static(ref, f) = "guessed" => ValueLabel(ref, f) \notin Trusted
      /\ Static(ref, f) = "trusted" /\ ValueLabel(ref, f) \notin Trusted =>
           \E n \in behind : n.kind = "calculate" /\ n.record.ports["text"] = "absent"
=============================================================================
