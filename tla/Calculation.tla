---------------------------- MODULE Calculation ----------------------------
(***************************************************************************)
(* The expressions of a Calculate node (calculate.py): their parser, what  *)
(* they may read as far as the graph alone tells, and their evaluation     *)
(* with what it did read.  Numbers are whole and of bounded size; a field  *)
(* is a name, not a path; round is left out.                               *)
(***************************************************************************)
EXTENDS Integers, Sequences, FiniteSets, SequencesExt, Functions

CONSTANTS
  Numerals,   \* the number tokens, with their values
  Fields,     \* the field names; one may be called as a function is
  Limit,      \* the largest magnitude: 50 digits
  MaxDepth    \* how deep expressions nest

Calls == {"min", "max", "abs", "coalesce"}
Arity(f) == IF f = "abs" THEN 1 .. 1 ELSE 2 .. 8
Compares == {"==", "<"}
Keywords == {"and", "or", "not"}

\* A syntax tree: a number, a field, or an operator with its arguments.
Tree(op, args) == [op |-> op, args |-> args]
Leaf(token) == Tree(token, <<>>)
IsField(node) == node.args = <<>> /\ node.op \notin DOMAIN Numerals

-----------------------------------------------------------------------------
\* A parse of the tokens ts: the tree, and where it goes on.
Parsed(node, at) == [ok |-> TRUE, node |-> node, at |-> at]
Refused == [ok |-> FALSE, node |-> Leaf(""), at |-> 0]
Token(ts, i) == IF i \in DOMAIN ts THEN ts[i] ELSE ""

\* The operators that repeat at a level of the grammar, from the loosest.
Repeats == <<{"or"}, {"and"}, {}, Compares, {"+", "-"}, {"*", "/"}>>

RECURSIVE Level(_, _, _, _), More(_, _, _, _), Arguments(_, _, _)

Nested(l, ts, i, d) == IF d = MaxDepth THEN Refused ELSE Level(l, ts, i, d + 1)

\* A parenthesised expression, from its first token.
Group(ts, i, d) ==
  LET r == Nested(1, ts, i, d)
  IN  IF r.ok /\ Token(ts, r.at) = ")" THEN Parsed(r.node, r.at + 1) ELSE Refused

\* The arguments of a call, up to its closing parenthesis.
Arguments(ts, i, d) ==
  LET r == Nested(1, ts, i, d) IN
  IF ~r.ok THEN Refused
  ELSE IF Token(ts, r.at) = "," THEN
    LET rest == Arguments(ts, r.at + 1, d)
    IN  IF rest.ok THEN Parsed(Tree("", <<r.node>> \o rest.node.args), rest.at) ELSE Refused
  ELSE IF Token(ts, r.at) = ")" THEN Parsed(Tree("", <<r.node>>), r.at + 1) ELSE Refused

Primary(ts, i, d) ==
  LET token == Token(ts, i) IN
  CASE token \in DOMAIN Numerals -> Parsed(Leaf(token), i + 1)
    [] token = "(" -> Group(ts, i + 1, d)
    [] token \in Calls /\ Token(ts, i + 1) = "(" ->
         LET r == Arguments(ts, i + 2, d)
         IN  IF r.ok /\ Len(r.node.args) \in Arity(token) THEN Parsed(Tree(token, r.node.args), r.at) ELSE Refused
    [] token \in Fields \cup Calls /\ ~(token \in Calls /\ Token(ts, i + 1) = "(") -> Parsed(Leaf(token), i + 1)
    [] OTHER -> Refused

\* What repeats is grouped from the left; a comparison is not repeated.
More(l, ts, r, d) ==
  IF r.ok /\ Token(ts, r.at) \in Repeats[l]
  THEN LET next == Level(l + 1, ts, r.at + 1, d)
           both == Parsed(Tree(ts[r.at], <<r.node, next.node>>), next.at)
       IN  IF ~next.ok \/ (l = 4 /\ Token(ts, next.at) \in Compares) THEN Refused ELSE More(l, ts, both, d)
  ELSE r

\* disjunction, conjunction, negation, comparison, sum, term, unary.
Level(l, ts, i, d) ==
  IF <<l, Token(ts, i)>> \in {<<3, "not">>, <<7, "-">>}
  THEN LET r == Nested(l, ts, i + 1, d) IN IF r.ok THEN Parsed(Tree(ts[i], <<r.node>>), r.at) ELSE Refused
  ELSE IF l = 7 THEN Primary(ts, i, d)
  ELSE IF l = 3 THEN Level(4, ts, i, d)
  ELSE More(l, ts, Level(l + 1, ts, i, d), d)

Parse(ts) ==
  LET r == Nested(1, ts, 1, 0) IN IF r.ok /\ r.at = Len(ts) + 1 THEN r ELSE Refused

-----------------------------------------------------------------------------
\* A value is a kind and a number; an error ends the evaluation, and only
\* "missing" says that something is not stated.
Null == <<"null", 0>>
Missing == <<"missing", 0>>
Error == <<"error", 0>>
Truth(b) == <<"bool", IF b THEN 1 ELSE 0>>
Num(n) == IF n \in -Limit .. Limit THEN <<"number", n>> ELSE Error
Failed(v) == v[1] \in {"missing", "error"}
AsNumber(v) == IF v[1] \in {"bool", "text"} THEN Error ELSE v
Abs(n) == IF n < 0 THEN -n ELSE n
Quotient(n, m) == IF (n < 0) = (m < 0) THEN Abs(n) \div Abs(m) ELSE -(Abs(n) \div Abs(m))

\* Arithmetic on numbers or null.
Arithmetic(op, args) ==
  LET n == args[1][2]  m == Last(args)[2] IN
  IF \E k \in DOMAIN args : args[k] = Null THEN Null ELSE
  CASE op = "-" /\ Len(args) = 1 -> Num(-n)
    [] op = "/" -> IF m = 0 THEN Error ELSE Num(Quotient(n, m))
    [] op = "+" -> Num(n + m)
    [] op = "-" /\ Len(args) = 2 -> Num(n - m)
    [] op = "*" -> Num(n * m)
    [] op = "abs" -> Num(Abs(n))
    [] op = "min" -> Num(IF n < m THEN n ELSE m)
    [] op = "max" -> Num(IF n > m THEN n ELSE m)

Comparison(op, left, right) ==
  IF Null \in {left, right} THEN Missing
  ELSE IF (left[1] = "bool") # (right[1] = "bool") \/ (left[1] = "bool" /\ op # "==") THEN Error
  ELSE Truth(IF op = "==" THEN left[2] = right[2] ELSE left[2] < right[2])

AsTruth(v) == CASE v = Null -> Missing [] v[1] \in {"bool", "missing", "error"} -> v [] OTHER -> Error

\* The result of an evaluation, and the fields it read.
Got(v, used) == [v |-> v, used |-> used]

RECURSIVE Evaluate(_, _), Operands(_, _, _), FirstPresent(_, _)

\* The arguments in turn, as numbers unless compared, up to the first that fails.
Operands(node, value, k) ==
  IF k > Len(node.args) THEN [v |-> <<>>, used |-> {}, failed |-> <<>>]
  ELSE LET r == Evaluate(node.args[k], value)
           v == IF node.op \in Compares THEN r.v ELSE AsNumber(r.v)
           rest == Operands(node, value, k + 1)
       IN  IF Failed(v) THEN [v |-> <<>>, used |-> r.used, failed |-> <<v>>]
           ELSE [v |-> <<v>> \o rest.v, used |-> r.used \cup rest.used, failed |-> rest.failed]

FirstPresent(args, value) ==
  IF args = <<>> THEN Got(Null, {})
  ELSE LET r == Evaluate(args[1], value)
           rest == FirstPresent(Tail(args), value)
       IN  IF r.v = Null THEN Got(rest.v, r.used \cup rest.used) ELSE Got(AsNumber(r.v), r.used)

Connective(node, value) ==
  LET left == Evaluate(node.args[1], value)
      l == AsTruth(left.v)
      right == Evaluate(node.args[2], value)
  IN  IF Failed(l) \/ l = Truth(node.op = "or") THEN Got(l, left.used)
      ELSE Got(AsTruth(right.v), left.used \cup right.used)

Evaluate(node, value) ==
  CASE IsField(node) -> LET v == value[node.op]
                        IN  Got(IF v[1] = "text" THEN Error ELSE v, {node.op})
    [] node.args = <<>> /\ ~IsField(node) -> Got(Num(Numerals[node.op]), {})
    [] node.op = "coalesce" /\ node.args # <<>> -> FirstPresent(node.args, value)
    [] node.op \in {"and", "or"} -> Connective(node, value)
    [] node.op = "not" ->
         LET r == Evaluate(node.args[1], value)
             v == AsTruth(r.v)
         IN  Got(IF Failed(v) THEN v ELSE Truth(v = Truth(FALSE)), r.used)
    [] OTHER ->
         LET r == Operands(node, value, 1)
         IN  IF r.failed # <<>> THEN Got(r.failed[1], r.used)
             ELSE Got(IF node.op \in Compares THEN Comparison(node.op, r.v[1], r.v[2])
                                              ELSE Arithmetic(node.op, r.v), r.used)

-----------------------------------------------------------------------------
RECURSIVE Paths(_), Dependencies(_), Reads(_, _)
Paths(node) ==
  IF IsField(node) THEN {node.op} ELSE UNION {Paths(node.args[k]) : k \in DOMAIN node.args}

\* The fields that the editor finds in the tokens of an expression: names that are
\* not called, and are not words of the language (fieldsReadDownstream).
Suggested(ts) ==
  {ts[i] : i \in {k \in DOMAIN ts : ts[k] \in Fields /\ Token(ts, k + 1) # "("}} \ (Calls \cup Keywords)

\* The value of a part without fields, unless it fails.
Constant(node) == IF Paths(node) # {} THEN Error ELSE Evaluate(node, <<>>).v

\* What may be read of the arguments from the k-th on, and whether that depends
\* on values: a constant decides where the reading ends.
Reads(node, k) ==
  IF k > Len(node.args) THEN [found |-> {}, conditional |-> FALSE]
  ELSE LET here == Dependencies(node.args[k])
           const == Constant(node.args[k])
           chooses == node.op = "coalesce" \/ (node.op \in {"and", "or"} /\ k = 1)
           ends == /\ chooses /\ ~Failed(const)
                   /\ IF node.op = "coalesce" THEN const # Null ELSE const = Truth(node.op = "or")
           rest == Reads(node, k + 1)
       IN  IF ends THEN here
           ELSE [found |-> here.found \cup rest.found,
                 conditional |-> here.conditional \/ rest.conditional \/ (chooses /\ Failed(const))]

Dependencies(node) ==
  IF IsField(node) THEN [found |-> {node.op}, conditional |-> FALSE] ELSE Reads(node, 1)

-----------------------------------------------------------------------------
\* A reference for the parser: an expression written with no more parentheses
\* than needed, and how deep it nests then.
Binds(node) ==
  CASE node.args = <<>> \/ node.op \in Calls -> 8
    [] node.op = "-" /\ Len(node.args) = 1 -> 7
    [] node.op = "not" -> 3
    [] OTHER -> CHOOSE l \in DOMAIN Repeats : node.op \in Repeats[l]
Needs(node, k) ==
  CASE node.op = "not" -> 3
    [] Binds(node) = 7 -> 7
    [] Binds(node) = 4 -> 5
    [] OTHER -> Binds(node) + (IF k = 1 THEN 0 ELSE 1)

RECURSIVE Written(_), Depth(_)
Within(node, k) ==
  LET arg == node.args[k]
  IN  IF Binds(arg) < Needs(node, k) THEN <<"(">> \o Written(arg) \o <<")">> ELSE Written(arg)
Written(node) ==
  CASE node.args = <<>> -> <<node.op>>
    [] node.args # <<>> /\ node.op \in Calls ->
         <<node.op, "(">> \o Written(node.args[1])
           \o FlattenSeq([k \in 1 .. Len(node.args) - 1 |-> <<",">> \o Written(node.args[k + 1])]) \o <<")">>
    [] Len(node.args) = 1 /\ node.op \notin Calls -> <<node.op>> \o Within(node, 1)
    [] OTHER -> Within(node, 1) \o <<node.op>> \o Within(node, 2)
Depth(node) ==
  LET deeper(k) == IF node.op \in Calls \/ Len(node.args) = 1 \/ Binds(node.args[k]) < Needs(node, k) THEN 1 ELSE 0
      extra(k) == IF Len(node.args) = 1 /\ node.op \notin Calls /\ Binds(node.args[k]) < Needs(node, k) THEN 1 ELSE 0
      all == {Depth(node.args[k]) + deeper(k) + extra(k) : k \in DOMAIN node.args}
  IN  IF all = {} THEN 0 ELSE CHOOSE n \in all : \A m \in all : m <= n

\* An expression groups as its operators bind, whatever is written without
\* parentheses, and is refused only for its depth (parse).
ReadAsWritten(node) ==
  LET r == Parse(Written(node)) IN IF Depth(node) < MaxDepth THEN r.ok /\ r.node = node ELSE ~r.ok

\* The editor suggests what an expression reads, but for a field that is named as
\* a function is (fieldsReadDownstream).
SuggestedAreRead(node) == Suggested(Written(node)) = Paths(node) \ Calls

\* A result depends on the fields that were read, and on no other: those are
\* all within what the graph promises and, unless that depends on values, all of
\* it when nothing fails; and only a field that is not there, or null, is an
\* excuse for "missing" (evaluate, dependencies; provenance.calculation_label).
ResultFollowsReads(node, values) ==
  LET promised == Dependencies(node) IN
  \A value \in values :
    LET r == Evaluate(node, value) IN
    /\ \A x \in Fields \ r.used : \A other \in values :
         (\A y \in Fields \ {x} : other[y] = value[y]) => Evaluate(node, other) = r
    /\ r.used \subseteq promised.found
    /\ ~promised.conditional /\ ~Failed(r.v) => r.used = promised.found
    /\ r.v = Missing => \E x \in r.used : value[x] \in {Null, Missing}
=============================================================================
