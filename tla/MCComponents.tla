---------------------------- MODULE MCComponents ----------------------------
(***************************************************************************)
(* The components of Components on small instances, and beside them, in    *)
(* the same slots, those of which nothing is proved.  The modules that     *)
(* compute and keep no state come first, with their inputs.                *)
(***************************************************************************)
EXTENDS Components

-----------------------------------------------------------------------------
\* Expressions over two numerals and two fields, of which one is called as a
\* function is: every shape up to two operators, and some of three.
NumeralValues == [t \in {"0", "2"} |-> IF t = "0" THEN 0 ELSE 2]
Calc == INSTANCE Calculation WITH Numerals <- NumeralValues, Fields <- {"a", "min"}, Limit <- 4, MaxDepth <- 3

Leaves == {Calc!Leaf(t) : t \in {"0", "2", "a", "min"}}
Unary(ops, args) == {Calc!Tree(op, <<x>>) : op \in ops, x \in args}
Binary(ops, lefts, rights) == {Calc!Tree(op, <<x, y>>) : op \in ops, x \in lefts, y \in rights}
Small == Binary({"+", "-", "*", "/", "min", "coalesce"}, Leaves, Leaves) \cup Unary({"-", "abs"}, Leaves)
Sums ==
  UNION {Binary({"-", "*"}, Small, {Calc!Leaf("2"), Calc!Leaf("a")}),
         Binary({"-", "/", "coalesce"}, {Calc!Leaf("2"), Calc!Leaf("min")}, Small), Unary({"-"}, Small)}
Tests ==
  UNION {Binary({"=="}, Leaves, Leaves), {Calc!Leaf("a")},
         Binary({"<"}, {Calc!Leaf("0"), Calc!Leaf("a")}, {Calc!Leaf("2"), Calc!Leaf("min")})}
Logical ==
  UNION {Binary({"and", "or"}, Tests, Tests), Unary({"not"}, Tests), Binary({"<"}, Small, {Calc!Leaf("a")}),
         Binary({"or"}, Binary({"and"}, Tests, {Calc!Leaf("a")}), {Calc!Leaf("min")}),
         Unary({"not"}, Binary({"and"}, Tests, {Calc!Leaf("min")}))}
Coalesces == {Calc!Tree("coalesce", <<x, y, z>>) : x, y, z \in Leaves}
Expressions == UNION {Leaves, Small, Sums, Tests, Logical, Coalesces}
ReadValues == [{"a", "min"} -> {Calc!Null, Calc!Missing, <<"number", 0>>, <<"number", 2>>, Calc!Truth(TRUE)}]

-----------------------------------------------------------------------------
\* Readings of a message with up to three numbers, or of an object, under up to
\* two cross-checks in either order.
Extract == INSTANCE Extraction WITH Fields <- {"q", "p", "t"}, Listed <- {1, 2},
  Accepted <- [x \in {"q", "p", "t"} |-> 1 .. 4], Texts <- <<>>, Truths <- {}

Answers ==
  [type : {"request"}, reply : {FALSE},
   values : [q : {-1, 1, 2}, p : {-1, 1, 2}, t : {-1, 2, 4}] \cup [{"q", "t"} -> {-1, 2}]]
    \cup [type : {"unrelated"}, reply : BOOLEAN, values : [{"q", "p", "t"} -> {-1, 2}]]
Messages ==
  UNION {{Extract!Message(written, Extract!NotAnObject, eligible, TRUE) :
            written \in {{1, 2}, {1, 2, 4}}, eligible \in {TRUE}},
         {Extract!Message({1, 2, 4}, Extract!NotAnObject, FALSE, TRUE), Extract!Message({1, 2}, [q |-> 2, p |-> 1, t |-> 2], TRUE, TRUE), Extract!Message({2}, [p |-> 2], TRUE, FALSE)}}
CrossChecks ==
  {Extract!Check("t", "*", <<"q", "p">>), Extract!Check("t", "+", <<"q", "p">>), Extract!Check("", "<", <<"p", "t">>)}
FieldRules ==
  [q : {{"accept_quoted"}, {"accept_quoted", "enum"}},
   p : {{"accept_quoted"}, {"source_field"}, {"reference_member"}},
   t : {{"accept_quoted"}, {"quoted"}, {}}]
Configs ==
  {config \in [rules : FieldRules, required : {{"q"}}, any : {{}, {{"p"}, {"t"}}},
          checks : {<<>>} \cup {<<x>> : x \in CrossChecks} \cup {<<x, y>> \in CrossChecks \X CrossChecks : x # y}] :
     Extract!Complete(config)}
Readings == [answer : Answers, message : Messages, config : Configs]

-----------------------------------------------------------------------------
\* Values of every kind under every valid condition with up to two operands.
Decide == INSTANCE Conditions

Decimals == [digits : {-1, 0, 1, 10, 100, 125}, exp : -3 .. 3]
Numerals == {x \in Decimals : Decide!InRange(x)}
Scalars ==
  UNION {{Decide!Value("number", x) : x \in Numerals}, {Decide!Value("bool", truth) : truth \in BOOLEAN},
         {Decide!Text(Decide!Word(w), pad, cap) : w \in {"", "true", "x"}, pad, cap \in BOOLEAN},
         {Decide!Text(Decide!Numeral(x, "str"), FALSE, FALSE) : x \in Decimals}}
Decided ==
  UNION {Scalars, {Decide!Null, Decide!Value("infinite", 0)}, {Decide!Value("list", size) : size \in {0, 1}},
         {Decide!Object(<<>>), Decide!Object([k |-> Decide!Null]), Decide!Text(Decide!Json(Decide!Object(<<>>)), FALSE, FALSE)}}
Operands ==
  UNION {{v[2] : v \in {x \in Scalars : x[1] = "text" /\ x[2].content[1] = "word"}},
         {Decide!Text(Decide!Numeral([digits |-> 10, exp |-> exp], "other"), TRUE, FALSE)[2] : exp \in -1 .. 1},
         {Decide!Text(Decide!Numeral([digits |-> 1, exp |-> 0], spelled), TRUE, FALSE)[2] : spelled \in {"other", "long"}}}
Comparisons ==
  {when \in [operator : {"contains", "eq", "ne", "gt", "gte", "lt", "lte", "in", "empty"}, field : {<<>>},
          operands : {<<>>} \cup {<<x>> : x \in Operands} \cup {<<x, y>> : x, y \in Operands},
          number : BOOLEAN, sensitive : BOOLEAN] : Decide!Valid(when)}
Decisions == [value : Decided, when : Comparisons]

-----------------------------------------------------------------------------
\* Three chunks under every ranking, with every way to call them.
Rank == INSTANCE Ranking WITH Common <- 240, RankBase <- 1, Weights <- 2

Chunks == 1 .. 3
Renamings == {to \in [Chunks -> Chunks] : {to[x] : x \in Chunks} = Chunks}
Searches ==
  {search \in [mode : {"similarity", "keyword", "hybrid", "rrf"}, weight : 0 .. 2, candidates : {2, 3}, top : {2},
          chunks : {Chunks}, vector : [Chunks -> 1 .. 2], words : [Chunks -> 0 .. 2],
          ordinal : {<<1, 2, 3>>, <<3, 1, 2>>}] :
     search.top <= search.candidates /\ (search.mode # "hybrid" => search.weight = 1)}
-----------------------------------------------------------------------------
\* Up to three items of every size and outcome, under either error policy, with
\* room for the ceiling's smallest list only.
Collected == INSTANCE LoopResults WITH Retained <- 14, Hard <- 26, TextCap <- 6

Items ==
  UNION {{Collected!Raw("success", v, 0, r, FALSE) : v \in {0, 7}, r \in {0, 9}},
         {Collected!Raw("failed", 0, error, 0, handed) : error \in {1, 9}, handed \in BOOLEAN}}
Collections ==
  [raw : (UNION {[1 .. size -> Items] : size \in 0 .. 3}) \cup [1 .. 2 -> Items \cup {Collected!Refused}],
   config : [stop : BOOLEAN, total : 2 .. 3, grounded : BOOLEAN]]
-----------------------------------------------------------------------------
\* Requests to every draft: up to three numbers, two texts and an object.
Offer == INSTANCE RequestRouting WITH Most <- 4, Threshold <- 3, Limit <- 8
DraftAnswers(t) ==
  [type : {"request", "unrelated"}, reply : {FALSE},
   values : {v \in [DOMAIN t.fields -> {-1, 0, 1, 2, 4, 101, 103, 201, 202}] :
               \A field \in DOMAIN v : v[field] # -1 => v[field] \in Offer!Allowed(t.fields[field]) \cup {0}}]
DraftMessages(t, values) ==
  LET used == {values[field] : field \in DOMAIN values} \ {-1, 201, 202} IN
  {Offer!Read(t.fields)!Message(written \cup (IF 103 \in written THEN {1} ELSE {}), object, TRUE, records) :
     written \in {used} \cup {used \cup {4}, used \ {2}}, object \in {<<>>, values}, records \in BOOLEAN}
Requests ==
  UNION {UNION {{Offer!Run(t, answer, message) : message \in DraftMessages(t, answer.values)} :
                answer \in DraftAnswers(t)} : t \in Offer!Drafts}
DraftsDecide ==
  \A r \in Requests : \A outcome \in {Offer!Outcome(r.draft, r.answer, r.report)} :
    Offer!DraftDecides(r, outcome) /\ Offer!DetailTells(r, outcome)
-----------------------------------------------------------------------------
\* Jira answers of up to four rows, with every way to tell of further pages.
JiraAnswers ==
  {x \in [operation : {"search", "get_issue", "write"}, rest : 0 .. 1,
          answer : [shape : {"rows", "unreadable"}, text : {0, 4, 13}, rows : UNION {[1 .. size -> 0 .. 3] : size \in 0 .. 4},
                    token : BOOLEAN, last : {"yes", "no", "untold"}, total : -1 .. 5]] :
     LET answer == x.answer IN
     /\ x.operation = "get_issue" => Len(answer.rows) = 1 /\ x.rest = 0
     /\ answer.total \in {-1, Len(answer.rows) + x.rest}
     /\ (answer.token \/ answer.last = "no") => x.rest > 0
     /\ x.rest > 0 => answer.token \/ answer.last = "no" \/ answer.total > Len(answer.rows)}

-----------------------------------------------------------------------------
\* The modules that keep state, each in the slots.
Graph == INSTANCE WorkflowGraph WITH
  N <- 5, Kinds <- {"step", "control", "join", "response"}, MaxAttempts <- 2,
  workflow <- a, status <- b, attempt <- c, ready <- d, over <- e, values <- f,
  recovered <- g, arrived <- h, ran <- i, branch <- j, completed <- k

Origins == INSTANCE Lineage WITH
  MaxNodes <- 3, Results <- <<"", "c1", "c2", "c3">>,
  nodes <- a

MCInit ==
  \/ Init
  \/ subject = "graph" /\ Graph!Init /\ l = 0 /\ m = 0 /\ n = 0 /\ o = 0 /\ p = 0 /\ q = 0
  \/ subject = "lineage" /\ Origins!Init /\ b = 0 /\ c = 0 /\ d = 0 /\ e = 0 /\ f = 0 /\ g
     = 0 /\ h = 0 /\ i = 0 /\ j = 0 /\ k = 0 /\ l = 0 /\ m = 0 /\ n = 0 /\ o = 0 /\ p = 0
     /\ q = 0
  \/ subject = "calc" /\ a \in Expressions /\ b = 0 /\ c = 0 /\ d = 0 /\ e = 0 /\ f = 0 /\
     g = 0 /\ h = 0 /\ i = 0 /\ j = 0 /\ k = 0 /\ l = 0 /\ m = 0 /\ n = 0 /\ o = 0 /\ p =
     0 /\ q = 0
  \/ subject = "reading" /\ a \in Readings /\ b = 0 /\ c = 0 /\ d = 0 /\ e = 0 /\ f = 0 /\
     g = 0 /\ h = 0 /\ i = 0 /\ j = 0 /\ k = 0 /\ l = 0 /\ m = 0 /\ n = 0 /\ o = 0 /\ p =
     0 /\ q = 0
  \/ subject = "decision" /\ a \in Decisions /\ b = 0 /\ c = 0 /\ d = 0 /\ e = 0 /\ f = 0
     /\ g = 0 /\ h = 0 /\ i = 0 /\ j = 0 /\ k = 0 /\ l = 0 /\ m = 0 /\ n = 0 /\ o = 0 /\ p
     = 0 /\ q = 0
  \/ subject = "ranking" /\ a \in Searches /\ b = 0 /\ c = 0 /\ d = 0 /\ e = 0 /\ f = 0 /\
     g = 0 /\ h = 0 /\ i = 0 /\ j = 0 /\ k = 0 /\ l = 0 /\ m = 0 /\ n = 0 /\ o = 0 /\ p =
     0 /\ q = 0
  \/ subject = "results" /\ a \in {each \in Collections : each.config.total >=
     Len(each.raw)} /\ b = 0 /\ c = 0 /\ d = 0 /\ e = 0 /\ f = 0 /\ g = 0 /\ h = 0 /\ i =
     0 /\ j = 0 /\ k = 0 /\ l = 0 /\ m = 0 /\ n = 0 /\ o = 0 /\ p = 0 /\ q = 0
  \/ subject = "offers" /\ a \in {0} /\ b = 0 /\ c = 0 /\ d = 0 /\ e = 0 /\ f = 0 /\ g = 0
     /\ h = 0 /\ i = 0 /\ j = 0 /\ k = 0 /\ l = 0 /\ m = 0 /\ n = 0 /\ o = 0 /\ p = 0 /\ q
     = 0
  \/ subject = "answers" /\ a \in JiraAnswers /\ b = 0 /\ c = 0 /\ d = 0 /\ e = 0 /\ f = 0
     /\ g = 0 /\ h = 0 /\ i = 0 /\ j = 0 /\ k = 0 /\ l = 0 /\ m = 0 /\ n = 0 /\ o = 0 /\ p
     = 0 /\ q = 0

MCNext ==
  \/ Next
  \/ subject = "graph" /\ Graph!Next /\ UNCHANGED <<subject, l, m, n, o, p, q>>
  \/ subject = "lineage" /\ Origins!Next /\ UNCHANGED <<subject, b, c, d, e, f, g, h, i,
     j, k, l, m, n, o, p, q>>

MCSpec == MCInit /\ [][MCNext]_all

-----------------------------------------------------------------------------
\* In every attempt at a workflow that validates, a node that runs finds every
\* value its bindings name, whichever branch was taken and whatever was recovered
\* before; the run publishes at most one answer; and no write runs beside
\* another branch (compiler.py: binding_guarantees, branch_errors).
BranchesHold == subject = "graph" => Graph!GuaranteesHold /\ Graph!OneAnswer /\ Graph!WritesAlone

\* Whichever way a model's words go on, through templates, questions, loops,
\* calculations or the checkpoints of an older release, they are never labelled as
\* trusted unless a source says the same; and what the editor says of a value
\* before any run holds in every run, but after a verification or where a
\* calculation came to nothing (provenance.py: for_node, restored_record,
\* static_label).
OriginsHold == subject = "lineage" => Origins!NothingLaundered /\ Origins!WarningsHold

\* A formula means what its writing says, yields a number whenever the fields it
\* reads allow, and the editor's suggestions are the fields it reads; a comparison
\* depends on a value, not on its spelling, but for a number's text that is too long,
\* which is an error, and takes one path; a decimal is sent unrounded, and whenever
\* it can be; with other IDs for the same chunks a search finds the
\* same ones, but for level chunks of a hybrid search, and what both rankings
\* prefer comes first (calculate.py, conditions.py, exact_json.py, kb/search.py).
DecidedExactly ==
  /\ subject = "calc" => Calc!ReadAsWritten(a) /\ Calc!SuggestedAreRead(a) /\ Calc!ResultFollowsReads(a, ReadValues)
  /\ subject = "decision" =>
       /\ Decide!SpellingDoesNotDecide(a.value, a.when)
       /\ Decide!PathsSplit(a.value, a.when)
       /\ a.value[1] = "null" => Decide!SwitchingLeavesNothing(a.when, {"contains", "eq", "gt", "in", "empty"})
       /\ a.value[1] = "number" => Decide!SentWhenever(a.value[2])
  /\ subject = "ranking" => Rank!Repeatable(a, Renamings) /\ Rank!ByMerit(a)

\* A reading passes only when every value of it is established by the message, and
\* one that is established passes; the drafts of the router are admitted as drawn,
\* and each of them decides on a reading that passed or asks a person, and the
\* page tells why (extraction_checks.py, request_reader.py, request-routing.ts).
\* The results a loop keeps fit the ceiling, are the same after any interruption,
\* and tell whatever was lost, also of a loop saved by an earlier release; and a
\* Jira result that is not called truncated is the whole answer (iteration.py,
\* tool_service.py).
ReadingsHold ==
  /\ subject = "reading" =>
       /\ Extract!PassedIsEstablished(a.answer, a.message, a.config)
       /\ Extract!EstablishedPasses(a.answer, a.message, a.config)
  /\ subject = "offers" => Offer!DraftsAdmitted /\ Offer!SuggestionsSuffice /\ DraftsDecide
  /\ subject = "results" =>
       /\ Collected!WithinCeiling(a.raw, a.config) /\ Collected!KeptArePrefix(a.raw, a.config)
       /\ Collected!ResumesAlike(a.raw, a.config) /\ Collected!SummaryTells(a.raw, a.config)
       /\ \A at \in DOMAIN a.raw \cup {0}, items \in {"list", "lost"} : Collected!OldLossIsTold(a.raw, a.config, at, items)
  /\ subject = "answers" => Users!Tool!ItemsTell(a.operation, a.answer, a.rest)
=============================================================================
