---------------------------- MODULE WorkflowGraph ---------------------------
(***************************************************************************)
(* What the compiler accepts as a workflow, and what LangGraph then does   *)
(* with it: forks and joins, control nodes, error routes, and attempts     *)
(* that stop and are resumed from the checkpoints.                         *)
(***************************************************************************)
EXTENDS Integers, FiniteSets, Sequences

CONSTANTS
  N,           \* nodes, numbered; 1 is the trigger of every drawing
  Kinds,       \* what the editor may put at the other nodes
  MaxAttempts  \* bound: attempts at the run

Ids == 1 .. N

(***************************************************************************)
(* A workflow w: kind and on_error of each node, its links (the handle an  *)
(* edge leaves by and the node it enters), and the nodes that write to the *)
(* outside world themselves or through what is attached to them.           *)
(***************************************************************************)
Targets(w, i) == {l.to : l \in w.links[i]}
Handles(w, i) == {l.handle : l \in w.links[i]}
Arrivals(w, i) ==
  UNION {{[source |-> s, handle |-> l.handle] : l \in {k \in w.links[s] : k.to = i}} : s \in Ids}

\* The nodes that flow edges lead to from each node.
Downstream(w) ==
  LET reach[k \in 0 .. N] ==
        IF k = 0 THEN [i \in Ids |-> Targets(w, i)]
        ELSE LET sofar == reach[k - 1]
             IN  [i \in Ids |-> LET here == sofar[i] IN here \cup UNION {Targets(w, j) : j \in here}]
  IN reach[N]

Control(w, i) == w.kind[i] = "control"
Fork(w, i) ==
  /\ w.kind[i] \notin {"response", "control"} /\ w.on_error[i] # "route"
  /\ Cardinality(w.links[i]) >= 2

-----------------------------------------------------------------------------
\* Each node has the edges that its kind and its error policy call for.
LinksFit(w, i) ==
  LET links == w.links[i] IN
  CASE w.kind[i] = "response" -> links = {}
    [] Control(w, i) ->
         /\ Cardinality(links) = 2 /\ Handles(w, i) = {"yes", "no"}
         /\ w.on_error[i] = "fail"
    [] w.kind[i] \notin {"response", "control"} /\ w.on_error[i] = "route" ->
         Cardinality(links) = 2 /\ Handles(w, i) = {"output", "error"}
    [] OTHER -> Cardinality(links) \in 1 .. 8 /\ Handles(w, i) = {"output"}

OneTrigger(w) == \E t \in Ids :
  /\ {i \in Ids : w.kind[i] = "trigger"} = {t} /\ Arrivals(w, t) = {}
  /\ Ids = {t} \cup Downstream(w)[t]

Acyclic(w) == \A i \in Ids : i \notin Downstream(w)[i]

\* What a fork's branch does not hold: it must run to its end, once.
Plain(w, i) ==
  /\ w.kind[i] \notin {"response", "control"} /\ w.on_error[i] # "route"
  /\ Cardinality(w.links[i]) = 1 /\ i \notin w.writers

\* The branch that starts at a node: the plain part, and the node it ends at.
Branch(w, start) ==
  LET Stops(i) == w.kind[i] = "join" \/ Cardinality(Arrivals(w, i)) # 1
      walk[i \in Ids] ==
        IF Stops(i) THEN [nodes |-> {}, last |-> i]
        ELSE IF Cardinality(w.links[i]) # 1 THEN [nodes |-> {i}, last |-> 0]
        ELSE LET rest == walk[CHOOSE j \in Targets(w, i) : TRUE]
             IN [nodes |-> rest.nodes \cup {i}, last |-> rest.last]
  IN walk[start]

Branches(w, fork) == {Branch(w, i) : i \in Targets(w, fork)}

BranchesMeet(w) ==
  /\ \A f \in Ids : Fork(w, f) =>
       /\ \A b \in Branches(w, f) : \A i \in b.nodes : Plain(w, i)
       /\ \E j \in Ids : w.kind[j] = "join" /\
            \A b \in Branches(w, f) : b.nodes # {} /\ b.last = j
  /\ \A j \in Ids : w.kind[j] = "join" =>
       /\ Cardinality(Arrivals(w, j)) \in 2 .. 8 /\ w.on_error[j] = "fail"
       /\ \E f \in Ids : Fork(w, f) /\
            \A e \in Arrivals(w, j) : \E b \in Branches(w, f) : e.source \in b.nodes

Valid(w) ==
  /\ OneTrigger(w) /\ Acyclic(w) /\ \A i \in Ids : LinksFit(w, i)
  /\ BranchesMeet(w) /\ \E i \in Ids : w.kind[i] = "response"

-----------------------------------------------------------------------------
Yields(w, e) == e.handle # "error" /\ w.on_error[e.source] # "continue"

\* Mutant: what some path guarantees counts for all of them.
AnyPath(w, i, arriving) == UNION arriving

AllPaths(w, i, arriving) ==
  IF w.kind[i] = "join" \/ arriving = {} THEN UNION arriving
  ELSE {s \in UNION arriving : \A a \in arriving : s \in a}

\* binding_guarantees: the nodes that ran on every path to a node, and those
\* whose outputs exist there.
Guarantees(w) ==
  LET executed[i \in Ids] ==
        AllPaths(w, i, {executed[e.source] \cup {e.source} : e \in Arrivals(w, i)})
      available[i \in Ids] ==
        AllPaths(w, i, {available[e.source] \cup (IF Yields(w, e) THEN {e.source} ELSE {}) :
                        e \in Arrivals(w, i)})
  IN [executed |-> executed, available |-> available]

\* flow_order: each node after those with an edge to it, the first by id of those
\* that may come next.
FlowOrder(w) ==
  LET placed[k \in 0 .. N] ==
        IF k = 0 THEN <<>>
        ELSE LET done == placed[k - 1]
                 before == {done[n] : n \in DOMAIN done}
                 free == {i \in Ids \ before : \A e \in Arrivals(w, i) : e.source \in before}
             IN  IF free = {} THEN done ELSE Append(done, CHOOSE i \in free : \A j \in free : i <= j)
  IN placed[N]

\* bindableOutputs: the outputs that the editor offers each node.
Bindable(w) ==
  LET order == FlowOrder(w)
      known[k \in 0 .. Len(order)] ==
        IF k = 0 THEN [i \in Ids |-> {}]
        ELSE LET offered == known[k - 1]
                 arriving == {offered[e.source] \cup (IF Yields(w, e) THEN {e.source} ELSE {}) : e \in Arrivals(w, order[k])}
             IN  [offered EXCEPT ![order[k]] = AllPaths(w, order[k], arriving)]
  IN known[Len(order)]

-----------------------------------------------------------------------------
VARIABLES
  workflow,   \* a workflow the compiler accepts, and what it guarantees
  status,     \* running, failed, succeeded
  attempt,
  ready,      \* the nodes LangGraph runs in this step
  over,       \* those of them that ended
  values,     \* nodes with outputs in the state of the attempt
  recovered,  \* failed_nodes
  arrived,    \* per join: the branches that wrote to its barrier
  ran,        \* per node: how often it was entered in this attempt
  branch,     \* the route a control's outputs name
  completed   \* nodes with a checkpoint

vars == <<workflow, status, attempt, ready, over, values, recovered, arrived, ran,
          branch, completed>>

w == workflow.drawn

\* Drawings: edges lead to higher numbers, a node has at most two.
Later(i) == i + 1 .. N
LinkChoices(i, kind, policy) ==
  IF kind = "response" THEN {{}}
  ELSE IF kind = "control" \/ policy = "route"
  THEN {{[handle |-> IF kind = "control" THEN "yes" ELSE "output", to |-> a],
         [handle |-> IF kind = "control" THEN "no" ELSE "error", to |-> b]} :
        a \in Later(i), b \in Later(i)}
  ELSE {{[handle |-> "output", to |-> a], [handle |-> "output", to |-> b]} :
        a \in Later(i), b \in Later(i)}

Policies(kind) == IF kind = "step" THEN {"fail", "continue", "route"} ELSE {"fail"}

Drawing(kind, policy, links, writers) ==
  [kind |-> kind, on_error |-> policy, links |-> links, writers |-> writers]

LinkMaps(kind, policy) ==
  LET upto[i \in 0 .. N] ==
        IF i = 0 THEN {<<>>}
        ELSE {Append(m, c) : m \in upto[i - 1], c \in LinkChoices(i, kind[i], policy[i])}
  IN upto[N]

Begun ==
  /\ ready = {1} /\ over = {} /\ values = {} /\ recovered = {}
  /\ arrived = [i \in Ids |-> {}] /\ ran = [i \in Ids |-> 0]

Init ==
  /\ \E kinds \in [2 .. N - 1 -> Kinds] :
       LET kind == [i \in Ids |-> IF i = 1 THEN "trigger"
                                  ELSE IF i = N THEN "response" ELSE kinds[i]] IN
       \E policy \in {p \in [Ids -> {"fail", "continue", "route"}] :
                        \A i \in Ids : p[i] \in Policies(kind[i])} :
       \E links \in LinkMaps(kind, policy) :
         /\ UNION {{l.to : l \in links[i]} : i \in Ids} = Ids \ {1}
         /\ \E writers \in SUBSET {i \in Ids : kind[i] = "step"} :
              LET drawn == Drawing(kind, policy, links, writers) IN
              /\ Valid(drawn)
              /\ workflow = [drawn |-> drawn, guarantees |-> Guarantees(drawn)]
  /\ status = "running" /\ attempt = 1 /\ Begun
  /\ branch = [i \in Ids |-> "none"] /\ completed = {}

-----------------------------------------------------------------------------
Running(i) == status = "running" /\ i \in ready \ over

\* The node is entered and ends in this step, with outputs or without.
Ends(i) == over' = over \cup {i} /\ ran' = [ran EXCEPT ![i] = @ + 1]

\* A node with a checkpoint is not executed; a control keeps its branch.
Restore(i) ==
  /\ Running(i) /\ i \in completed /\ Ends(i)
  /\ UNCHANGED <<workflow, status, attempt, ready, values, recovered, arrived, branch,
                 completed>>

\* The handler returns: a checkpoint, and of a control one of its routes.
Succeed(i) ==
  /\ Running(i) /\ i \notin completed /\ Ends(i)
  /\ completed' = completed \cup {i}
  /\ \E b \in IF Control(w, i) THEN {"yes", "no"} ELSE {"none"} :
       branch' = [branch EXCEPT ![i] = b]
  /\ UNCHANGED <<workflow, status, attempt, ready, values, recovered, arrived>>

\* The handler fails and the policy recovers: no outputs and no checkpoint.
Recover(i) ==
  /\ Running(i) /\ i \notin completed /\ w.on_error[i] # "fail" /\ Ends(i)
  /\ recovered' = recovered \cup {i}
  /\ UNCHANGED <<workflow, status, attempt, ready, values, arrived, branch, completed>>

\* A failure nobody recovers, or the worker stops; siblings are cancelled.
Stop ==
  /\ status = "running" /\ status' = "failed"
  /\ UNCHANGED <<workflow, attempt, ready, over, values, recovered, arrived, ran,
                 branch, completed>>

\* Where the edges of a node that ended lead: route, recover, or every edge.
Followed(i) ==
  CASE Control(w, i) -> {l \in w.links[i] : l.handle = branch[i]}
    [] ~Control(w, i) /\ w.on_error[i] = "route" ->
         {l \in w.links[i] : l.handle = (IF i \in recovered THEN "error" ELSE "output")}
    [] OTHER -> {l \in w.links[i] : w.kind[l.to] # "join"}

Barrier(j) == {e.source : e \in Arrivals(w, j)}

\* The next step runs what was triggered; a Join, once all its branches wrote.
Advance ==
  LET now == [j \in Ids |-> IF w.kind[j] = "join" THEN arrived[j] \cup (over \cap Barrier(j))
                            ELSE {}]
      joined == {j \in Ids : w.kind[j] = "join" /\ now[j] = Barrier(j)}
      next == joined \cup UNION {{l.to : l \in Followed(i)} : i \in over} IN
  /\ status = "running" /\ over = ready
  /\ values' = values \cup (over \ recovered)
  /\ ready' = next /\ over' = {}
  /\ arrived' = [j \in Ids |-> IF j \in joined THEN {} ELSE now[j]]
  /\ status' = IF next = {} THEN "succeeded" ELSE "running"
  /\ UNCHANGED <<workflow, attempt, recovered, ran, branch, completed>>

\* A new attempt starts at the trigger with the checkpoints.
Resume ==
  /\ status = "failed" /\ attempt < MaxAttempts
  /\ attempt' = attempt + 1 /\ status' = "running"
  /\ ready' = {1} /\ over' = {} /\ values' = {} /\ recovered' = {}
  /\ arrived' = [i \in Ids |-> {}] /\ ran' = [i \in Ids |-> 0]
  /\ UNCHANGED <<workflow, branch, completed>>

Next ==
  \/ \E i \in Ids : Restore(i) \/ Succeed(i) \/ Recover(i)
  \/ Stop \/ Advance \/ Resume

Spec == Init /\ [][Next]_vars

-----------------------------------------------------------------------------
(* When a node is entered, every node that binding_guarantees lets it read *)
(* has outputs in this attempt, whatever failed, recovered or was restored *)
(* before; a validated binding is never a missing key.  The editor offers  *)
(* the bindings that validation allows, and no other (bindableOutputs).    *)
GuaranteesHold ==
  /\ \A i \in ready :
       /\ workflow.guarantees.available[i] \subseteq values
       /\ workflow.guarantees.executed[i] \subseteq {j \in Ids : ran[j] > 0}
  /\ ready = {1} /\ over = {} => Bindable(w) = workflow.guarantees.available

(* An accepted workflow runs no node twice in an attempt, a Join not before*)
(* all of its branches, and ends with exactly one response.                *)
OneAnswer ==
  /\ \A i \in Ids : ran[i] <= 1 /\ (i \in ready \ over => ran[i] = 0)
  /\ \A j \in ready : w.kind[j] = "join" => \A s \in Barrier(j) : ran[s] = 1
  /\ status = "succeeded" =>
       Cardinality({i \in Ids : w.kind[i] = "response" /\ ran[i] = 1}) = 1

(* While a node writes to the outside world no other node is in flight: a  *)
(* sibling's failure could cancel the write halfway (branch_errors).       *)
WritesAlone ==
  (\E i \in ready : i \in w.writers) => Cardinality(ready) = 1
=============================================================================
