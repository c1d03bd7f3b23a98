------------------------------ MODULE Evidence ------------------------------
(***************************************************************************)
(* The passages behind the answers of one run: the bounded registry of its *)
(* attempt (evidence_registry.py), the labels it gives them, the sources   *)
(* recorded for reuse (storage.py), and the checks before an answer is     *)
(* reused or published (platform_nodes.py, platform_validation.py).        *)
(*                                                                         *)
(* The workflow: a loop with one item whose body is a Query, then a Query  *)
(* and an agent with a Retrieve tool in parallel, then a Response with the *)
(* text of all three.  Documents may be removed at any time, and the run   *)
(* is executed again after a crash with what was saved.                    *)
(***************************************************************************)
EXTENDS Integers, Sequences, SequencesExt, FiniteSetsExt

CONSTANTS
  Chunks,      \* the chunks of the knowledge base
  Capacity,    \* MAX_EVIDENCE
  TopK,        \* bounds the passages of a search
  MaxAttempts  \* bounds the attempts

VARIABLES
  live,     \* the chunks whose document has not been removed
  counter,  \* the citation counter of the run's row
  saved,    \* per node: its checkpoint, or the loop's saved item, if any
  deps,     \* vector_dependencies: the verified chunks per owner
  attempt,
  run,      \* the run state of the attempt: registry, counter, pins, rejections
  step,     \* where each node is
  got,      \* what it holds: chunks found, then labelled passages
  cites,    \* the passages its answer cites
  response  \* the Response: what its text rests on, what is checked

vars == <<live, counter, saved, deps, attempt, run, step, got, cites, response>>

Nodes == {"item", "query", "agent"}
Passage(label, chunk, cited) == [label |-> label, chunk |-> chunk, cited |-> cited]
Labels(ps) == {ps[i].label : i \in DOMAIN ps}
ChunksOf(ps) == {ps[i].chunk : i \in DOMAIN ps}
CitedLabels(ps) == {ps[i].label : i \in {j \in DOMAIN ps : ps[j].cited}}
High(labels) == Max(labels \cup {0})

NothingSaved == [is |-> FALSE, sources |-> <<>>, cites |-> {}]
Waiting == [at |-> "waiting", checked |-> {}, needed |-> {}, registry |-> <<>>]
Reserved == UNION {CitedLabels(saved[x].sources) : x \in Nodes}

\* The state an attempt starts from (compile_workflow, prepare_checkpoint_labels).
FreshRun ==
  [registry |-> <<>>, pins |-> {}, rejected |-> {}, reused |-> FALSE,
   counter |-> High({counter} \cup UNION {Labels(saved[x].sources) : x \in Nodes})]

Init ==
  /\ live = Chunks /\ counter = 0 /\ attempt = 1
  /\ saved = [x \in Nodes |-> NothingSaved]
  /\ deps = [x \in Nodes |-> {}]
  /\ run = FreshRun
  /\ step = [x \in Nodes |-> "ready"]
  /\ got = [x \in Nodes |-> <<>>] /\ cites = [x \in Nodes |-> {}]
  /\ response = Waiting

-----------------------------------------------------------------------------
\* Mutant: an agent's pins are not looked at.
VictimsUnpinned(r) ==
  {i \in DOMAIN r.registry : ~r.registry[i].cited /\ r.registry[i].label \notin Reserved}

\* What a full registry may evict: what is neither cited, reserved by a checkpoint
\* nor pinned by an agent.
Victims(r) == {i \in DOMAIN r.registry : ~r.registry[i].cited
                 /\ r.registry[i].label \notin Reserved \cup r.pins}

\* remember_evidence, one source: an entry that is there is kept, and stays
\* cited once it is; a full registry evicts its first victim, or rejects the source.
Admit(r, p) ==
  LET entry == [p EXCEPT !.cited = @ \/ p.label \in Reserved]
      here == {i \in DOMAIN r.registry : r.registry[i].label = p.label}
      known == [r EXCEPT !.counter = High({@, p.label})]
  IN  IF here # {}
      THEN [known EXCEPT !.registry[Min(here)].cited = @ \/ entry.cited]
      ELSE IF Len(r.registry) < Capacity
      THEN [known EXCEPT !.registry = Append(@, entry)]
      ELSE IF Victims(r) = {} THEN [known EXCEPT !.rejected = @ \cup {p.label}]
      ELSE [known EXCEPT !.registry = Append(RemoveAt(@, Min(Victims(r))), entry)]

\* remember_evidence: one source after another.
Remember(r, ps) ==
  LET after[k \in 0 .. Len(ps)] == IF k = 0 THEN r ELSE Admit(after[k - 1], ps[k])
  IN  after[Len(ps)]

\* What a batch leaves in the registry: it may evict its own first entries.
Retained(r, ps) ==
  LET kept[k \in 0 .. Len(ps)] ==
        IF k = 0 THEN <<>>
        ELSE IF ps[k].label \in Labels(r.registry) THEN Append(kept[k - 1], ps[k]) ELSE kept[k - 1]
  IN  kept[Len(ps)]

Mark(x, ps) == [i \in DOMAIN ps |-> [ps[i] EXCEPT !.cited = ps[i].label \in {c.label : c \in cites[x]}]]

Goto(x, s) == step' = [step EXCEPT ![x] = s]
Running(x) == /\ response.at = "waiting"
              /\ x = "item" \/ step["item"] = "done"

-----------------------------------------------------------------------------
\* A node starts: its running event drops the sources recorded for it before
\* (the loop's running event names the loop, so those of its item stay), and
\* its search finds up to TopK chunks (ranked alike in every search).
Search(x) ==
  /\ Running(x) /\ step[x] = "ready" /\ Goto(x, "found")
  /\ \E n \in 0 .. TopK : \E found \in [1 .. n -> live] :
       /\ \A i, j \in 1 .. n : i < j => found[i] < found[j]
       /\ got' = [got EXCEPT ![x] = found]
  /\ deps' = IF x = "item" THEN deps ELSE [deps EXCEPT ![x] = {}]
  /\ UNCHANGED <<live, counter, saved, attempt, run, cites, response>>

\* retrieve_node: the sources are verified and recorded, and labelled; nothing
\* is awaited between.
Register(x) ==
  LET chunks == {got[x][i] : i \in DOMAIN got[x]}
      fresh == [i \in DOMAIN got[x] |-> Passage(run.counter + i, got[x][i], FALSE)]
      after == Remember([run EXCEPT !.counter = @ + Len(fresh)], fresh)
  IN  /\ Running(x) /\ step[x] = "found" /\ chunks \subseteq live
      /\ Goto(x, IF x = "agent" THEN "returned" ELSE "using")
      /\ deps' = [deps EXCEPT ![x] = @ \cup chunks]
      /\ run' = after /\ got' = [got EXCEPT ![x] = Retained(after, fresh)]
      /\ UNCHANGED <<live, counter, saved, attempt, cites, response>>

\* The agent collects what its Retrieve tool returned, whose success event has
\* been saved meanwhile: it is remembered again and pinned.
Collect(x) ==
  LET after == Remember(run, got[x])
      kept == Retained(after, got[x])
  IN  /\ Running(x) /\ step[x] = "returned" /\ Goto(x, "using")
      /\ counter' = High({counter} \cup Labels(got[x]))
      /\ run' = [after EXCEPT !.pins = @ \cup Labels(kept)]
      /\ got' = [got EXCEPT ![x] = kept]
      /\ UNCHANGED <<live, saved, deps, attempt, cites, response>>

\* The answer cites some of its passages, or abstains; all of them are verified
\* first.  An agent's are marked in the registry before its pins are released.
Answer(x) ==
  /\ Running(x) /\ step[x] = "using" /\ Goto(x, "answered")
  /\ ChunksOf(got[x]) \subseteq live
  /\ \E cited \in SUBSET {got[x][i] : i \in DOMAIN got[x]} :
       LET ps == [i \in DOMAIN got[x] |-> [got[x][i] EXCEPT !.cited = got[x][i] \in cited]]
       IN  /\ cites' = [cites EXCEPT ![x] = cited]
           /\ run' = IF x = "agent" THEN [Remember(run, ps) EXCEPT !.pins = {}] ELSE run
  /\ UNCHANGED <<live, counter, saved, deps, attempt, got, response>>

HighWater(labels) == High({counter} \cup labels)

\* A node's success event is saved with its checkpoint (compile_workflow,
\* worker_event); of an item, the event of its body, and then its entry.
Save(x) ==
  LET ps == Mark(x, got[x]) IN
  /\ Running(x) /\ x # "item" /\ step[x] = "answered" /\ Goto(x, "done")
  /\ run' = Remember(run, ps)
  /\ saved' = [saved EXCEPT ![x] = [is |-> TRUE, sources |-> ps, cites |-> cites[x]]]
  /\ counter' = HighWater(Labels(ps))
  /\ UNCHANGED <<live, deps, attempt, got, cites, response>>

ReportItem ==
  /\ step["item"] = "answered" /\ Goto("item", "reported")
  /\ counter' = HighWater(Labels(got["item"]))
  /\ UNCHANGED <<live, saved, deps, attempt, run, got, cites, response>>

SaveItem ==
  /\ step["item"] = "reported" /\ Goto("item", "done")
  /\ saved' = [saved EXCEPT !["item"] = [NothingSaved EXCEPT !.is = TRUE, !.cites = cites["item"]]]
  /\ UNCHANGED <<live, counter, deps, attempt, run, got, cites, response>>

\* A checkpoint is restored: checked again, its passages back in the registry.
Restore(x) ==
  /\ Running(x) /\ x # "item" /\ step[x] = "restore" /\ Goto(x, "done")
  /\ deps[x] \cup ChunksOf(saved[x].sources) \subseteq live
  /\ run' = Remember(run, saved[x].sources) /\ cites' = [cites EXCEPT ![x] = saved[x].cites]
  /\ UNCHANGED <<live, counter, saved, deps, attempt, got, response>>

\* A saved item is not executed: its text is reused without its passages.
ReuseItem ==
  /\ step["item"] = "restore" /\ Goto("item", "done")
  /\ run' = [run EXCEPT !.reused = TRUE]
  /\ cites' = [cites EXCEPT !["item"] = saved["item"].cites]
  /\ UNCHANGED <<live, counter, saved, deps, attempt, got, response>>

\* What the Response checks: the registry, and what reused items rest on.
Needed == ChunksOf(run.registry) \cup IF run.reused THEN deps["item"] ELSE {}

\* response_node reads the registry, then verifies batch by batch.
Ground ==
  /\ response.at = "waiting" /\ \A x \in Nodes : step[x] = "done"
  /\ response' = [at |-> "checking", checked |-> {}, needed |-> Needed, registry |-> run.registry]
  /\ UNCHANGED <<live, counter, saved, deps, attempt, run, step, got, cites>>

Verify ==
  /\ response.at = "checking"
  /\ \E c \in response.needed \ response.checked :
       c \in live /\ response' = [response EXCEPT !.checked = @ \cup {c}]
  /\ UNCHANGED <<live, counter, saved, deps, attempt, run, step, got, cites>>

Publish ==
  /\ response.at = "checking" /\ response.needed = response.checked
  /\ response' = [response EXCEPT !.at = "published"]
  /\ UNCHANGED <<live, counter, saved, deps, attempt, run, step, got, cites>>

\* A check finds a source gone: the run fails, or nothing is published.
Refused ==
  /\ response.at \in {"waiting", "checking"}
  /\ \/ \E c \in response.needed \ response.checked : c \notin live
     \/ \E x \in Nodes : Running(x) /\
          \/ step[x] = "found" /\ \E i \in DOMAIN got[x] : got[x][i] \notin live
          \/ step[x] = "using" /\ ~(ChunksOf(got[x]) \subseteq live)
          \/ step[x] = "restore" /\ x # "item"
             /\ ~(deps[x] \cup ChunksOf(saved[x].sources) \subseteq live)
  /\ response' = [Waiting EXCEPT !.at = "refused"]
  /\ UNCHANGED <<live, counter, saved, deps, attempt, run, step, got, cites>>

\* The worker dies and another claims the run: kb_errors checks the sources of
\* all that is to be reused before it is executed.
NextAttempt ==
  /\ response.at \in {"waiting", "checking"} /\ attempt < MaxAttempts
  /\ attempt' = attempt + 1 /\ run' = FreshRun
  /\ step' = [x \in Nodes |-> IF saved[x].is THEN "restore" ELSE "ready"]
  /\ got' = [x \in Nodes |-> <<>>] /\ cites' = [x \in Nodes |-> {}]
  /\ response' = IF \A x \in Nodes : saved[x].is =>
                      deps[x] \cup ChunksOf(saved[x].sources) \subseteq live
                 THEN Waiting ELSE [Waiting EXCEPT !.at = "refused"]
  /\ UNCHANGED <<live, counter, saved, deps>>

\* A document is removed from the knowledge base.
RemoveDocument ==
  /\ response.at \in {"waiting", "checking"}
  /\ \E c \in live : live' = live \ {c}
  /\ UNCHANGED <<counter, saved, deps, attempt, run, step, got, cites, response>>

Next ==
  \/ \E x \in Nodes : Search(x) \/ Register(x) \/ Collect(x) \/ Answer(x) \/ Save(x) \/ Restore(x)
  \/ ReportItem \/ SaveItem \/ ReuseItem \/ Ground \/ Verify \/ Publish
  \/ Refused \/ NextAttempt \/ RemoveDocument

Spec == Init /\ [][Next]_vars

-----------------------------------------------------------------------------
\* In whichever attempt it was written, a label in a published text that
\* resolves names the passage its author cited, and that passage passed the
\* check of this Response; so did everything a reused item rests on, though its
\* labels resolve no more (response_node, verify_published, reused_dependencies).
PublishedSources ==
  response.at = "published" =>
    /\ \A x \in Nodes : \A c \in cites[x] : \A i \in DOMAIN response.registry :
         response.registry[i].label = c.label =>
           response.registry[i].chunk = c.chunk /\ c.chunk \in response.checked
    /\ run.reused => \A c \in cites["item"] : c.chunk \in response.checked

\* What an agent works with is in the registry until its answer is marked, and
\* what a finished answer cites stays there until the end of the attempt, unless
\* the registry rejected it; only a Query in a loop has its citations unprotected
\* (evidence_registry.py:1, remember_evidence, execute_agent).
UsedKept ==
  LET here == Labels(run.registry) \cup run.rejected IN
  /\ step["agent"] = "using" => Labels(got["agent"]) \subseteq Labels(run.registry)
  /\ step["agent"] \in {"answered", "done"} => {c.label : c \in cites["agent"]} \subseteq here
  /\ step["query"] = "done" => {c.label : c \in cites["query"]} \subseteq here
=============================================================================
