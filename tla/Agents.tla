------------------------------- MODULE Agents -------------------------------
(***************************************************************************)
(* An agent and its specialist (agent_runtime.py), with a read and a write *)
(* tool attached to both, over the attempts at a run: what the model asks  *)
(* for is arbitrary and is not repeated after a crash.  A pause for an     *)
(* approval saves the frames of the agents (approvals.py); the worker that *)
(* executes the run again goes on from them, or else begins afresh.        *)
(***************************************************************************)
EXTENDS Integers, Sequences, FiniteSets, SequencesExt, Functions

CONSTANTS
  Inputs,      \* what a write may be asked with
  MaxSteps,    \* max_steps of the agent and of the specialist
  MaxAttempts  \* bounds the attempts at the run

VARIABLES
  gated,       \* whether the write tool asks for approval
  structured,  \* whether the answers must follow a schema
  job,         \* the run's status
  attempt,
  spent,       \* the run-wide budget that ran out, if any
  approvals,   \* run_approvals by invocation
  results,     \* run_action_results by invocation
  markers,     \* write_nodes
  frames,      \* agent_frames, the agent's first
  stack,       \* the agents executing, the specialist last
  stage,       \* how far the write has come
  sent,        \* how many requests left, by place
  output       \* the agent's answer, not yet saved unless the job is done

vars == <<gated, structured, job, attempt, spent, approvals, results, markers, frames,
          stack, stage, sent, output>>
config == <<gated, structured>>
store == <<approvals, results, markers, frames>>

\* An agent at work: the invocation it answers, its place in the plan, its step, the writes its transcript
\* tells of, those it was told were not sent although they were, its truncations,
\* whether it was cut short (for the properties), its evidence, and the call it
\* waits for.
NoCall == [target |-> "", input |-> 0]
Agent(inv, place) == [inv |-> inv, place |-> place, step |-> 0, known |-> {}, denied |-> {}, cut |-> FALSE,
               short |-> FALSE, evidence |-> FALSE, call |-> NoCall]
NoOutput == [kind |-> "none", cut |-> FALSE, short |-> FALSE]
Top == Last(stack)
Nested == Len(stack) = 2
Owner == <<>>   \* the agent node, as the marker of its approved writes

Init ==
  /\ gated \in BOOLEAN /\ structured \in BOOLEAN
  /\ job = "running" /\ attempt = 1 /\ spent = ""
  /\ approvals = <<>> /\ results = <<>> /\ markers = {} /\ frames = <<>>
  /\ stack = <<Agent(<<>>, <<>>)>> /\ stage = "" /\ sent = <<>> /\ output = NoOutput

-----------------------------------------------------------------------------
Working == job = "running" /\ output = NoOutput /\ stage = ""
Planning == Working /\ Top.call = NoCall

\* Where a call stands in the plan (for the properties).
Place(agent) == agent.place \o <<[step |-> agent.step + 1, target |-> agent.call.target]>>

\* The identity of a call: where it is, not when it is made.
Invocation(agent) == agent.inv \o <<[step |-> agent.step + 1, target |-> agent.call.target]>>

\* The agent goes on with what its call returned.
Observed(agent, got) ==
  [agent EXCEPT !.step = @ + 1, !.call = NoCall, !.known = @ \cup got.known,
                !.denied = @ \cup got.denied, !.cut = @ \/ got.cut, !.short = @ \/ got.short, !.evidence = @ \/ got.evidence]
Nothing == [known |-> {}, denied |-> {}, cut |-> FALSE, short |-> FALSE, evidence |-> FALSE]
Continue(got) == stack' = Append(Front(stack), Observed(Top, got))

\* The specialist returns, or fails: its caller observes that.
Return(got) == stack' = <<Observed(stack[1], got)>>

\* An answer: the agent's is the node's output, a specialist's an observation,
\* with its grounding; after an abstention of the guard nothing is answered.
Answer(kind, agent) ==
  IF Nested
  THEN Return(agent) /\ UNCHANGED output
  ELSE output' = [kind |-> kind, cut |-> agent.cut, short |-> agent.short] /\ UNCHANGED stack

\* A refusal for lack of budget: the agent fails with its node, a specialist's
\* failure is an observation and, as it names a budget, a truncation.
OutOfBudget(agent) ==
  IF Nested THEN Return([agent EXCEPT !.cut = TRUE, !.short = TRUE, !.evidence = FALSE]) /\ UNCHANGED job
            ELSE job' = "failed" /\ stack' = <<>>

\* The action budget or the tokens of the run are used up, by whichever node.
Exhaust ==
  /\ Planning /\ spent = ""
  /\ spent' \in {"actions", "tokens"}
  /\ UNCHANGED <<config, job, attempt, store, stack, stage, sent, output>>

Exhausted == Top.step >= MaxSteps[Len(stack)] \/ spent # ""
Short == [Top EXCEPT !.cut = TRUE, !.short = TRUE]

\* A step without a budget left: out of tokens nothing more is asked.
StopTyped ==
  /\ Planning /\ spent = "tokens" /\ structured
  /\ OutOfBudget(Short)
  /\ UNCHANGED <<config, attempt, spent, store, stage, sent, output>>

StopWithoutEvidence ==
  /\ Planning /\ Exhausted /\ ~(spent = "tokens" /\ structured) /\ ~Top.evidence
  /\ IF Nested THEN OutOfBudget(Short) /\ UNCHANGED output
               ELSE Answer("abstain", Short) /\ UNCHANGED job
  /\ UNCHANGED <<config, attempt, spent, store, stage, sent>>

StopWithEvidence ==
  /\ Planning /\ Exhausted /\ ~(spent = "tokens" /\ structured) /\ Top.evidence
  /\ Answer(IF spent = "tokens" THEN "abstain" ELSE "answer", Short)
  /\ UNCHANGED <<config, job, attempt, spent, store, stage, sent>>

\* The model answers; or its answer needs a repair and the tokens run out.
Final ==
  /\ Planning /\ ~Exhausted
  /\ \/ Answer("answer", Top) /\ UNCHANGED <<job, spent>>
     \/ /\ spent' = "tokens"
        /\ IF structured \/ (Nested /\ ~Top.evidence) THEN OutOfBudget(Short) /\ UNCHANGED output
                         ELSE Answer("abstain", Short) /\ UNCHANGED job
  /\ UNCHANGED <<config, attempt, store, stage, sent>>

\* It asks for something that cannot be called so, or an attached node fails.
Observation ==
  /\ Planning /\ ~Exhausted /\ Continue(Nothing)
  /\ UNCHANGED <<config, job, attempt, spent, store, stage, sent, output>>

\* It reads: evidence, or a result that is incomplete.
Read ==
  /\ Planning /\ ~Exhausted
  /\ \E evidence, cut \in BOOLEAN :
       Continue([Nothing EXCEPT !.evidence = evidence, !.cut = cut, !.short = cut])
  /\ UNCHANGED <<config, job, attempt, spent, store, stage, sent, output>>

\* The answerability guard finds the passages insufficient: all agents abstain.
Abstain ==
  /\ Planning /\ ~Exhausted
  /\ output' = [NoOutput EXCEPT !.kind = "guard"]
  /\ UNCHANGED <<config, job, attempt, spent, store, stack, stage, sent>>

\* It asks the specialist.
Delegate ==
  /\ Planning /\ ~Exhausted /\ ~Nested
  /\ LET caller == [Top EXCEPT !.call = [target |-> "specialist", input |-> 0]]
     IN  stack' = <<caller, Agent(Invocation(caller), Place(caller))>>
  /\ UNCHANGED <<config, job, attempt, spent, store, stage, sent, output>>

\* It asks for a write.
AskWrite ==
  /\ Planning /\ ~Exhausted
  /\ \E input \in Inputs :
       stack' = Append(Front(stack), [Top EXCEPT !.call = [target |-> "write", input |-> input]])
  /\ UNCHANGED <<config, job, attempt, spent, store, stage, sent, output>>

-----------------------------------------------------------------------------
Writing == Working /\ Top.call.target = "write"
Here == Invocation(Top)
Completed == {inv \in DOMAIN approvals : approvals[inv].status = "completed"}
Known(inv) == [Nothing EXCEPT !.known = {inv}]
Put(f, inv, value) == [x \in DOMAIN f \cup {inv} |-> IF x = inv THEN value ELSE f[x]]

\* Mutant: a frame has no truncations.
FramesUncut == [i \in DOMAIN stack |-> [stack[i] EXCEPT !.cut = FALSE]]

\* Every agent on the way out adds its frame to the pause.
Frames == stack

\* No approval yet: the request is recorded with the frames, and the lease given up.
Pause ==
  /\ Writing /\ gated /\ Here \notin DOMAIN approvals
  /\ approvals' = Put(approvals, Here, [status |-> "pending", input |-> Top.call.input])
  /\ frames' = Frames /\ job' = "awaiting" /\ stack' = <<>>
  /\ UNCHANGED <<config, attempt, spent, results, markers, stage, sent, output>>

Decide ==
  /\ job = "awaiting"
  /\ \E inv \in DOMAIN approvals :
       /\ approvals[inv].status = "pending"
       /\ \/ approvals' = [approvals EXCEPT ![inv].status = "approved"] /\ job' = "queued"
          \/ approvals' = [approvals EXCEPT ![inv].status = "rejected"] /\ job' = "terminal"
  /\ UNCHANGED <<config, attempt, spent, results, markers, frames, stack, stage, sent, output>>

\* The request cannot be built: nothing is sent, and the agent is told so, also
\* when the request, approved, was sent before.
NotSent ==
  /\ Writing /\ (gated \/ Here \notin DOMAIN results)
  /\ Continue([Nothing EXCEPT !.denied = {Here} \cap Completed])
  /\ UNCHANGED <<config, job, attempt, spent, store, stage, sent, output>>

\* It was done before: its stored result is returned.
Replay ==
  /\ Writing
  /\ IF gated THEN Here \in DOMAIN approvals /\ approvals[Here] = [status |-> "completed", input |-> Top.call.input]
              ELSE Here \in DOMAIN results
  /\ Continue(Known(Here))
  /\ UNCHANGED <<config, job, attempt, spent, store, stage, sent, output>>

\* Its intent is recorded: begin, or mark_write.
Mark ==
  /\ Writing /\ stage' = "marked"
  /\ IF gated
     THEN /\ Here \in DOMAIN approvals /\ approvals[Here] = [status |-> "approved", input |-> Top.call.input]
          /\ approvals' = [approvals EXCEPT ![Here].status = "executing"]
          /\ markers' = markers \cup {Owner}
     ELSE Here \notin DOMAIN results /\ markers' = markers \cup {Here} /\ UNCHANGED approvals
  /\ UNCHANGED <<config, job, attempt, spent, results, frames, stack, sent, output>>

Send ==
  /\ job = "running" /\ stage = "marked" /\ stage' = "sent"
  /\ LET place == Place(Top)
         before == IF place \in DOMAIN sent THEN sent[place] ELSE 0
     IN  sent' = Put(sent, place, before + 1)
  /\ UNCHANGED <<config, job, attempt, spent, store, stack, output>>

\* complete, or settle_write.
Settle ==
  /\ job = "running" /\ stage = "sent" /\ stage' = "" /\ Continue(Known(Here))
  /\ IF gated THEN /\ approvals' = [approvals EXCEPT ![Here].status = "completed"]
                   /\ markers' = markers \ {Owner} /\ UNCHANGED results
              ELSE /\ results' = Put(results, Here, Top.call.input)
                   /\ markers' = markers \ {Here} /\ UNCHANGED approvals
  /\ UNCHANGED <<config, job, attempt, spent, frames, sent, output>>

\* No answer: the outcome is uncertain, which no agent may observe.
Uncertain ==
  /\ job = "running" /\ stage \in {"marked", "sent"}
  /\ job' = "failed" /\ stack' = <<>> /\ stage' = ""
  /\ UNCHANGED <<config, attempt, spent, store, sent, output>>

-----------------------------------------------------------------------------
\* The node's success event saves its output and drops its frames.
Checkpoint ==
  /\ job = "running" /\ output # NoOutput
  /\ job' = "success" /\ frames' = <<>> /\ stack' = <<>>
  /\ UNCHANGED <<config, attempt, spent, approvals, results, markers, stage, sent, output>>

\* A worker takes the run: after a decision, after another's death, or resumed
\* by a person; not with an unsettled write.
Claim ==
  /\ job \in {"queued", "running", "failed"} /\ attempt < MaxAttempts
  /\ attempt' = attempt + 1 /\ stage' = "" /\ output' = NoOutput
  /\ IF markers = {} THEN job' = "running" /\ stack' = IF frames # <<>> THEN frames ELSE <<Agent(<<>>, <<>>)>>
                     ELSE job' = "terminal" /\ stack' = <<>>
  /\ UNCHANGED <<config, spent, store, sent>>

Next ==
  \/ Exhaust \/ StopTyped \/ StopWithoutEvidence \/ StopWithEvidence
  \/ Final \/ Observation \/ Read \/ Abstain \/ Delegate \/ AskWrite
  \/ Pause \/ Decide \/ NotSent \/ Replay \/ Mark \/ Send \/ Settle \/ Uncertain
  \/ Checkpoint \/ Claim

Spec == Init /\ [][Next]_vars

-----------------------------------------------------------------------------
\* Whatever the model asks for in each attempt, a request leaves at most once for
\* a place in the agents' plans; and with approvals the agent goes on from where
\* it was: of every write that was carried out it was told, or is told when it
\* asks for what was reviewed; unless, on its return, the request cannot be built
\* any more (execute_agent; approvals.pause; worker.py, prepare_write).
SentIsKnown ==
  /\ \A place \in DOMAIN sent : sent[place] = 1
  /\ gated /\ job = "running" /\ output = NoOutput =>
       Completed \subseteq (UNION {stack[i].known \cup stack[i].denied : i \in DOMAIN stack})
                             \cup {Invocation(stack[i]) : i \in DOMAIN stack}
  /\ Writing /\ gated /\ Here \in DOMAIN approvals => approvals[Here].input = Top.call.input

\* An answer says that it is incomplete exactly when something it was made from
\* was cut, or a budget stopped the agent or its specialist, pauses in between
\* included (execute_agent, truncations).
ShortIsFlagged == output.kind \in {"answer", "abstain"} => output.cut = output.short
=============================================================================
