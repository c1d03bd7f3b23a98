----------------------------- MODULE Components -----------------------------
(***************************************************************************)
(* Components that do not act on each other, side by side: a behaviour     *)
(* belongs to one subject, chosen at the start, whose variables are slots. *)
(* What the components promise together is defined here, and proved of     *)
(* every behaviour from what ComponentProofs and RunProofs prove of each   *)
(* component.                                                              *)
(***************************************************************************)
EXTENDS Integers, Sequences, TLAPS

CONSTANTS
  Accounts, Addresses, Logins, Clock, Soft, Hard, Lock,           \* of Access
  Contents, LastStamp, MaxWorkflows, MaxVersions,                 \* of WorkflowSave
  MaxCases, CaseIds, Rules, MaxEdges, MaxWho,                     \* of SwitchCases
  Browsers, Emails, MaxInvites, LastTime, Lifetime, MaxSessions,  \* of Accounts
  MaxCredentials, MaxRows,                                        \* of Workspace
  Owners, NumItems,                                               \* of LoopProgress
  Writers, MaxEvents, PageSize,                                   \* of EventStream
  Processes, Newest, MaxRunEvents, MaxStarts,                     \* of Startup
  Executions, MaxPending,                                         \* of RunView
  Attempts, MaxCalls, MaxTokens,                                  \* of ModelCalls
  Sources, MaxIndexes,                                            \* of Retrieval
  AgentInputs, AgentSteps, SpecialistSteps, RunAttempts,          \* of Agents
  MaxClaims,                                                      \* of RequestSafety
  Names, Endpoints, Secrets, MaxEdits, MaxItems, Budget,          \* of ToolRequests
  Scale, Magnitude, Precision, FloatRange, IntDigits,             \* of Conditions
  TextDigits, MaxExponent,
  BaseChunks, MaxEvidence, MaxFound, AnswerAttempts               \* of Evidence

VARIABLES subject, a, b, c, d, e, f, g, h, i, j, k, l, m, n, o, p, q

slots == <<a, b, c, d, e, f, g, h, i, j, k, l, m, n, o, p, q>>
all == <<subject, slots>>

Users == INSTANCE ComponentProofs WITH
  Ids <- CaseIds, Chunks <- BaseChunks, Capacity <- MaxEvidence, TopK <- MaxFound,
  MaxAttempts <- AnswerAttempts,
  now <- a, budgets <- b, logins <- c, order <- d,
  docs <- a, editor <- b,
  list <- a, entries <- b, edges <- c, made <- d,
  mode <- b, accounts <- c, bootstrap <- d, invites <- e, sessions <- f,
  tokens <- g, cookie <- h, calls <- i, stream <- j, orderly <- k,
  engine <- a, registered <- b, run <- c, credentials <- d, permissions <- e,
  inserted <- f, config <- g, task <- h, refused <- i,
  connection <- a, edits <- b, tool <- c, step <- d, prepared <- e, reviewed <- f,
  sent <- g, outcome <- h, raced <- i, late <- j,
  live <- a, counter <- b, saved <- e, deps <- f, attempt <- g, got <- h, cites <- i, response <- j

Work == INSTANCE RunProofs WITH
  Page <- PageSize, Runs <- Executions, Docs <- Sources, MaxVersions <- MaxIndexes,
  Inputs <- AgentInputs, MaxSteps <- <<AgentSteps, SpecialistSteps>>, MaxAttempts <- RunAttempts,
  config <- a, holder <- b, fresh <- c, rows <- d, checkpoint <- e, markers <- f,
  stored <- g, approval <- h, step <- i, results <- j, sent <- k, answer <- l,
  log <- a, status <- b, tx <- c, open <- d, stream <- e, wire <- f, view <- g, late <- h,
  db <- a, runs <- b, upgrade <- c, procs <- d,
  server <- a, run <- b, events <- c, running <- d, busy <- f, active <- g,
  pending <- h, crossed <- i,
  provider <- a, stage <- b, attempt <- c, usage <- d, totals <- e, made <- f,
  charged <- g, lost <- h,
  deleted <- a, live <- b, contents <- c, segments <- d, listed <- e, reader <- f,
  gated <- a, structured <- d, job <- e, spent <- g, approvals <- h, frames <- i, stack <- l, output <- m,
  drawing <- a, nulls <- c, cancel <- d, claims <- e, saved <- f, frame <- g, reviews <- h, at <- i,
  out <- j, bound <- l, path <- m, reading <- n, granted <- o, cleared <- p, why <- q

Init ==
  \/ subject = "loop" /\ Work!Loop!Init /\ m = 0 /\ n = 0 /\ o = 0 /\ p = 0 /\ q = 0
  \/ subject = "login" /\ Users!Login!Init /\ e = 0 /\ f = 0 /\ g = 0 /\ h = 0 /\ i = 0
     /\ j = 0 /\ k = 0 /\ l = 0 /\ m = 0 /\ n = 0 /\ o = 0 /\ p = 0 /\ q = 0
  \/ subject = "accounts" /\ Users!Door!Init /\ l = 0 /\ m = 0 /\ n = 0 /\ o = 0 /\ p = 0
     /\ q = 0
  \/ subject = "workspace" /\ Users!Home!Init /\ j = 0 /\ k = 0 /\ l = 0 /\ m = 0 /\ n = 0
     /\ o = 0 /\ p = 0 /\ q = 0
  \/ subject = "editing" /\ Users!Editing!Init /\ c = 0 /\ d = 0 /\ e = 0 /\ f = 0 /\ g = 0
     /\ h = 0 /\ i = 0 /\ j = 0 /\ k = 0 /\ l = 0 /\ m = 0 /\ n = 0 /\ o = 0 /\ p = 0
     /\ q = 0
  \/ subject = "cases" /\ Users!Cases!Init /\ e = 0 /\ f = 0 /\ g = 0 /\ h = 0 /\ i = 0
     /\ j = 0 /\ k = 0 /\ l = 0 /\ m = 0 /\ n = 0 /\ o = 0 /\ p = 0 /\ q = 0
  \/ subject = "events" /\ Work!Events!Init /\ i = 0 /\ j = 0 /\ k = 0 /\ l = 0 /\ m = 0
     /\ n = 0 /\ o = 0 /\ p = 0 /\ q = 0
  \/ subject = "view" /\ Work!View!Init /\ j = 0 /\ k = 0 /\ l = 0 /\ m = 0 /\ n = 0
     /\ o = 0 /\ p = 0 /\ q = 0
  \/ subject = "calls" /\ Work!Calls!Init /\ i = 0 /\ j = 0 /\ k = 0 /\ l = 0 /\ m = 0
     /\ n = 0 /\ o = 0 /\ p = 0 /\ q = 0
  \/ subject = "search" /\ Work!Search!Init /\ h = 0 /\ i = 0 /\ j = 0 /\ k = 0 /\ l = 0
     /\ m = 0 /\ n = 0 /\ o = 0 /\ p = 0 /\ q = 0
  \/ subject = "agent" /\ Work!Crew!Init /\ n = 0 /\ o = 0 /\ p = 0 /\ q = 0
  \/ subject = "safety" /\ Work!Safety!Init
  \/ subject = "tool" /\ Users!Tool!Init /\ k = 0 /\ l = 0 /\ m = 0 /\ n = 0 /\ o = 0 /\ p = 0
     /\ q = 0
  \/ subject = "evidence" /\ Users!Passages!Init /\ k = 0 /\ l = 0 /\ m = 0 /\ n = 0 /\ o = 0
     /\ p = 0 /\ q = 0
  \/ subject = "startup" /\ Work!Begin!Init /\ e = 0 /\ f = 0 /\ g = 0 /\ h = 0 /\ i = 0
     /\ j = 0 /\ k = 0 /\ l = 0 /\ m = 0 /\ n = 0 /\ o = 0 /\ p = 0 /\ q = 0

Next ==
  \/ subject = "loop" /\ Work!Loop!Next /\ UNCHANGED <<subject, m, n, o, p, q>>
  \/ subject = "login" /\ Users!Login!Next
     /\ UNCHANGED <<subject, e, f, g, h, i, j, k, l, m, n, o, p, q>>
  \/ subject = "accounts" /\ Users!Door!Next /\ UNCHANGED <<subject, l, m, n, o, p, q>>
  \/ subject = "workspace" /\ Users!Home!Next
     /\ UNCHANGED <<subject, j, k, l, m, n, o, p, q>>
  \/ subject = "editing" /\ Users!Editing!Next
     /\ UNCHANGED <<subject, c, d, e, f, g, h, i, j, k, l, m, n, o, p, q>>
  \/ subject = "cases" /\ Users!Cases!Next
     /\ UNCHANGED <<subject, e, f, g, h, i, j, k, l, m, n, o, p, q>>
  \/ subject = "events" /\ Work!Events!Next
     /\ UNCHANGED <<subject, i, j, k, l, m, n, o, p, q>>
  \/ subject = "view" /\ Work!View!Next /\ UNCHANGED <<subject, j, k, l, m, n, o, p, q>>
  \/ subject = "calls" /\ Work!Calls!Next
     /\ UNCHANGED <<subject, i, j, k, l, m, n, o, p, q>>
  \/ subject = "search" /\ Work!Search!Next
     /\ UNCHANGED <<subject, h, i, j, k, l, m, n, o, p, q>>
  \/ subject = "agent" /\ Work!Crew!Next /\ UNCHANGED <<subject, n, o, p, q>>
  \/ subject = "safety" /\ Work!Safety!Next /\ UNCHANGED subject
  \/ subject = "tool" /\ Users!Tool!Next /\ UNCHANGED <<subject, k, l, m, n, o, p, q>>
  \/ subject = "evidence" /\ Users!Passages!Next /\ UNCHANGED <<subject, k, l, m, n, o, p, q>>
  \/ subject = "startup" /\ Work!Begin!Next
     /\ UNCHANGED <<subject, e, f, g, h, i, j, k, l, m, n, o, p, q>>

Spec == Init /\ [][Next]_all

-----------------------------------------------------------------------------
\* A loop that stops and resumes: a saved item's row never changes, a finished
\* loop returns what its items returned however often its checkpoint was made
\* small and read again, and the write of an item refines WriteOnce, so that no
\* crash, pause or late settlement makes it leave twice (iteration.py,
\* Store._compact_loop, Store._hydrate_loop, Store.settle_write).
LoopsKept ==
  /\ [](subject = "loop" => Work!Loop!RestoredAsReturned)
  /\ [][subject = "loop" => \A x \in Work!Loop!Items : Work!Loop!Progress[x] # Work!Loop!NoRow =>
          Work!Loop!Progress'[x] = Work!Loop!Progress[x] /\ k'[x] = k[x]]_all
  /\ subject = "loop" => Work!Loop!ItemWrites!Init
  /\ [][subject = "loop" => Work!Loop!ItemWrites!Next \/ UNCHANGED <<Work!Loop!WritePhase, k>>]_all

\* What a retrieval returns is of one version, of documents not removed by then,
\* and stays citable while none of them is removed (kb_gateway.py, kb/search.py).
\* In whichever attempt it was written, a label in a published text that resolves
\* names the passage its author cited, which passed the check of this Response, and
\* a passage in use stays in the registry (evidence_registry.py, platform_nodes.py).
SourcesHold ==
  /\ [](subject = "search" => Work!Search!StaysCitable)
  /\ [][subject = "search" /\ Work!Search!Returns => Work!Search!SourcesHold]_all
  /\ [](subject = "evidence" => Users!Passages!PublishedSources /\ Users!Passages!UsedKept)

\* Whoever comes in does so by right and no more often than allowed: password
\* checks within one lock's time are bounded however attempts interleave, wait or
\* crash; a closed deployment admits one account and an invitation one account;
\* of a browser's sessions only the one in its cookie opens the door; and a
\* stream outlives its session by one batch (auth_security.py, auth.py).  The first
\* account takes the workspace over with a run under way: what the run was
\* permitted it still is, a check that passed is followed by its credential, and
\* its rows are in its workspace unless their transaction had looked the workspace
\* up before (auth.py:213-216, storage.py:427-470).
AccountsHold ==
  /\ subject = "login" => Users!Login!AttemptsBounded
  /\ subject = "accounts" => Users!Door!EnteredByRight /\ Users!Door!OneSessionEach /\ Users!Door!StreamsEnd
  /\ subject = "workspace" => Users!Home!ModelsStayUsable /\ Users!Home!LeftInWorkspace

\* No save is overwritten unseen, though answers are lost or late and two saves
\* may share a time; and a connection of a Switch keeps the case it was drawn
\* from through every rename, move and repair (Store.save_workflow, switch.ts).
EditsKept ==
  /\ [](subject = "editing" => Users!Editing!SavedFromSeen)
  /\ [](subject = "cases" => Users!Cases!RoutesKept)
  /\ [][subject = "cases" => Users!Cases!NothingDropped]_all

\* A status shown as where a run has come to has all its events with it, in order
\* and once, whatever is lost, sent twice or committed meanwhile; and the events
\* under a run are its own, and its page is not left disabled, whichever answers
\* come late, but in the cases that crossed names (main.py, Store._event,
\* workflow-editor.tsx).
HistoryTells ==
  /\ subject = "events" => Work!Events!EventsComplete
  /\ subject = "view" => Work!View!EventsOfRun /\ Work!View!Followed /\ Work!View!BusyEnds

\* The tokens shown of a run are what was spent whenever no warning stands beside
\* them, but for attempts lost inside a call that was answered in full
\* (registry.py:161-219, usageLabel).
CountsHold == subject = "calls" => Work!Calls!TotalsTell

\* A write carries the reading that the checks passed or a person accepted, over
\* pauses, crashes and resumed runs; each person's answer behind it still stood
\* when it was let through; and of a workflow that validates nothing is refused
\* but for a lapsed confirmation or a calculation that came to nothing
\* (request_safety.py, approvals.consume_review).
ActedOnChecked ==
  subject = "safety" => Work!Safety!SentOnAuthority /\ Work!Safety!SentWhileConfirmed /\ Work!Safety!RefusedForCause

\* Whatever the model asks for in each attempt, a request leaves once for its place
\* in the agents' plans and the agent is told of it; and an answer says that it is
\* incomplete exactly when something it was made from was cut
\* (agent_runtime.py: execute_agent).
AgentsHold == subject = "agent" => Work!Crew!SentIsKnown /\ Work!Crew!ShortIsFlagged

\* What is sent goes where it was checked and shown to go, though the connection is
\* edited meanwhile, and a refusal is told apart from an unknown outcome; and the
\* requests that change something are those held to be writes (tool_service.py,
\* worker.py).
ToolsHold ==
  subject = "tool" =>
    Users!Tool!SentAsReviewed /\ Users!Tool!UncertainForCause /\ Users!Tool!SenderChecked /\ Users!Tool!WritesAreKnown

\* The version recorded in a database is what its schema is, whatever processes
\* start on it at once, and one that has started finds its schema, its events and
\* its queue; an upgrade loses no event (schema.py, storage.py:253-345).
StartupHolds ==
  /\ [](subject = "startup" => Work!Begin!VersionTells /\ Work!Begin!ReadyMeansReady)
  /\ [][subject = "startup" => Work!Begin!HistoryStep]_all
-----------------------------------------------------------------------------
(***************************************************************************)
(* A step of a behaviour is a step, or a stutter, of its subject, so what  *)
(* ComponentProofs and RunProofs keep of the subject is kept; of any other *)
(* subject there is nothing to keep.                                       *)
(***************************************************************************)
LEMMA UsersStep ==
  [Next]_all =>
    /\ subject' = subject
    /\ subject = "login" => [Users!Login!Next]_(Users!Login!vars)
    /\ subject = "accounts" => [Users!Door!Next]_(Users!Door!vars)
    /\ subject = "workspace" => [Users!Home!Next]_(Users!Home!vars)
    /\ subject = "editing" => [Users!Editing!Next]_(Users!Editing!vars)
    /\ subject = "cases" => [Users!Cases!Next]_(Users!Cases!vars)
    /\ subject = "tool" => [Users!Tool!Next]_(Users!Tool!vars)
    /\ subject = "evidence" => [Users!Passages!Next]_(Users!Passages!vars)
  BY DEF Next, all, slots, Users!Passages!vars, Users!Tool!vars, Users!Login!vars, Users!Door!vars, Users!Home!vars, Users!Editing!vars, Users!Cases!vars,
       Users!Door!net, Users!Door!held, Users!Door!book

LEMMA WorkStep ==
  [Next]_all =>
    /\ subject' = subject
    /\ subject = "loop" => [Work!Loop!Next]_(Work!Loop!vars)
    /\ subject = "search" => [Work!Search!Next]_(Work!Search!vars)
    /\ subject = "events" => [Work!Events!Next]_(Work!Events!vars)
    /\ subject = "view" => [Work!View!Next]_(Work!View!vars)
    /\ subject = "calls" => [Work!Calls!Next]_(Work!Calls!vars)
    /\ subject = "agent" => [Work!Crew!Next]_(Work!Crew!vars)
    /\ subject = "safety" => [Work!Safety!Next]_(Work!Safety!vars)
    /\ subject = "startup" => [Work!Begin!Next]_(Work!Begin!vars)
  BY DEF Next, all, slots, Work!Crew!vars, Work!Events!vars, Work!View!vars, Work!Calls!vars, Work!Begin!vars, Work!View!view,
       Work!Safety!vars, Work!Safety!memory, Work!Loop!vars, Work!Loop!run, Work!Search!vars

-----------------------------------------------------------------------------
AccountsInv ==
  /\ subject = "login" => Users!LoginInv
  /\ subject = "accounts" => Users!SessionInv /\ Users!EntranceInv
  /\ subject = "workspace" => Users!HomeInv

\* AccountsHold for every number of accounts, addresses, attempts, browsers, invitations and
\* rows, and whatever the budgets and the lifetimes are.
THEOREM AccountsKept == Users!LoginConstants /\ Lifetime \in Int /\ Spec => []AccountsHold
<1>1. Users!LoginConstants /\ Init => AccountsInv
  BY Users!LoginStarts, Users!SessionsStart, Users!EntranceStart, Users!HomeStart DEF Init, AccountsInv
<1>2. Lifetime \in Int /\ AccountsInv /\ [Next]_all => AccountsInv'
  BY UsersStep, Users!LoginKeeps, Users!SessionStep, Users!EntranceStep, Users!HomeStep DEF AccountsInv
<1>3. AccountsInv => AccountsHold
  BY Users!LoginHolds, Users!DoorHolds, Users!HomeHolds DEF AccountsInv, AccountsHold
<1>4. CASE Users!LoginConstants /\ Lifetime \in Int
  <2>1. Init => AccountsInv BY <1>1, <1>4
  <2>2. AccountsInv /\ [Next]_all => AccountsInv' BY <1>2, <1>4
  <2> QED BY <2>1, <2>2, <1>3, PTL DEF Spec
<1> QED BY <1>4

EditsInv ==
  /\ subject = "editing" => Users!EditInv
  /\ subject = "cases" => Users!CasesInv

\* EditsKept for every content, clock and number of workflows, versions, cases and connections.
THEOREM EditsAreKept == LastStamp \in Int /\ Users!RoutesApart /\ Spec => EditsKept
<1>1. LastStamp \in Int /\ Users!RoutesApart /\ Init => EditsInv
  BY Users!EditInit, Users!CasesStart DEF Init, EditsInv
<1>2. Users!RoutesApart /\ EditsInv /\ [Next]_all => EditsInv'
  BY UsersStep, Users!EditStep, Users!CasesStep DEF EditsInv
<1>3. EditsInv =>
        /\ subject = "editing" => Users!Editing!SavedFromSeen
        /\ subject = "cases" => Users!Cases!RoutesKept
  BY Users!EditHolds, Users!CasesHold DEF EditsInv
<1>4. EditsInv /\ [Next]_all => [subject = "cases" => Users!Cases!NothingDropped]_all
  BY Users!CasesKeep DEF Next, EditsInv, all, slots, Users!Cases!vars
<1>5. CASE LastStamp \in Int /\ Users!RoutesApart
  <2>1. Init => EditsInv BY <1>1, <1>5
  <2>2. EditsInv /\ [Next]_all => EditsInv' BY <1>2, <1>5
  <2> QED BY <2>1, <2>2, <1>3, <1>4, PTL DEF Spec, EditsKept
<1> QED BY <1>5

TellsInv ==
  /\ subject = "events" => Work!EventsInv
  /\ subject = "view" => Work!ViewInv

\* HistoryTells for every number of writers, events and runs and every size of a page.
THEOREM HistoryToldWhole == PageSize \in Nat \ {0} /\ 0 \notin Executions /\ Spec => []HistoryTells
<1>1. PageSize \in Nat \ {0} /\ Init => TellsInv
  BY Work!EventsStart, Work!ViewStart DEF Init, TellsInv
<1>2. 0 \notin Executions /\ TellsInv /\ [Next]_all => TellsInv'
  BY WorkStep, Work!EventsKeep, Work!ViewStep DEF TellsInv
<1>3. TellsInv => HistoryTells
  BY Work!EventsHold, Work!ViewHolds DEF TellsInv, HistoryTells
<1>4. CASE PageSize \in Nat \ {0} /\ 0 \notin Executions
  <2>1. Init => TellsInv BY <1>1, <1>4
  <2>2. TellsInv /\ [Next]_all => TellsInv' BY <1>2, <1>4
  <2> QED BY <2>1, <2>2, <1>3, PTL DEF Spec
<1> QED BY <1>4

\* LoopsKept for every number of attempts and items.
THEOREM LoopsAreKept == NumItems \in Nat /\ Spec => LoopsKept
<1> DEFINE LoopsInv == subject = "loop" => Work!LoopInv
           Stays == \A x \in Work!Loop!Items : Work!Loop!Progress[x] # Work!Loop!NoRow =>
                      Work!Loop!Progress'[x] = Work!Loop!Progress[x] /\ k'[x] = k[x]
<1>1. NumItems \in Nat /\ Init => LoopsInv /\ (subject = "loop" => Work!Loop!ItemWrites!Init)
  BY Work!InitInv, Work!InitWrites DEF Init
<1>2. LoopsInv /\ [Next]_all => LoopsInv' BY WorkStep, Work!StepInv
<1>3. LoopsInv => (subject = "loop" => Work!Loop!RestoredAsReturned)
  BY DEF Work!LoopInv, Work!Kept, Work!Loop!RestoredAsReturned
<1>4. LoopsInv /\ [Next]_all => [subject = "loop" => Stays]_all
  BY Work!FinishedKept DEF Next, Work!FinishedStays
<1>5. LoopsInv /\ [Next]_all => [subject = "loop" => Work!Loop!ItemWrites!Next \/ UNCHANGED <<Work!Loop!WritePhase, k>>]_all
  BY Work!StepWrites DEF Next, Work!Loop!ItemWrites!vars
<1>6. CASE NumItems \in Nat
  <2>1. Init => LoopsInv /\ (subject = "loop" => Work!Loop!ItemWrites!Init) BY <1>1, <1>6
  <2> HIDE DEF LoopsInv, Stays
  <2> QED BY <2>1, <1>2, <1>3, <1>4, <1>5, PTL DEF Spec, LoopsKept, Stays
<1> QED BY <1>6

\* SourcesHold for every number of documents and versions, of passages, labels and
\* attempts, and every size of the registry.
THEOREM SourcesAreHeld == Spec => SourcesHold
<1> DEFINE SourcesInv == (subject = "search" => Work!SearchInv) /\ (subject = "evidence" => Users!PassagesInv)
<1>1. Init => SourcesInv BY Work!SearchStart, Users!InitPassages DEF Init
<1>2. SourcesInv /\ [Next]_all => SourcesInv' BY WorkStep, UsersStep, Work!SearchStep, Users!StepPassages
<1>3. SourcesInv => (subject = "search" => Work!Search!StaysCitable) BY Work!SearchHolds
<1>4. SourcesInv /\ [Next]_all => [subject = "search" /\ Work!Search!Returns => Work!Search!SourcesHold]_all
  BY WorkStep, Work!ReturnsSources DEF Work!Search!vars, Work!Search!Returns, Work!Search!At
<1>5. SourcesInv => (subject = "evidence" => Users!Passages!PublishedSources /\ Users!Passages!UsedKept)
  BY Users!PassagesAre
<1> HIDE DEF SourcesInv
<1> QED BY <1>1, <1>2, <1>3, <1>4, <1>5, PTL DEF Spec, SourcesHold

\* CountsHold for every number of attempts and calls and every count of tokens.
THEOREM CountsKept == MaxTokens \in Nat /\ Spec => []CountsHold
<1> DEFINE CountsInv == subject = "calls" => Work!CallsInv
<1>1. Init => CountsInv BY Work!CallsStart DEF Init
<1>2. MaxTokens \in Nat /\ CountsInv /\ [Next]_all => CountsInv' BY WorkStep, Work!CallsStep
<1>3. CountsInv => CountsHold BY Work!CallsTell DEF CountsHold
<1>4. CASE MaxTokens \in Nat
  <2>1. CountsInv /\ [Next]_all => CountsInv' BY <1>2, <1>4
  <2> HIDE DEF CountsInv
  <2> QED BY <1>1, <2>1, <1>3, PTL DEF Spec
<1> QED BY <1>4

\* ActedOnChecked for every number of attempts.
THEOREM ActsOnChecked == Spec => []ActedOnChecked
<1> DEFINE CheckedInv == subject = "safety" => Work!SafetyInv
<1>1. Init => CheckedInv BY Work!SafetyStart DEF Init
<1>2. CheckedInv /\ [Next]_all => CheckedInv' BY WorkStep, Work!SafetyStep
<1>3. CheckedInv => ActedOnChecked BY Work!SafetyHolds DEF ActedOnChecked
<1> HIDE DEF CheckedInv
<1> QED BY <1>1, <1>2, <1>3, PTL DEF Spec

\* AgentsHold for every number of attempts and steps and all inputs.
THEOREM AgentsTold == Spec => []AgentsHold
<1> DEFINE AgentsInv == subject = "agent" => Work!CrewInv
<1>1. Init => AgentsInv BY Work!CrewStart DEF Init
<1>2. AgentsInv /\ [Next]_all => AgentsInv' BY WorkStep, Work!CrewStep
<1>3. AgentsInv => AgentsHold BY Work!CrewHolds DEF AgentsHold
<1> HIDE DEF AgentsInv
<1> QED BY <1>1, <1>2, <1>3, PTL DEF Spec

\* ToolsHold for all connections and every number of edits.
THEOREM ToolsAreHeld == Spec => []ToolsHold
<1> DEFINE ToolsInv == subject = "tool" => Users!ToolInv
<1>1. Init => ToolsInv BY Users!ToolStart DEF Init
<1>2. ToolsInv /\ [Next]_all => ToolsInv' BY UsersStep, Users!ToolStep
<1>3. ToolsInv => ToolsHold BY Users!WritesKnown DEF Users!ToolInv, ToolsHold
<1> HIDE DEF ToolsInv
<1> QED BY <1>1, <1>2, <1>3, PTL DEF Spec

\* StartupHolds for every number of processes, starts and versions of the schema.
THEOREM StartupKept == Newest \in Nat \ {0} /\ MaxRunEvents \in Nat /\ Spec => StartupHolds
<1> DEFINE StartedInv == subject = "startup" => Work!BeginInv
<1>1. Newest \in Nat \ {0} /\ MaxRunEvents \in Nat /\ Init => StartedInv BY Work!BeginStart DEF Init
<1>2. Newest \in Nat \ {0} /\ StartedInv /\ [Next]_all => StartedInv' BY WorkStep, Work!BeginStep
<1>3. Newest \in Nat \ {0} /\ StartedInv => (subject = "startup" => Work!Begin!VersionTells /\ Work!Begin!ReadyMeansReady)
  BY Work!BeginHolds
<1>4. Newest \in Nat \ {0} /\ StartedInv /\ [Next]_all => [subject = "startup" => Work!Begin!HistoryStep]_all
  BY Work!HistoryKept DEF Next
<1>5. CASE Newest \in Nat \ {0} /\ MaxRunEvents \in Nat
  <2>1. Init => StartedInv BY <1>1, <1>5
  <2>2. StartedInv /\ [Next]_all => StartedInv' BY <1>2, <1>5
  <2>3. StartedInv => (subject = "startup" => Work!Begin!VersionTells /\ Work!Begin!ReadyMeansReady) BY <1>3, <1>5
  <2>4. StartedInv /\ [Next]_all => [subject = "startup" => Work!Begin!HistoryStep]_all BY <1>4, <1>5
  <2> HIDE DEF StartedInv
  <2> QED BY <2>1, <2>2, <2>3, <2>4, PTL DEF Spec, StartupHolds
<1> QED BY <1>5
=============================================================================
