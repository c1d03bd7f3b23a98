# Verification of Relay, the durable agentic-workflow platform

Relay executes workflows (graphs of nodes: model calls, tools, conditions,
loops, agents) for the runs that clients submit over HTTP. Runs are rows of a
database; worker processes claim them under a lease, execute the graph, commit
every node result as a checkpoint, and give the run back. The backend is Python
(`src/backend/app`, 11 000 lines; paths below are relative to it), the browser
client TypeScript (`src/frontend`).

This directory holds TLA+ specifications of the parts whose correctness depends
on the order in which things happen, the TLC runs that check them on small
instances, and TLAPS proofs of the central properties for every instance.

    tlc -workers 2 -config MCRunLease.cfg MCRunLease
    tlapm RunLeaseProofs.tla

## 1. Inventory

| Part | State | Operations | What is hard |
|---|---|---|---|
| Run queue and lease (`storage.py`) | `execution_jobs`: status, owner, lease, cancel flag; `runs`: document, checkpoints | create, claim, heartbeat, worker_event, finish, release, cancel, resume | expired leases, two workers in one graph, a claim that reads its document after its commit |
| Worker (`worker.py`) | one task and one polling loop per attempt | `_execute`, `serve` | cancellation at any await, shielded commits, handlers of exceptions that act on answers read earlier, crash anywhere |
| External writes (`worker.py`, `storage.py`, `tool_service.py`) | `write_nodes`, `run_action_results`, checkpoints | mark, send, settle, look up | a crash at each point around an unrepeatable request |
| Approvals (`approvals.py`) | `run_approvals`, `approval_terminal` | pause, decide, expire, begin, complete, cancel, resume | decision, deadline, cancellation and worker race for one row |
| Reviews (`approvals.py`, `request_safety.py`) | `run_approvals` of kinds decision and verification | pause, decide, consume, check again | expiry between confirmation and use |
| Accounting (`accounting_state.py`, `execution_policy.py`, `token_budget.py`) | in-memory spend, publications, generations; the saved snapshot | publish, commit, reserve, defer, restore | publications that overtake commits, refunds by a crash, double charges over a pause |
| Loops (`iteration.py`, `storage.py`) | `run_loop_items`, compact checkpoints | run items, save, compact, hydrate, resume | a crash or a pause between an item's row and the loop's checkpoint |
| Agents (`agent_runtime.py`) | `agent_frames`, tool calls | step, call tool, pause, resume | restored frames against stored results, under another model answer |
| Compiler (`compiler.py`) | values of one execution | validate, restore, execute, recover, route | which values exist after a recovery or in a later attempt |
| Request admission (`request_reader.py`, `extraction_checks.py`, `request_safety.py`, the editor's `request-routing.ts`) | bindings, reviews | read, check, verify, decide, write | authority that lapses while a run waits |
| Provenance (`provenance.py`) | a record per node | label, restore, warn | guesses that come out of a chain as facts |
| Evidence (`evidence_registry.py`, `platform_nodes.py`) | passages, labels, counter | remember, evict, cite, verify | labels over crashes and evictions |
| Run history (`storage.py`, `main.py`, the run page) | `run_events`; the page's run | append, page, stream, follow | numbers against commit order, answers that come late |
| Workflow editing (`storage.py`, the editor) | `workflows.updated_at`; the draft | save, load, edit the cases of a Switch | concurrent editors, equal timestamps, lost answers, ids that two cases share |
| Knowledge bases (`kb/management.py`) | one JSON document per base: versions, documents, jobs with leases; the originals | upload, replace, remove, rebuild, cancel, delete; claim, renew, fail, publish, list and record cleanups | replacements that pile up before a build succeeds, publication against supersession |
| Ingestion (`kb/ingestion.py`) | none that survives | clean up, claim, extract, build, publish, report | dead builders that were only slow; answers used long after they were given |
| Segments (`kb/search.py`) | rows, evidence, vectors in an external store | build, clean up, search, verify | calls served after their sender has died, kills between the record and the store |
| Retrieval (`kb_gateway.py`, `kb/search.py`) | none | resolve, search, verify; rank | a search during a promotion or a cleanup |
| Sign-in (`auth_security.py`, `auth.py`) | attempts per account and address, accounts, invitations, sessions | reserve, clear; register, log in, log out, claim the workspace | concurrent logins; the first account takes over beside a run |
| Models (`providers.py`, `registry.py`, `storage.py`) | token totals, credentials, permissions | call, retry, count; permit, resolve | attempts lost inside a call |
| Tools (`tool_service.py`) | connections | check, prepare, show, compare, send | a connection edited in between |
| Pure parts (`conditions.py`, `switch.py`, `calculate.py`, `exact_json.py`) | none | functions | boundary values |
| Start-up (`schema.py`, `storage.py`) | schema, its version, backfilled columns | adopt, upgrade, backfill | several processes at once, kills |
| Agent memory (`agent_memory.py`) | last entries per key | read, write | bounds |
| The rest (HTTP bodies, sandbox, metrics, layout, scripts) | none of interest | I/O | |

Parts meet in the database. Every transaction that touches a run first locks its
job row: workers by the *fence*, a conditional UPDATE that also checks that they
still hold an unexpired lease, the API and the sweep by an UPDATE that changes
nothing. The models rest on this: one such transaction is one action. What a
component reads in one transaction and uses in a later one is two actions.

PROJECT.json lists the parts with the modules that model them, and the hazards,
each at its line, with the properties that would catch it.

## 2. Modules

    JobStore          the job row and the transactions on it
      WorkerLoop      the outer loop of an attempt
        RunLease      + graph nodes and checkpoints     implements  RunLifecycle
        ExternalWrite + writes, approvals, outcomes     implements  WriteOnce
    KbIndex           version numbers, segments of the search service
      KbManagement    + the authoritative state of a knowledge base
        KbIngestion   + workers between the two         implements  KbCatalog
    Accounting        budgets and tokens of one run, over its attempts
    LoopProgress      a loop with items that write       implements  WriteOnce
    WorkflowGraph, RequestSafety, Agents                 the run of a graph
    Lineage, Evidence, Extraction, ModelCalls            what its values rest on
    ToolRequests, Workspace                              what it acts with
    EventStream, RunView, WorkflowSave, SwitchCases      the pages
    Access, Accounts, Startup                            around the runs
    Retrieval                                            readers of a knowledge base
    Calculation, Conditions, Ranking, LoopResults, RequestRouting    pure parts
    Components        those from LoopProgress on that are proved, each on its
                      own, what they promise, and the proofs of that
      MCComponents    + the others, with the bounded inputs of the pure parts
    MCRunLease, MCExternalWrite, MCKb, MCAccounting      instances for TLC
    RunLeaseProofs, ExternalWriteProofs, AccountingProofs, KbIngestionProofs
    ComponentProofs   proofs about Access, WorkflowSave, SwitchCases, Accounts,
                      Workspace, ToolRequests, Conditions and Evidence
    RunProofs         proofs about LoopProgress, EventStream, Startup, RunView,
                      ModelCalls, Retrieval, Agents and RequestSafety

**JobStore** has one variable, `job`: status, owner, lease, cancellation flag.
The operators are the reads and writes of `storage.py` and `approvals.py`;
callers put the fence in front, as in the code. The `status` column of `runs`
is assigned together with that of the job everywhere, so there is one field.
Time is relative: `lease` counts down from `LeaseTime`; positive is held,
negative has expired, and 0 is the instant at which neither `lease_until > now`
(fence) nor `lease_until < now` (claim) holds. A claim owner is a fresh
identifier per claim, as `serve` makes them.

**WorkerLoop** adds `pc`, where each attempt stands. A stalled worker is an
attempt that takes no step while the clock goes on. `Crash` kills the process;
`Shutdown` is the cancellation of its tasks by `serve`; `PollError` is a
database error in the polling loop, whose handler ends the run but leaves the
graph task running (state `orphan`). The handler of `CancelledError` asks
`cancel_requested` in one transaction and acts on the answer in another
(`stopping`, then `cancelling` or `releasing`). The lemmas on its typing, which the proofs
about both kinds of attempt use, are in the module itself.

**RunLease** adds the graph as a set of nodes executed in any order:
`checkpoint` records *which attempt computed* the saved result of a node, so that
a re-execution is visible; `completed` is what an attempt was given when it read
the document, after its claim had committed; `pending` are commits in flight on
their threads, which land or are refused also after the attempt was told to stop.
A node with `on_error: continue` may be recovered without a checkpoint.

**ExternalWrite** adds writes, as a chain of tool nodes (validation keeps writes
out of parallel branches). `step` walks through the code path of one write at
the granularity of its transactions and awaits; `sent` counts requests ever
handed to the transport, and is what the properties are about: no field of the
program knows it. Approved ("gated") writes go through `resolve`, `pause`,
`begin` and `complete`; the others through `completed_action`, `mark_write` and
`settle_write`. Deadlines count down as leases do. Between two awaits of the
handler the polling loop of the same worker cannot run (`Awaiting`), while other
workers, the API and the sweep can.

**KbManagement** has the JSON document of one knowledge base as `kb`,
`documents` and `jobs`, and the stored files as `originals`. Every call of the
management service is a transaction under one global lock
(`BEGIN IMMEDIATE` or an advisory lock), so it is one action. The code keeps
versions and jobs in two lists that grow together; they are one record here,
indexed by the version number, and a version is "active" when its job has
succeeded. Retry counts, leases and cleanup states are as in the code, except
that a cleanup's "done" and "failed" are one value: both are listed again later.

**KbIndex** has the segment of each build attempt: the state of its row and what
is stored for it, rows of chunks and vectors. A build of a segment that is ready or revoked is refused.
Builds and cleanups (the latter numbered, since several of one segment may be out) wait in `calls` until they
get the tenant's lock, which is polled and so goes to any of them; the one that
has it is in `serving`. Both commit before they touch the store and
after; a call may be killed in between (`Interrupt`). Vectors count as stored
from the first commit, which is the worst case.

**KbIngestion** adds the workers, which have no memory but the call they wait
for. A worker that is killed or times out (`Crash`, `AttemptFails`) leaves its call with
the search service. `CleanSegment` takes one element of the cleanup list and
sends the call with the retention flag as the list gave it. Progress reports renew the
lease as `renew` does, so both are `Renew`. Publishing has an answer that may be
lost: the worker then reports a failure for a version that is active.

**KbCatalog** is what its user is promised: searches see one complete index of exactly
the documents that were wanted when it was built, until the next one, and nothing that was removed.

**Accounting** has a run with parallel branches: in-memory spend and published
generations of the attempt, the saved snapshot, and per branch the place in a
query (with its retry), a model call or an approved write. `charged` has one entry per debit of the budget,
in order; no field of the program holds it, and the properties count in it. Commits hold one lock,
which goes to any waiter. An unapproved write is settled by ExternalWrite.

**LoopProgress** has one loop of the graph over its attempts: the row of each
item (`rows`), the item's own write with marker, approval and stored result, and the
checkpoint, which is compacted when it is long and then refers to the rows. `for_each` executes
items one after another. **LoopResults** is the ceiling on what the loop returns, item by item, with its
completeness report and what the page says of it; sizes are abstract bytes.

**WorkflowGraph** draws a workflow (its nodes, links, error policies and
writers), keeps it only if it validates, and executes it over two attempts. `binding_guarantees`
and `branch_errors` are operators; the editor's own computation of what can be bound
(`bindableOutputs`) is compared with them.

**RequestSafety** runs a chain from the reader of a request through a verification, values derived
from it and a decision to a write. `reviews` are the persons' answers with their deadlines,
`bound` the bindings. **Extraction** has the checks that a reading goes through; a message is the set of
numbers written in it. **RequestRouting** has the five drafts the router page
makes, in terms of Extraction, Calculation, Conditions and WorkflowGraph, so that what it
draws is validated and decided by the definitions of the back end.

**Agents** has an agent, a specialist it may call, and their plans: each attempt may
be given another answer by the model. Invocations are named by place and step, as in
the code; `sent` counts the requests of each. Cancellation is left to
ExternalWrite.

**Lineage** draws a run node by node and labels what each returns, a text being the set of facts in it.
A node may come from an older release's checkpoint, whose labels were made by other rules.
**Evidence** has the registry of passages of one run, with agents' pins, saved items and the counter of
labels; `cites` remembers which passage an author meant. A batch is remembered by a recursive function, one source after another.
**ModelCalls** has what providers report of a call's attempts, and the totals of a run.

**ToolRequests** is one call of one tool: each look at the saved connection is a step,
between which the pages may save another one. **Workspace** has the claim of the
local workspace by the first account while a run executes; page requests do not overlap the claim, the
worker's uses of the workspace (`task`) do.

**EventStream** has two writers of one run, the stream, and the page that reads it. **RunView** has the page that
starts, follows, resumes and leaves runs, with its answers in flight (`pending`), that of the history page which is read after a run
among them. **WorkflowSave** is one editor among others
(`Elsewhere`), **SwitchCases** the list of cases of a Switch, possibly hand-edited, with its connections. A new case's id is drawn from
36^6 and only kept apart from those of the other entries; that it is by chance one that an orphaned connection mentions is left out.

**Access** has the login budgets with concurrent logins that each read the clock before the lock;
**Accounts** the registration modes, invitations, sessions and streams;
**Startup** the processes that open one database of any version.

**Retrieval** is one reader, from `resolve` to the last check of authority, beside promotions, removals, cleanups and
the deletion of the base. **Ranking** is the fusion of its rankings.
**Calculation** and **Conditions** are parser, evaluation and comparison. Numbers are decimals of few digits, and the limits
stand for those of the code: 2 digits for a number's text (`MAX_NUMBER_TEXT`, 100 characters, of which the model counts the digits),
exponents to 2 (what Decimal represents), numbers to 10^2 (`MAX_EXPONENT`), floats of 2 digits to 10, and integers of one digit that
are sent as integers (`MAX_INTEGER_DIGITS`). They are apart from each other, as in the code, so that each is passed alone: 1.25 is
compared as a number and refused as a text.

**Components** composes modules that do not act on each other: a behaviour
belongs to one *subject*, chosen at the start, whose variables are the slots `a`, `b`, ...
in the order of its module. Each subject has all of its own behaviours. It holds the
15 subjects that theorems are about; **MCComponents** adds the 9 that only TLC checks, and
gives them their inputs. The constants of Components are those of its subjects.

**RunLifecycle** and **WriteOnce** are the abstract specifications: what a client
is promised about the status of a run, and about an external request. Their
variables are given by the refinement mappings at the end of RunLease and
ExternalWrite.

## 3. Runs

| Run | Instance | Shows |
|---|---|---|
| `run_lease` | 3 attempts, 2 nodes, one recoverable, `LeaseTime` 1; 1.0 million states | `NoResultMissed`, `CancelWins`, `CancelledOnRequestOnly`, and that RunLease implements RunLifecycle |
| `run_lease_live` | 3 attempts, 1 node, `LeaseTime` 2, fairness | `EventuallyEnds` |
| `external_write` | 2 attempts, 3 writes: a recoverable approved one, an approved one, one without approval; 574 000 states | at most one request per write, only as approved, outcome or marker on record; closed approvals sent nothing; no run waits for a decision nobody can make; a run never succeeds over an uncertain approved write, and an uncertain run stays as it ended; implements WriteOnce |
| `kb_documents` | 3 documents, 3 builds, 1 worker, no retry, no cleanup; 362 000 states | one build at a time, and of what is wanted; one successor per replaced document; the statuses shown are true; implements KbCatalog |
| `kb_workers` | 1 document, 3 builds, one retry, 2 workers, 2 waiting calls, cleanup of version 1; 3.4 million states | the active version stays searchable, evidence citable, retired segments stay cleaned |
| `kb_indexing` | 1 document, 3 builds, one retry, fairness | `IndexingEnds` |
| `kb_release` | builds without documents, 2 versions, 2 waiting calls, cleanup of version 1, fairness | `DataIsReleased` |
| `accounting` | 2 attempts, 2 branches; 2.4 million states | no action before it is paid for on record, none paid twice, no model asked while earlier spend is unrecorded, ceilings passed by one request per branch at most |
| `components` | 24 subjects, table below; 5.1 million states | 14 properties, one per concern |
| `unchecked_decision` | RequestSafety as in `components` | **violated**: see section 6 |
| `hidden_write` | 2 attempts, two recoverable writes without approval | **violated**: see section 6 |
| `undone_success` | 2 attempts, a recoverable approved write and one without approval | **violated**: see section 6 |

Properties of `components`, and the bounds of their subjects:

| Property | Subjects |
|---|---|
| `LoopsKept` | LoopProgress: 3 attempts, 2 items |
| `BranchesHold` | WorkflowGraph: every workflow of 5 nodes, 2 attempts |
| `ActedOnChecked` | RequestSafety: 2 claims |
| `AccountsHold` | Access: 3 logins of 2 accounts at one address; Accounts: 2 addresses, 2 sessions; Workspace: 2 credentials, a row of each kind |
| `SourcesHold` | Retrieval: 2 documents, 2 versions; Evidence: 2 chunks, capacity 1, 2 attempts |
| `HistoryTells` | EventStream: 2 writers, 5 events, pages of 2; RunView: 2 runs, 2 answers in flight |
| `EditsKept` | WorkflowSave: 2 workflows, 3 versions; SwitchCases: 2 cases, 3 ids |
| `AgentsHold` | Agents: 3 attempts with plans of 3 and 1 steps, 2 inputs |
| `CountsHold` | ModelCalls: 2 calls of 2 attempts |
| `OriginsHold` | Lineage: 3 nodes after the trigger |
| `DecidedExactly` | Calculation: 2 400 expressions over 2 fields; Conditions: 73 000 values under conditions; Ranking: 3 chunks |
| `ReadingsHold` | Extraction: 70 000 readings; RequestRouting: 8 900 requests to 5 drafts; LoopResults: up to 3 items of every size and outcome; 57 000 Jira answers |
| `StartupHolds` | Startup: 2 processes, 3 versions, 2 starts each |
| `ToolsHold` | ToolRequests: 2 edits, one call of each tool, 2 endpoints and 2 secrets |

A subject is as large as its hazard needs: an eviction needs one passage more
than the capacity, a stale answer two runs, an ambiguity two cases of one id, a recovery
a path around the recovered node (5 nodes: trigger, fork, a branch of each, join, or a
route past a node). Capacities, pages, ceilings and locks are cut to 1 .. 3 so
that they are reached and passed. In Lineage a chain of 3 nodes holds a source of doubt, what
carries it, and what would launder it; the properties look at the last node, since nodes do not
change once they have run. The expressions are of every shape with two
operators, over leaves that tell their order apart. Deadlock is off: a subject that has ended stops.

*Bounds of the runs on attempts.* Three claim identifiers (`run_lease`) allow an attempt that was superseded
twice: the first may still be in its graph, or have a commit in flight, while
the second has come and gone and the third runs. `external_write` has two, one that may have
a request in flight and its successor, for three writes. An identifier is used again
after its attempt has vanished and no row mentions it, so the number of claims
in a behaviour is not bounded, nor is the number of resumes. A longer lease only
adds heartbeats: with `LeaseTime` 1 one tick reaches the instant of expiry and a
second one the expired lease; the liveness run takes 2 so that a heartbeat has a
lease to renew. `ApprovalTime` 1 separates before and at the deadline in the same way. Two nodes
are enough for one saved and one open result, three writes for one of each kind that differs. The proofs (section 5) remove all of these bounds for the
properties they cover. Claim owners are symmetric in every safety run (random
identifiers, never ordered); the liveness run uses no symmetry.

*Knowledge bases.* `MaxVersions` bounds the builds of a behaviour; every change
of the documents makes one, so three builds are three changes: an upload, its
replacement, and the replacement of that or a removal. One retry stands for two:
it reaches both branches of `claim`. The document limit is 2 of 3. `MaxCalls` 2 lets a build that was given up and
the cleanup of its segment wait together. `Cleaned` says which versions'
cleanups a run has at all. Retired attempts differ in nothing but their number, and the one that
is cleaned may be superseded, failed, expired or cancelled with the base. `kb_documents` leaves
cleanup to `kb_workers`, since management does not read what a cleanup changes. The releasing run needs no documents (`rebuild` makes builds of none), and
no symmetry is used where liveness is checked.

Deadlock checking is off: a run that has ended, with no attempt left, stops, and
so does a deleted base.

*Fairness* of `run_lease_live`. Attempts are asyncio tasks of running
processes, and the graph is bounded by `RUN_TIMEOUT_SECONDS`, so each attempt
that can go on does (`WF` of `Progress(o)`); `serve` polls for runs for ever
(`WF` of some claim); the clock goes on (`WF` of `Tick`). Nothing else is fair:
nobody has to cancel, resume, kill or shut down. Since a process that is killed
again and again ends nothing, the property is stated for behaviours in which
faults cease: `Fault` is an attempt that holds the run and is killed, shut down,
cut off from the database, or stalled until its lease is over.

*Fairness* of `kb_indexing` and `kb_release`. `serve` is a loop that lists, claims and
sleeps for ever, and the workers are restarted: a claim, or the cleanup of a
segment, that is possible again and again is made (`SF`: whether an idle worker finds it
depends on what other workers have just taken). Calls of the services are answered or
time out after 180 seconds, so an attempt and its reports end (`WF`); a call that has the
lock ends, and a waiting one is served or refused (`WF`). A given cleanup call is not passed over for ever
by the polling of the lock, and a removal that is tried for ever succeeds in the end (`SF` of
`StartCleanup` and `FinishCleanup`); an adapter's store that never comes back releases nothing.
Builders need not succeed, workers and the service may be killed at any time and for ever.

## 4. Properties worth reading first

- `RunLease!NoResultMissed`: the claim commits, and only then is the document
  read. It is still what the run has, for as long as the row names that
  attempt, because only the owner can add a result.
- `RunLease!CancelledOnRequestOnly`: an attempt that lost its lease believes it
  was cancelled and finishes the run as cancelled; the fence is all that stops it.
- `ExternalWrite!SentAtMostOnce` and `OutcomeOnRecord`: the marker precedes the
  request and goes only with the outcome, so whichever crash happens, an attempt
  that could send again finds either.
- `ExternalWrite!SentOnlyApproved`, for the closed ones: "No external request was sent", which the run
  says of a rejected, expired or cancelled approval, is true and stays true.
- `KbManagement!OneBuild` and `PendingIsDesired`: eight operations and four kinds of failure
  replace, drop or take the pending build, and a change of the documents that forgot it would publish a removed file.
- `KbIngestion!DataIsReleased`: a cleanup may arrive with a retention flag that was true
  when the list was read and is not any more; what saves it is that a segment is listed again and again, and
  that revocation is remembered.
- `KbIngestion!NothingComesBack`: the tombstone is written also for a segment that was
  never built, because its build may still be waiting.
- `ExternalWrite!WaitsForADecision`: a run waits only for a decision that
  somebody can still make.

- `RequestSafety!SentWhileConfirmed`: a review is consumed in one attempt, its node restored in another; the
  deadline is looked at again wherever the answer is relied on.
- `Evidence!PublishedSources`: labels are plain numbers that texts carry on, so a number given
  twice would be a citation of the wrong passage; `source_high_water` counts them wherever they may be left.
- `Access!AttemptsBounded`: the reservation counts before the password is checked, and a success clears
  only rows that nothing was charged to since.
- `ToolRequests!SentAsReviewed`: a call looks the connection up several times, and each look may find another one.
- `Lineage!NothingLaundered`: quoting looks only at data that is trusted *and* eligible; a prompt is trusted when its input is, but not
  eligible, or the author's words could be quoted.

## 5. Proofs

`RunLeaseProofs` proves, for every set of owners and nodes and every lease time,
all safety properties and the refinement of `run_lease`. `IInv` strengthens
them with: commits in flight are for results the attempt may write
(`PendingCurrent`), values outside the graph are empty (`NothingDone`), an
executed node the run cannot do without is saved (`DoneSaved`), the holder
in state `cancelling` was asked (`CancellingAsked`). The argument is the one of
the fence: whoever changes anything in the run holds it, and to hold it
is to have claimed it after everybody else's last change.

`ExternalWriteProofs` proves, for every length of the chain, every choice of
gated and recoverable writes and every number of attempts, all properties of `external_write`. For the types, `SentAtMostOnce`,
`OutcomeOnRecord` and the refinement of WriteOnce its `IInv` says what each
attempt knows. `AttemptSafe`: an attempt with a write on its hands ("active":
from the marker to the response) has its marker in place, or the outcome is
known. `HolderSafe`: when the attempt that holds the run has loaded the
document, every open marker is of its current write and it set it itself. `RecordsSafe`:
settled writes have no marker, checkpointed writes are settled, approvals are of
gated writes. `OneAttemptPerWrite`: two attempts, one of which may have lost
the run long ago, never have the same write on their hands. The last one is why
the request leaves once although the sender checks nothing at that moment.

The other theorems stand on that `IInv`. `SentOnlyApproved`: a request of an approved write
leaves between `begin` and `complete`, where the row is "executing", and nothing but its own sender takes
the row out of it. `WaitsForADecision`: approvals
are closed one at a time, so it needs that no two are open while the run may go on (`OneOpen`).
`UncertainNeverSucceeds` has the hypothesis `Recoverable \subseteq Gated`, and needs it (`hidden_write`): then
the attempt that holds the run has no marker behind it, only at the write it is at (`InHand`).
`UncertainStaysEnded` has no hypothesis. `SuccessStands` (theorem `SuccessLasts`) has the
hypothesis that no approved write is recoverable, and needs it (`undone_success`): then a run that succeeded has checkpoints
for all its approved writes, so none of its approvals is left for a decision to close.

`AccountingProofs` proves all properties of `accounting` for every number of attempts, branches and tries and all ceilings.
`SpendKnown` relates what an attempt has in memory to what is on record: what it published last is the record it
started from plus what it spent since, and what it was acknowledged is on record. From it follow `RequestsOnRecord`,
and `OvershootBounded` by counting the branches that may be past their check. For
`ActionsPaidFirst` what the holder of the run knows is never behind the record, and an action that waits for
its reservation has it in the publication that the commit will save (`Ahead`, `LedgerOf`). For `ChargedOnce` the
debits of a task, on record and in every memory, are at most its tries that acted, were given up or
are under way, and one more if it was deferred over a pause (`Accounted`); that only finitely many attempts ever began makes them countable.

`ComponentProofs` and `RunProofs` have an inductive invariant for each of the components that share no state with
others. Beyond types it says what the records know of what happened before:

- LoopProgress (`LoopInv`): a restored loop has the results its checkpoint stands for, a finished item stays finished,
  no item's write is sent twice, and WriteOnce is implemented for each item. It turns on `Unsettled`: a marker is explained, for
  the attempt that holds the run, by the row of an item or by the item the attempt is at. Hence an attempt
  that finds no row for its item finds no trace of a request for it either.
- Agents (`CrewInv`): a request is known by the place and step that made it. The saved frames, and the agents at work in
  this attempt, say how far each plan has come: an approval that exists is of a step that the agents are past, and then they were told of it if
  it was completed, or of the call they wait for, with its input (`Past`, `Knows`). Nothing the frames are past comes before the agents again, so
  another plan of the model starts only where nothing was asked; and of each request sent the approval, the stored result or the marker says so (`WriteInv`).
- RequestSafety (`SafetyInv`): what an attempt holds in memory is what is saved of the nodes it has been through (`MemoryInv`), and
  which of it is proved or left undecided is a function of the drawing and the checkpoints (`ProvenIs`, `UndecidedIs`). So every attempt
  comes to the same questions, a review is one of exactly what a person decides (`RowsInv`), and
  a write carries what the checks passed or a review confirmed that had not lapsed when it was let through.
- ToolRequests (`ToolInv`): a call is a place in one of three plans (a read, a write that a person approves, one that
  needs no approval), and the place says what was checked, built, shown and recorded before (`Checks`, `Reviews`, `Outcomes`). From the last check on only an
  edit of the connection comes between, and it is noted (`Late`).
- WorkflowSave (`EditInv`): every document an editor holds comes from a version that was saved, and
  times of saving rise, so a save that is accepted replaces what its editor has seen.
- SwitchCases (`CasesInv`): no two cases are the same one, and the handle of a connection is owned by the case it was drawn from (`Drawn`), also
  where a hand-edited list gives several cases one id.
- Access (`LoginInv`, `Blocks`): the row of an account or address knows of every attempt that counts there
  and of the lock it runs to, though logins read the clock before they have the lock and
  come in another order than they read it.
- Accounts (`SessionInv`, `EntranceInv`): a browser's requests come one at a time and carry its cookie, so its only valid session is the one in
  the cookie or in the answer that is on its way; a batch sent too late is the last; and an invitation that let somebody in is used up.
- Workspace (`HomeInv`): credentials and permissions are moved together, so a check that passed finds its credential
  after the move; and on SQLite the move waits for a transaction that has looked the workspace up.
- EventStream (`EventsInv`): the log is in the order of its numbers, what is on the wire continues what is shown, and the
  cursor stands where the messages end.
- RunView (`ViewInv`): unless names were crossed, what is shown, followed and awaited is of one run (`OneRun`), and a
  page that is disabled has a request or a stream on its way that will end it (`Attended`).
- Startup (`BeginInv`): a run's events are in its document before the migration and in rows after it, with the counter past every label; and
  what a process has found without a job still covers every run that has none.
- ModelCalls (`CallsInv`): between two attempts the totals are what was charged, but for what a warning or `lost` stands for (`Balanced`), and a
  call under way has counted nothing yet (`Uncounted`).
- Retrieval (`SearchInv`): as long as the base is there, every published version keeps its chunks and its evidence, and every cleanup listed keeps the evidence (`EvidenceKept`).
- Evidence (`PassagesInv`, theorem `PublishedIsVerified`): whatever label is known, in the registry, with a node, in a checkpoint or a saved item, is known
  of one chunk (`OneMeaning`) and not above the counter of the attempt (`Bounded`), and what the next attempt will find is not
  above the counter of the row either (`Durable`), so a new label is new everywhere; a checkpoint holds the sources of what it cites (`Backed`), which is why restoring it
  brings back what its text needs; and what is cited or pinned is passed over by an eviction (`Continues`), for registries of any size and batches of any length.

About **Conditions** there are no states: `OnePathTaken` and `SwitchingLosesNothing` hold for all values, operands and precisions, where TLC has 73 000 cases.

`Components` states what the run `components` checks, and proves it from these lemmas (theorems `AccountsKept`, `EditsAreKept`,
`HistoryToldWhole`, `LoopsAreKept`, `SourcesAreHeld`, `CountsKept`, `ActsOnChecked`, `AgentsTold`, `ToolsAreHeld`, `StartupKept`):
a step of its specification is a step, or a stutter, of its subject (`UsersStep`, `WorkStep`). A subject's constants are given by
MCComponents.cfg, so what the theorems need of them are hypotheses: clocks and stamps are integers (`LastStamp`, `Lifetime`); items, tokens, events and
budgets are natural numbers, and pages and the newest schema positive ones; no run is called 0; the empty name and "\*" name no account; routes and
cases have different names (`RoutesApart`). Agents, RequestSafety, Retrieval and ToolRequests need none.
Access also needs that powers of two are natural numbers: the provers know nothing of powers, not even that each is twice the one before.

Induction. The library's theorems on induction take an operator and cannot be cited. `SetInduction` says the same of a set and is proved here: if it holds
0, and n + 1 with n, and not k, then adding one maps what it holds of 0 .. k into itself, injectively and never to 0, which a finite set does not allow.
From it follow that a set of numbers has a least one, that the recursive functions of Evidence have the values their equations give (`RememberIs`, `RetainedIs`), and
what they make of a batch of any length (`RememberGives`).

The first part of `KbIngestionProofs` takes the operations of management one by one. `KbInv` is
what each keeps of the records alone: `OneBuild`, `PendingIsDesired`,
`OneSuccessor` and `DocumentsTell` hold each other up, with `Uploaded` (only an
uploaded document replaces one), `Numbered` (versions are made in turn), `RoomForRetries`
(a claim can always make the version of a retry) and
`OriginalsKept`. `JobsAdvance` is what each operation tells the workers: a job becomes
"processing" only if this step claims it, succeeds only if this step publishes
it, and what is retired stays so. The second part goes from there, for any number of
documents, versions, workers, retries and waiting calls, to all safety invariants of the
`kb_` runs and to `NothingComesBack`. The core of its `IInv` is about calls that
may be served at any time: a call to clean up concerns a segment that is over and not active
(`CleanupsDue`); a call to build concerns an attempt that waits for it or is over
(`BuildsOpen`); each job has one attempt, ever (`OneAttempt`, since a retry is a
new version). So no call that is still open concerns a segment in use
(`OpenNotInUse`), whoever sent it, and the search service may take its time.
Steps that neither claim nor publish are "quiet" and are treated at once.
`CatalogImplemented` is the refinement of KbCatalog. Each operation of management is first shown, on the records
alone, to be an addition, replacement, removal, promotion or closing there, or to change neither what is wanted nor what
is active; by `PendingIsDesired` a publication promotes what is wanted then. That the
active version can also be searched is `ActiveIsSearchable`, and the only fact about workers and segments it takes.

Assumptions are those on the constants, named in the modules that declare them:
`NoOwner` is no owner and `NoDoc` no document, times are positive, bounds are natural numbers,
gated and recoverable nodes are nodes, `Cleaned` are versions.

Only model-checked:

- liveness (`EventuallyEnds`, `IndexingEnds`, `DataIsReleased`), out of TLAPS's reach;
- four of the 14 properties of `components`. `BranchesHold`: what reaches a node is a recursive function over the graph, whose
  values would have to be found along every path. `OriginsHold`: Lineage walks the drawing with RECURSIVE operators. `DecidedExactly`:
  the parser and the evaluation of Calculation are RECURSIVE; of its part on Conditions two of the four statements are
  proved (what a spelling decides and what is sent are checked). `ReadingsHold`: Extraction has a RECURSIVE closure, LoopResults folds over items, and RequestRouting uses
  both Extraction and Calculation. No theorem can be stated in a module that reaches a RECURSIVE operator;
- nothing else: every property of the runs `run_lease`, `external_write`, `kb_documents`, `kb_workers` and `accounting` is a theorem.

Theorems that no run checks: the `TypeOK`s, `ResultsKept` of RunLease (a saved
result never changes), and `SuccessStands` under its hypothesis.

A proof that failed for a good reason: four modules had CASE expressions whose guards overlap, which TLC takes in order but TLA+ does
not, so that nothing could be proved of them. Their guards exclude each other now, as the order of the tests does in the code.

## 6. Findings

README.md section 2.3 of the repository says that `on_error: continue` and
`route` cannot hide uncertainty. For writes without approval, `settle_write` is
called after the `try` block that turns failures into `UncertainWriteError`
(`worker.py:200-206`). If that transaction fails in the database the request was
sent and answered, the marker stays, and the node fails in the ordinary way: a
recovering node lets the run go on to success (`hidden_write`). The request is
still never repeated, since the marker stays.

docs/operations.md (line 106) says that a repeated approval is idempotent, and README.md that it is a no-op. `decide` closes a
row that is past its deadline before it looks whether the decision was already made, whatever the run's status
(`approvals.py:156`). An approved write that was never begun (its handler failed before `begin`, and
`on_error: continue` recovered it) leaves its row approved when the run succeeds; a repeated approval after the deadline
then turns the successful run into a cancelled one (`undone_success`).

docs/request-contract-interfaces.md says that a prompt inherits eligibility only when it is
recomputed from checked inputs, and that an unchecked business decision asks a person. A prompt
with one verified input and one fetched page inherits it too (`request_safety.py:332`), and a
condition on it decides alone (`unchecked_decision`).

Smaller differences, met while modelling, that no run is about:

- An approval or event row whose PostgreSQL transaction looked the workspace up before the first account
  claimed it stays in the local workspace; a memory entry does so on both databases.
  `Workspace!LeftInWorkspace` says exactly which rows. Knowledge bases are not claimed at all (`auth.py:213`).
- A comment at `worker.py:194` says that only the send can leave an outcome unknown; an edit of the
  connection after it was last compared makes it so too, with nothing sent (`ToolRequests!UncertainForCause`).
- `kb/search.py:264`: ties resolve by rank, except in hybrid mode for chunks outside the
  semantic list (`Ranking!Repeatable`).
- `static_label` calls the output of a verification, and of a Switch, always a guess, though it hands on labels; and a prompt
  over a calculation that came to nothing is a guess at run time, though said to be trusted (`Lineage!WarningsHold`).
- A document that is loaded or imported while a run goes on can leave editing disabled until the page is
  reloaded; a failure of `recoverRun`, also of the history page it reads at the end, stops awaiting
  whatever run is followed by then; answers of start and resume do not ask whether another run was opened meanwhile (`crossed` in RunView).
- A number is compared as JSON however many digits it has, up to 1e1000, and refused as a text of more than 100 characters (`conditions.py:75`, `117-120`),
  so what decides a branch as a number can be an error as text, never the other branch (`Conditions!SpellingDoesNotDecide`).
- Over its capacity the registry may evict what a query inside a loop has cited, although it says
  that cited passages are never evicted (`evidence_registry.py:1`).
- Ungated writes of an agent are known by their position in its plan only: after a crash another answer of the model at
  the same position is given the earlier outcome.
- Two processes that start at once on an old database can make one of them fail in the backfill of jobs; it
  succeeds when started again.

## 7. Not modelled

Payloads, digests and the comparison of a resumed request with the reviewed one
are data in ExternalWrite: `Resolve` may refuse at any time, which is what a mismatch does. So may
`prepare_write`. The rate limit of decisions is left out. Nodes in RunLease have no edges, which only allows more orders;
a run of RunLease and ExternalWrite never lacks budget, which is Accounting's.
Of a knowledge base, names, configurations, connections, chunk limits and idempotency keys are left out
(a limit that refuses is a failed attempt; a repeated upload or publication with the same key changes
nothing). `cleanup_pending` has no caller in the repository.
SQLite and PostgreSQL are assumed to execute a transaction that has locked
the job row atomically.

Left out of modelled parts:

- the slots of a worker, its batch of 20 candidates and the sweep over many runs: one run is modelled, and fairness among runs is assumed;
- backoff times; the 200 rows of a login sweep; expired invitations are not deleted but cannot be used;
- of the graph, the settings of single kinds of nodes, and loops and agents inside it (LoopProgress and Agents have them on their own);
- of labels, fields of booleans, truncation caps, dotted keys of the first version, and tools attached to agents; an HTTP answer stands for every opaque one;
- of readings, nested paths and the bounds of reports; of conditions and expressions, JSON schemas and what a binary float holds beyond its digits and range;
- of retrieval, thresholds, the reranker, filters, embeddings and transport; the unused `verify_sync`;
- of tools, SMTP and HTTP themselves, the Python sandbox, URL syntax and pages of Jira after the first;
- of models, bodies of the providers' APIs; attempts that a provider refuses are assumed not to be billed;
- of the pages, layout, the canvas, forms, undo, and texts beyond what the properties tell apart; random ids are assumed fresh;
- the limit of 10 entries and 16 000 bytes of a memory key; metrics, logging, readiness, evaluation and maintenance scripts, tests.

## 8. Plan

1. WorkflowGraph with a guarantee that is defined without recursion (a least set closed under the links), so that `GuaranteesHold` can be proved.
2. LoopResults with recursive functions in place of folds, for its part of `ReadingsHold`, as in Evidence.
3. Several runs in one queue, with slots and the sweep.
