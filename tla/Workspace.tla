------------------------------ MODULE Workspace ------------------------------
(***************************************************************************)
(* The rows of the workspace used without accounts, the models it permits, *)
(* and the first account, which takes them over while a run of it may go   *)
(* on in a worker (storage.py, auth.py, agent_memory.py, approvals.py).    *)
(*                                                                         *)
(* A worker looks the run's workspace up again for every use, in a         *)
(* transaction of its own; the use follows in another one.  The model is   *)
(* left out where all models are alike: a permission names its provider    *)
(* and its credential.  The pages act for the account once there is one.   *)
(***************************************************************************)
EXTENDS Integers, FiniteSets

CONSTANTS
  MaxCredentials,  \* rows of credentials, in all
  MaxRows          \* rows of each kind that the run inserts

VARIABLES
  engine,       \* of the database: sqlite has one writer at a time
  registered,   \* the first account exists
  run,          \* the workspace of the run
  credentials,  \* rows [id, provider, tenant]
  permissions,  \* rows [provider, credential, tenant, enabled]; credential 0 is none
  inserted,     \* what the run left: rows [kind, n, tenant, crossed]
  config,       \* the model that the run's node asks for
  task,         \* the worker's use of the workspace it looked up
  refused       \* the uses refused so far, each with what was true then

vars == <<engine, registered, run, credentials, permissions, inserted, config, task, refused>>

Providers == {"openai", "ollama"}
Kinds == {"event", "approval", "memory"}
Idle == [op |-> "none", tenant |-> "local"]
Page == IF registered THEN "account" ELSE "local"

\* What check_model_credential accepts; ollama needs no credential.
CredentialFits(rows, provider, id, tenant) ==
  IF provider = "ollama" THEN id = 0
  ELSE \E c \in rows : c.id = id /\ c.tenant = tenant /\ c.provider = provider

Permitted(tenant) ==
  /\ \E p \in permissions : p.tenant = tenant /\ p.provider = config.provider /\ p.credential = config.credential /\ p.enabled
  /\ CredentialFits(credentials, config.provider, config.credential, tenant)

Init ==
  /\ engine \in {"sqlite", "postgresql"} /\ registered = FALSE /\ run = "local"
  /\ credentials = {} /\ permissions = {} /\ inserted = {} /\ refused = {} /\ task = Idle
  /\ config \in {[provider |-> "openai", credential |-> 1], [provider |-> "ollama", credential |-> 0]}

-----------------------------------------------------------------------------
\* The pages.
AddCredential ==
  /\ Cardinality(credentials) < MaxCredentials
  /\ \E provider \in {"openai", "anthropic"} :
       credentials' = credentials \cup {[id |-> Cardinality(credentials) + 1, provider |-> provider, tenant |-> Page]}
  /\ UNCHANGED <<engine, registered, run, permissions, inserted, config, task, refused>>

\* Two requests that permit the same model at once end with one enabled row: the
\* second one's insertion fails and it enables the first one's.
Allow ==
  /\ \E provider \in Providers, id \in 0 .. MaxCredentials :
       /\ CredentialFits(credentials, provider, id, Page)
       /\ LET row == [provider |-> provider, credential |-> id, tenant |-> Page, enabled |-> TRUE]
          IN permissions' = (permissions \ {[row EXCEPT !.enabled = FALSE]}) \cup {row}
  /\ UNCHANGED <<engine, registered, run, credentials, inserted, config, task, refused>>

SetEnabled ==
  /\ \E row \in permissions, enabled \in BOOLEAN :
       /\ row.tenant = Page
       /\ enabled => CredentialFits(credentials, row.provider, row.credential, Page)
       /\ permissions' = (permissions \ {row}) \cup {[row EXCEPT !.enabled = enabled]}
  /\ UNCHANGED <<engine, registered, run, credentials, inserted, config, task, refused>>

\* The first account takes over every table in one transaction.
Taken(rows) == {[row EXCEPT !.tenant = "account"] : row \in rows}

Claim ==
  /\ ~registered /\ registered' = TRUE
  /\ engine = "sqlite" => task.op \notin {"event", "approval"}
  /\ run' = "account"
  /\ credentials' = Taken(credentials) /\ permissions' = Taken(permissions) /\ inserted' = Taken(inserted)
  /\ UNCHANGED <<engine, config, task, refused>>

-----------------------------------------------------------------------------
\* The worker.
Refusal(step) == [step |-> step, permitted |-> Permitted(run), crossed |-> task.tenant # run]
Ends == task' = Idle /\ UNCHANGED <<engine, registered, run, credentials, permissions, config>>

\* The run's workspace is looked up for a model, for memory, or by a transaction
\* that inserts an event or an approval.
LookUp ==
  /\ task = Idle
  /\ \E op \in {"authorize"} \cup Kinds : task' = [op |-> op, tenant |-> run]
  /\ UNCHANGED <<engine, registered, run, credentials, permissions, inserted, config, refused>>

Authorize ==
  /\ task.op = "authorize"
  /\ IF Permitted(task.tenant)
     THEN task' = [task EXCEPT !.op = "resolve"] /\ UNCHANGED refused
     ELSE task' = Idle /\ refused' = refused \cup {Refusal("authorize")}
  /\ UNCHANGED <<engine, registered, run, credentials, permissions, inserted, config>>

\* One statement reads the run's workspace and the credential.
Resolved(id) == \E c \in credentials : c.id = id /\ c.tenant = run
Resolve ==
  /\ task.op = "resolve"
  /\ refused' = refused \cup {Refusal("resolve") : x \in IF config.provider = "ollama" \/ Resolved(config.credential) THEN {} ELSE {0}}
  /\ Ends /\ UNCHANGED inserted

\* A new row gets the workspace that was looked up.
Insert ==
  /\ task.op \in Kinds
  /\ LET n == Cardinality({row \in inserted : row.kind = task.op}) + 1
     IN n <= MaxRows /\ inserted' = inserted \cup {[kind |-> task.op, n |-> n, tenant |-> task.tenant, crossed |-> task.tenant # run]}
  /\ Ends /\ UNCHANGED refused

Next == AddCredential \/ Allow \/ SetEnabled \/ Claim \/ LookUp \/ Authorize \/ Resolve \/ Insert

Spec == Init /\ [][Next]_vars

-----------------------------------------------------------------------------
\* The claim leaves the run what it was allowed: a permission and its credential
\* stay in one workspace, a use of a model that passed the check gets its
\* credential whenever the workspace is claimed, and a check refuses a permitted
\* model only when the claim came between its two reads (storage.py:427-470).
ModelsStayUsable ==
  /\ \A p \in permissions : CredentialFits(credentials, p.provider, p.credential, p.tenant)
  /\ \A r \in refused : r.step = "authorize" /\ (r.permitted => r.crossed)

\* After the claim, what the run left is in its workspace, so that the account's
\* pages show it, but for a row whose insertion had looked the workspace up
\* before: an entry of the memory, and on PostgreSQL, whose claim does not wait
\* for the inserting transaction, an event or an approval (storage.py:532,
\* approvals.py:80, agent_memory.py:19, auth.py:213-216).
LeftInWorkspace ==
  \A row \in inserted :
    row.tenant # run => row.crossed /\ (engine = "sqlite" => row.kind = "memory")
=============================================================================
