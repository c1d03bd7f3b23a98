------------------------------- MODULE Startup -------------------------------
(***************************************************************************)
(* How the processes of a deployment bring its database to the schema they *)
(* expect, and the runs of an older release to where they can be worked on *)
(* (storage.py Store, schema.py, operator_metrics.migrate, migrations).    *)
(*                                                                         *)
(* A schema is the set of its parts, each with the revision it came with;  *)
(* revision 1 is the frozen baseline.  A database of a release before the  *)
(* revisions has no version.                                               *)
(***************************************************************************)
EXTENDS Integers, Sequences, SequencesExt

CONSTANTS
  Processes,  \* API servers and workers
  Newest,     \* the newest revision this build knows
  MaxEvents,  \* Bound: events of a run
  MaxStarts   \* Bound: times a process is started

VARIABLES
  db,      \* shape, version and the data migrations recorded as done
  runs,    \* each run's events in its document, their rows, job and status
  upgrade, \* may startup upgrade a database that has a version?
  procs    \* where each process is, and the runs it found without a job

vars == <<db, runs, upgrade, procs>>

Parts(names) == {<<name, 1>> : name \in names}
Revisions(range) == {<<"revision", r>> : r \in range}
Baseline == Parts({"table", "column", "index", "unique", "type"})
Added == Parts({"table", "column", "index"})  \* what _legacy_columns can add
Tolerated == Parts({"retired table", "spare index"})
Unversioned == 0

Runs == DOMAIN runs
Unfinished == {"queued", "running"}
Migrations == {"events", "metrics"}
AtHead(shape) == shape \ Tolerated = Baseline \cup Revisions(2 .. Newest)

-----------------------------------------------------------------------------
(* What one process does under the lock, in one transaction. *)

Legacy(d) == d.version = Unversioned /\ d.shape # {}
WithLegacyColumns(d) == IF Legacy(d) THEN [d EXCEPT !.shape = @ \cup Added] ELSE d
Differences(shape) == (Baseline \ shape) \cup (shape \ (Baseline \cup Tolerated))

\* A revision adds what must not be there yet, so an upgrade past a part that is
\* already there fails.
Later(d) == Revisions((IF d.version = Unversioned THEN 2 ELSE d.version + 1) .. Newest)
CanUpgrade(d) == Later(d) \cap d.shape = {}
Upgraded(d) == [d EXCEPT !.shape = @ \cup Later(d) \cup (IF d.shape = {} THEN Baseline ELSE {}),
                         !.version = Newest]

Refused == [refused |-> TRUE]
Prepared(d) ==
  IF d.version = Unversioned
  THEN IF d.shape = {} THEN Upgraded(d)
       ELSE IF Differences(d.shape) # {} THEN Refused
       ELSE IF ~upgrade THEN [d EXCEPT !.version = 1]
       ELSE IF CanUpgrade([d EXCEPT !.version = 1]) THEN Upgraded([d EXCEPT !.version = 1]) ELSE Refused
  ELSE IF d.version = Newest THEN d
  ELSE IF d.version > Newest \/ ~upgrade \/ ~CanUpgrade(d) THEN Refused
  ELSE Upgraded(d)

\* The events of each document become rows, numbered as they were, and the run's
\* citation counter passes every label that its checkpoints or events cite.
\* Mutant: the labels in the events are not looked at.
HighWaterOfCheckpoints(run) == Max({run.counter, run.cited})

HighWater(run) == Max({run.counter, run.cited} \cup {run.doc[i].label : i \in DOMAIN run.doc})
InOrder(run) == \A i \in DOMAIN run.doc : run.doc[i].seq = i
WithRows(run) ==
  [run EXCEPT !.rows = @ \o SubSeq(run.doc, Len(@) + 1, Len(run.doc)), !.doc = <<>>, !.counter = HighWater(run)]
Fits(run) == \A i \in DOMAIN run.doc \cap DOMAIN run.rows : run.rows[i] = run.doc[i]

\* A migration reads the tables as this build declares them.
Readable(d, needed) == needed \subseteq d.done \/ AtHead(d.shape)

Open(p) ==
  LET prepared == Prepared(WithLegacyColumns(db)) IN
  /\ procs[p].at = "starting"
  /\ IF /\ prepared # Refused /\ Readable(prepared, Migrations)
        /\ "events" \in prepared.done \/ \A r \in Runs : InOrder(runs[r]) /\ Fits(runs[r])
     THEN /\ db' = [prepared EXCEPT !.done = Migrations]
          /\ runs' = IF "events" \in prepared.done THEN runs ELSE [r \in Runs |-> WithRows(runs[r])]
          /\ procs' = [procs EXCEPT ![p].at = "opened"]
     ELSE procs' = [procs EXCEPT ![p].at = "stopped"] /\ UNCHANGED <<db, runs>>
  /\ UNCHANGED upgrade

-----------------------------------------------------------------------------
(* Runs without a job, outside that transaction. *)

Jobless == {r \in Runs : runs[r].status \in Unfinished /\ runs[r].job = "none"}

FindJobless(p) ==
  /\ procs[p].at = "opened"
  /\ IF AtHead(db.shape) THEN procs' = [procs EXCEPT ![p] = [@ EXCEPT !.at = "found", !.found = Jobless]]
     ELSE procs' = [procs EXCEPT ![p].at = "stopped"]
  /\ UNCHANGED <<db, runs, upgrade>>

\* A job another process has added meanwhile fails the whole commit.
GiveJobs(p) ==
  LET found == procs[p].found IN
  /\ procs[p].at = "found"
  /\ IF \A r \in found : runs[r].job = "none"
     THEN /\ runs' = [r \in Runs |-> IF r \in found THEN [runs[r] EXCEPT !.job = "queued", !.status = "queued"] ELSE runs[r]]
          /\ procs' = [procs EXCEPT ![p] = [@ EXCEPT !.at = "ready", !.found = {}]]
     ELSE procs' = [procs EXCEPT ![p] = [@ EXCEPT !.at = "stopped", !.found = {}]] /\ UNCHANGED runs
  /\ UNCHANGED <<db, upgrade>>

Stopped(p) == procs[p].at = "stopped" /\ procs[p].starts < MaxStarts
Start(p) ==
  /\ procs[p].at = "off" \/ Stopped(p)
  /\ procs' = [procs EXCEPT ![p].at = "starting", ![p].starts = @ + 1]
  /\ UNCHANGED <<db, runs, upgrade>>

Crash(p) ==
  /\ procs[p].at \in {"starting", "opened", "found", "ready"}
  /\ procs' = [procs EXCEPT ![p] = [@ EXCEPT !.at = "stopped", !.found = {}]]
  /\ UNCHANGED <<db, runs, upgrade>>

\* A process that is ready works on the runs: it takes a job, adds an event with
\* its row, and finishes.
Work(p) ==
  /\ procs[p].at = "ready"
  /\ \E r \in Runs :
       \/ runs[r].job = "queued" /\ runs' = [runs EXCEPT ![r].job = "running", ![r].status = "running"]
       \/ /\ runs[r].job = "running"
          /\ runs' = [runs EXCEPT ![r].job = "success", ![r].status = "success", ![r].counter = @ + 1,
                        ![r].rows = Append(@, [seq |-> Len(@) + 1, label |-> runs[r].counter + 1])]
  /\ UNCHANGED <<db, upgrade, procs>>

-----------------------------------------------------------------------------
\* A database: empty, of a release before the revisions and of any condition, at
\* a revision, or of a newer build.
VersionedShape(v) == Baseline \cup Revisions(2 .. v)
Database(shape, version, done) == [shape |-> shape, version |-> version, done |-> done]
OldShapes ==
  {(Baseline \ missing) \cup extra : missing \in {{}, Parts({"table"}), Parts({"unique"}), Parts({"type"}), Added},
                                     extra \in {{}, Parts({"foreign"}), Revisions({2}), Tolerated}}
Databases ==
  UNION {{Database({}, Unversioned, {})}, {Database(s, Unversioned, {}) : s \in OldShapes},
         {Database(VersionedShape(v), v, Migrations) : v \in 1 .. Newest},
         {Database(VersionedShape(Newest) \cup Revisions({Newest + 1}), Newest + 1, Migrations)}}

\* An old run has a label in some of its events, which may have rows already, or
\* out of order, and may lack a job.
Event(seq, label) == [seq |-> seq, label |-> label]
Documents ==
  {<<Event(2, 0)>>} \cup UNION {{[i \in 1 .. n |-> Event(i, labels[i])] : labels \in [1 .. n -> {0, 3}]} : n \in 0 .. MaxEvents}
Run(doc, rows, cited, job, status) ==
  [doc |-> doc, rows |-> rows, counter |-> 0, cited |-> cited, job |-> job, status |-> status]
OldRuns ==
  UNION {{Run(doc, SubSeq(doc, 1, n), cited, js[1], js[2]) : n \in 0 .. Len(doc)} :
           doc \in Documents, cited \in {0, 1}, js \in {<<"none", "running">>, <<"queued", "queued">>, <<"none", "success">>}}

Init ==
  /\ upgrade \in BOOLEAN
  /\ \/ \E run \in OldRuns : db = Database(Baseline \ Added, Unversioned, {}) /\ runs = <<run>>
     \/ /\ db \in Databases
        /\ runs = IF db.shape = {} THEN <<>> ELSE <<Run(<<>>, <<>>, 0, "none", "running"), Run(<<>>, <<>>, 0, "queued", "queued")>>
  /\ procs = [p \in Processes |-> [at |-> "off", found |-> {}, starts |-> 0]]

Next == \E p \in Processes : Start(p) \/ Open(p) \/ FindJobless(p) \/ GiveJobs(p) \/ Crash(p) \/ Work(p)

Spec == Init /\ [][Next]_vars

-----------------------------------------------------------------------------
\* The version recorded in the database is what its schema is: whoever stamped or
\* upgraded it, and however often, no revision is missing or there twice.
VersionTells ==
  db.version \in 1 .. Newest => db.shape \ Tolerated = VersionedShape(db.version)

\* A process that has started finds the schema it was built for, no event left in
\* a document, and every unfinished run in the queue.
ReadyMeansReady ==
  \A p \in Processes : procs[p].at = "ready" =>
    /\ AtHead(db.shape) /\ db.version = Newest
    /\ \A r \in Runs : runs[r].doc = <<>> /\ (runs[r].status \in Unfinished => runs[r].job # "none")

\* Startup keeps every event of a run in its order, never lets a label that was
\* cited be given again, and never takes back what a worker did with a run.
History(run) == run.rows \o SubSeq(run.doc, Len(run.rows) + 1, Len(run.doc))
HistoryStep ==
  \A r \in Runs :
     /\ SubSeq(History(runs'[r]), 1, Len(History(runs[r]))) = History(runs[r])
     /\ runs[r].job # "none" => runs'[r].job # "none" /\ (runs[r].status = "success" => runs'[r] = runs[r])
     /\ runs[r].job = "running" => runs'[r].job # "queued"
     /\ Len(runs'[r].rows) > Len(runs[r].rows) /\ runs[r].doc = <<>> =>
          \A i \in DOMAIN runs[r].rows : Last(runs'[r].rows).label > Max({runs[r].rows[i].label, runs[r].cited})
=============================================================================
