--------------------------- MODULE SchemaMigrations ---------------------------
(***************************************************************************)
(* Database initialization (storage/schema.py), which scripts/run-         *)
(* production.sh calls before it starts the runner, and so before the lock *)
(* of the runner: two processes may initialize at once.  All of it is one  *)
(* transaction, and PostgreSQL's DDL belongs to it.  A statement that      *)
(* creates what another transaction has created and not yet committed      *)
(* waits for its end.                                                      *)
(*                                                                         *)
(* What the migrations build is a set of objects here, tables and columns  *)
(* alike; the scopes are told apart only as the seed left them or as an    *)
(* operator has tuned them.                                                *)
(***************************************************************************)
EXTENDS Naturals, Sequences

CONSTANTS
    Processes,
    Files,          \* the migrations, in the order of their names
    Builds,         \* Builds[f]: the objects f creates
    StandsFor,      \* StandsFor[f]: those of them that f's history row stands for
    Repeatable,     \* files that may be executed where they were before
    InitialFile, ScopesTable,   \* INITIAL_SCHEMA and a table of it
    AlertsFile, AlertsTable,    \* ALERT_EVENTS_MIGRATION and a table of it
    HistoryTable,   \* schema_migrations
    Databases       \* what the program may be started on

FileSet == {Files[i] : i \in 1..Len(Files)}
Objects == UNION {Builds[f] : f \in FileSet}

ASSUME FilesAssumption ==
    /\ Files \in Seq(FileSet)
    /\ {InitialFile, AlertsFile} \subseteq FileSet
    /\ Repeatable \subseteq FileSet
    /\ HistoryTable \notin Objects
    /\ \A f \in FileSet : StandsFor[f] \subseteq Builds[f]
    /\ StandsFor[InitialFile] = {ScopesTable} /\ StandsFor[AlertsFile] = {AlertsTable}
    /\ UNION {StandsFor[f] : f \in FileSet} = Objects

\* A database the program, or its operator before there was a history, has left.
ASSUME DatabasesAssumption ==
    \A db \in Databases :
        /\ db.built \subseteq Objects \cup {HistoryTable}
        /\ db.history \subseteq FileSet
        /\ \A f \in db.history : StandsFor[f] \subseteq db.built
        /\ HistoryTable \notin db.built => db.history = {}
        /\ db.scopes \in {"none", "seeded", "tuned"}
        /\ HistoryTable \in db.built => db.scopes # "none"   \* one transaction

VARIABLES
    \* What is committed.
    built,          \* the objects that are there
    history,        \* rows of schema_migrations
    scopes,         \* rows of scrape_scopes
    \* Each process and its transaction.
    pc,
    applied,        \* _applied_migration_names, as it was read
    next,           \* the position in Files
    created,        \* what the transaction has built
    recorded,       \* what it has added to the history
    seeds           \* it has executed the seed

database == <<built, history, scopes>>
vars == <<database, pc, applied, next, created, recorded, seeds>>

Initializing == {"connected", "waiting", "bootstrapping", "reading", "migrating",
                 "recording", "seeding", "committing"}

TypeOK ==
    /\ built \subseteq Objects \cup {HistoryTable}
    /\ history \subseteq FileSet
    /\ scopes \in {"none", "seeded", "tuned"}
    /\ pc \in [Processes -> Initializing \cup {"off", "failed", "ready"}]
    /\ applied \in [Processes -> SUBSET FileSet]
    /\ next \in [Processes -> 1..Len(Files) + 1]
    /\ created \in [Processes -> SUBSET (Objects \cup {HistoryTable})]
    /\ recorded \in [Processes -> SUBSET FileSet]
    /\ seeds \in [Processes -> BOOLEAN]

Init ==
    /\ \E db \in Databases :
          built = db.built /\ history = db.history /\ scopes = db.scopes
    /\ pc = [p \in Processes |-> "off"]
    /\ applied = [p \in Processes |-> {}]
    /\ next = [p \in Processes |-> 1]
    /\ created = [p \in Processes |-> {}]
    /\ recorded = [p \in Processes |-> {}]
    /\ seeds = [p \in Processes |-> FALSE]
------------------------------------------------------------------------------
\* What p sees: the committed state and what it has written itself.
Sees(p) == built \cup created[p]
SeesRecorded(p) == history \cup recorded[p]

\* Another transaction has created some of these and not yet ended.
Held(p, objects) == \E q \in Processes \ {p} : created[q] \cap objects # {}

Goto(p, where) == pc' = [pc EXCEPT ![p] = where]

\* The transaction ends.
Ends(p, where) ==
    /\ Goto(p, where)
    /\ applied' = [applied EXCEPT ![p] = {}]
    /\ next' = [next EXCEPT ![p] = 1]
    /\ created' = [created EXCEPT ![p] = {}]
    /\ recorded' = [recorded EXCEPT ![p] = {}]
    /\ seeds' = [seeds EXCEPT ![p] = FALSE]

\* A statement fails or the process is killed: nothing of the transaction stays,
\* and nothing is started.
RollBack(p, where) == Ends(p, where) /\ UNCHANGED database

Start(p) ==
    /\ pc[p] \in {"off", "failed"}
    /\ Goto(p, "connected")
    /\ UNCHANGED <<database, applied, next, created, recorded, seeds>>

CreateHistory(p) ==
    /\ Goto(p, "bootstrapping")
    /\ created' = [created EXCEPT ![p] = @ \cup {HistoryTable}]
    /\ UNCHANGED <<database, applied, next, recorded, seeds>>

\* _ensure_migration_history_table.
EnsureHistory(p) ==
    /\ pc[p] = "connected"
    /\ IF HistoryTable \in built
       THEN Goto(p, "bootstrapping") /\ UNCHANGED <<database, applied, next, created, recorded, seeds>>
       ELSE IF Held(p, {HistoryTable})
       THEN Goto(p, "waiting") /\ UNCHANGED <<database, applied, next, created, recorded, seeds>>
       ELSE CreateHistory(p)

\* "if not exists" was decided before the wait: what another process commits
\* meanwhile makes the statement fail.
WaitEnds(p) ==
    /\ pc[p] = "waiting"
    /\ ~Held(p, {HistoryTable})
    /\ IF HistoryTable \in built THEN RollBack(p, "failed") ELSE CreateHistory(p)

\* What _bootstrap_pre_history_schema records of a schema without a history.
\* Mutant: the whole of a schema that is there is taken for the latest one.
TakenForLatest(p) ==
    IF ScopesTable \in Sees(p) /\ SeesRecorded(p) = {} THEN FileSet ELSE {}
\* Mutant: the alert tables are not looked for.
TakenForInitial(p) ==
    IF ScopesTable \in Sees(p) /\ SeesRecorded(p) = {} THEN {InitialFile} ELSE {}
PreHistory(p) ==
    IF ScopesTable \in Sees(p) /\ SeesRecorded(p) = {}
    THEN {InitialFile} \cup {f \in {AlertsFile} : AlertsTable \in Sees(p)}
    ELSE {}

Bootstrap(p) ==
    /\ pc[p] = "bootstrapping"
    /\ Goto(p, "reading")
    /\ recorded' = [recorded EXCEPT ![p] = @ \cup PreHistory(p)]
    /\ UNCHANGED <<database, applied, next, created, seeds>>

\* _apply_pending_migrations reads the history once and goes through the files.
ReadApplied(p) ==
    /\ pc[p] = "reading"
    /\ Goto(p, "migrating")
    /\ applied' = [applied EXCEPT ![p] = SeesRecorded(p)]
    /\ UNCHANGED <<database, next, created, recorded, seeds>>

IsPending(p, f) == next[p] <= Len(Files) /\ f = Files[next[p]] /\ f \notin applied[p]

Skip(p) ==
    /\ pc[p] = "migrating"
    /\ next[p] <= Len(Files) /\ Files[next[p]] \in applied[p]
    /\ next' = [next EXCEPT ![p] = @ + 1]
    /\ UNCHANGED <<database, pc, applied, created, recorded, seeds>>

\* A plain "create" of what is there fails.
Execute(p, f) ==
    /\ pc[p] = "migrating"
    /\ IsPending(p, f)
    /\ ~Held(p, Builds[f])
    /\ IF f \notin Repeatable /\ Builds[f] \cap Sees(p) # {}
       THEN RollBack(p, "failed")
       ELSE /\ Goto(p, "recording")
            /\ created' = [created EXCEPT ![p] = @ \cup Builds[f]]
            /\ UNCHANGED <<database, applied, next, recorded, seeds>>

\* The name is added to the history, or is there ("on conflict do nothing").
Record(p, f) ==
    /\ pc[p] = "recording"
    /\ IsPending(p, f)
    /\ Goto(p, "migrating")
    /\ recorded' = [recorded EXCEPT ![p] = @ \cup {f}]
    /\ next' = [next EXCEPT ![p] = @ + 1]
    /\ UNCHANGED <<database, applied, created, seeds>>

\* Mutant: the seed is executed at every start.
SeedAlways(p) == TRUE
SeedRequired(p) == scopes = "none"

CheckSeed(p) ==
    /\ pc[p] = "migrating"
    /\ next[p] > Len(Files)
    /\ Goto(p, IF SeedRequired(p) THEN "seeding" ELSE "committing")
    /\ UNCHANGED <<database, applied, next, created, recorded, seeds>>

Seed(p) ==
    /\ pc[p] = "seeding"
    /\ \A q \in Processes : ~seeds[q]
    /\ Goto(p, "committing")
    /\ seeds' = [seeds EXCEPT ![p] = TRUE]
    /\ UNCHANGED <<database, applied, next, created, recorded>>

\* The transaction is committed and the process goes on to its work.  The seed
\* writes over the scopes that are there.
Commit(p) ==
    /\ pc[p] = "committing"
    /\ built' = Sees(p)
    /\ history' = SeesRecorded(p)
    /\ scopes' = IF seeds[p] THEN "seeded" ELSE scopes
    /\ Ends(p, "ready")

\* A process that works is stopped, and may be started again.
Stop(p) == pc[p] = "ready" /\ RollBack(p, "off")

Crash(p) == pc[p] \in Initializing /\ RollBack(p, "off")

\* An operator changes the cadence of a scope.
Tune ==
    /\ scopes = "seeded"
    /\ scopes' = "tuned"
    /\ UNCHANGED <<built, history, pc, applied, next, created, recorded, seeds>>

Proceed(p) ==
    \/ EnsureHistory(p) \/ WaitEnds(p) \/ Bootstrap(p) \/ ReadApplied(p) \/ Skip(p)
    \/ \E f \in FileSet : Execute(p, f) \/ Record(p, f)
    \/ CheckSeed(p) \/ Seed(p) \/ Commit(p)

Next == Tune \/ \E p \in Processes : Start(p) \/ Proceed(p) \/ Stop(p) \/ Crash(p)

Spec == Init /\ [][Next]_vars

\* A process is started again until it works, and its statements are answered.
\* The machine does not kill every initialization.
Fairness ==
    /\ \A p \in Processes : WF_vars(Start(p)) /\ WF_vars(Proceed(p))
    /\ <>[][\A p \in Processes : ~Crash(p)]_vars

FairSpec == Spec /\ Fairness
------------------------------------------------------------------------------
\* What the committed history says was applied is there, whatever schema the
\* history was made up for, wherever an initialization was interrupted, and
\* whichever of two went first (_bootstrap_pre_history_schema, _record_migration).
RecordedIsBuilt == \A f \in history : StandsFor[f] \subseteq built

\* docs/agent-context/scheduling.md: "a failed migration must stop startup before
\* scraping".  A process works only on the whole schema, with scopes to work on.
WorksOnWholeSchema ==
    \A p \in Processes : pc[p] = "ready" =>
        history = FileSet /\ Objects \subseteq built /\ scopes # "none"

\* No later start, and no second process that had found the scopes missing, takes
\* the cadence of a scope back to the seed's (_seed_required).
CadencesStay == [][scopes = "tuned" => scopes' = "tuned"]_vars

\* Whatever database the program is started on, however often it is interrupted
\* and whatever other process races it, it comes to work in the end.
StartsInTheEnd == \A p \in Processes : <>(pc[p] = "ready")
==============================================================================
