------------------------ MODULE SchemaMigrations_proofs ------------------------
(***************************************************************************)
(* SchemaMigrations for any files, processes and databases.                *)
(***************************************************************************)
EXTENDS SchemaMigrations, TLAPS

LEMMA FileNumbers ==
    /\ Len(Files) \in Nat
    /\ \A i \in 1..Len(Files) : Files[i] \in FileSet
    /\ \A f \in FileSet : \E i \in 1..Len(Files) : f = Files[i]
<1>1. Files \in Seq(FileSet)
  BY FilesAssumption
<1>2. Len(Files) \in Nat
  BY <1>1
<1> QED
  BY <1>2 DEF FileSet

LEMMA BuiltByFiles == \A f \in FileSet : Builds[f] \subseteq Objects
BY DEF Objects

LEMMA InitTyped == Init => TypeOK
<1> SUFFICES ASSUME Init PROVE TypeOK
  OBVIOUS
<1>1. /\ built \subseteq Objects \cup {HistoryTable} /\ history \subseteq FileSet
      /\ scopes \in {"none", "seeded", "tuned"}
  BY DatabasesAssumption DEF Init
<1>2. 1 \in 1..Len(Files) + 1
  BY FileNumbers
<1> QED
  BY <1>1, <1>2 DEF Init, TypeOK

LEMMA TypedEnds ==
    ASSUME TypeOK, NEW p \in Processes, NEW where \in {"off", "failed", "ready"}, Ends(p, where),
           built' \subseteq Objects \cup {HistoryTable}, history' \subseteq FileSet,
           scopes' \in {"none", "seeded", "tuned"}
    PROVE  TypeOK'
<1>1. 1 \in 1..Len(Files) + 1
  BY FileNumbers
<1> QED
  BY <1>1 DEF TypeOK, Ends, Goto

\* The transaction of p ends without a trace.
Undone(p) == RollBack(p, "off") \/ RollBack(p, "failed")

LEMMA PreHistoryTyped == ASSUME NEW p PROVE PreHistory(p) \subseteq FileSet
BY FilesAssumption DEF PreHistory

\* The state is typed (initialize_database).
THEOREM TypeCorrect == Spec => []TypeOK
<1>1. ASSUME TypeOK, [Next]_vars PROVE TypeOK'
  <2> USE <1>1
  <2>1. ASSUME NEW p \in Processes, Undone(p) PROVE TypeOK'
    BY <2>1, TypedEnds DEF Undone, RollBack, database, TypeOK
  <2>2. ASSUME NEW p \in Processes, CreateHistory(p) PROVE TypeOK'
    BY <2>2 DEF CreateHistory, Goto, database, TypeOK, Initializing
  <2>3. ASSUME NEW p \in Processes, Start(p) PROVE TypeOK'
    BY <2>3 DEF Start, Goto, database, TypeOK, Initializing
  <2>4. ASSUME NEW p \in Processes, EnsureHistory(p) PROVE TypeOK'
    BY <2>2, <2>4 DEF EnsureHistory, Goto, database, TypeOK, Initializing
  <2>5. ASSUME NEW p \in Processes, WaitEnds(p) PROVE TypeOK'
    BY <2>1, <2>2, <2>5 DEF WaitEnds, Undone
  <2>6. ASSUME NEW p \in Processes, Bootstrap(p) PROVE TypeOK'
    BY <2>6, PreHistoryTyped DEF Bootstrap, Goto, database, TypeOK, Initializing
  <2>7. ASSUME NEW p \in Processes, ReadApplied(p) PROVE TypeOK'
    BY <2>7 DEF ReadApplied, SeesRecorded, Goto, database, TypeOK, Initializing
  <2>8. ASSUME NEW p \in Processes, Skip(p) PROVE TypeOK'
    <3>1. next[p] + 1 \in 1..Len(Files) + 1
      BY <2>8, FileNumbers DEF Skip, TypeOK
    <3> QED
      BY <2>8, <3>1 DEF Skip, database, TypeOK
  <2>9. ASSUME NEW p \in Processes, NEW f \in FileSet, Execute(p, f) PROVE TypeOK'
    BY <2>1, <2>9, BuiltByFiles DEF Execute, Undone, Goto, database, TypeOK, Initializing
  <2>10. ASSUME NEW p \in Processes, NEW f \in FileSet, Record(p, f) PROVE TypeOK'
    <3>1. next[p] + 1 \in 1..Len(Files) + 1
      BY <2>10, FileNumbers DEF Record, IsPending, TypeOK
    <3> QED
      BY <2>10, <3>1 DEF Record, Goto, database, TypeOK, Initializing
  <2>11. ASSUME NEW p \in Processes, CheckSeed(p) PROVE TypeOK'
    BY <2>11 DEF CheckSeed, Goto, database, TypeOK, Initializing
  <2>12. ASSUME NEW p \in Processes, Seed(p) PROVE TypeOK'
    BY <2>12 DEF Seed, Goto, database, TypeOK, Initializing
  <2>13. ASSUME NEW p \in Processes, Commit(p) PROVE TypeOK'
    BY <2>13, TypedEnds DEF Commit, Sees, SeesRecorded, TypeOK
  <2>14. CASE Tune
    BY <2>14 DEF Tune, TypeOK
  <2>15. CASE UNCHANGED vars
    BY <2>15 DEF vars, database, TypeOK
  <2> QED
    BY <2>1, <2>3, <2>4, <2>5, <2>6, <2>7, <2>8, <2>9, <2>10, <2>11, <2>12, <2>13, <2>14, <2>15
       DEF Next, Proceed, Stop, Crash, Undone
<1> QED
  BY <1>1, InitTyped, PTL DEF Spec
------------------------------------------------------------------------------
\* What one process has recorded is built in its transaction, and it leaves no
\* file behind it that it or another has not recorded.
Sound(p) ==
    /\ pc[p] \notin {"migrating", "recording", "seeding", "committing"} => next[p] = 1
    /\ \A f \in recorded[p] : StandsFor[f] \subseteq Sees(p)
    /\ pc[p] \in {"migrating", "recording"} =>
          /\ applied[p] \subseteq SeesRecorded(p)
          /\ \A i \in 1..next[p] - 1 : Files[i] \in SeesRecorded(p)
    /\ pc[p] = "recording" => next[p] <= Len(Files) /\ Builds[Files[next[p]]] \subseteq Sees(p)
    /\ pc[p] \in {"seeding", "committing"} => SeesRecorded(p) = FileSet
    /\ pc[p] = "committing" => seeds[p] \/ scopes # "none"
    /\ pc[p] = "ready" => history = FileSet /\ Objects \subseteq built /\ scopes # "none"

IInv == TypeOK /\ RecordedIsBuilt /\ \A p \in Processes : Sound(p)

\* The database only gains.
Gains == built \subseteq built' /\ history \subseteq history' /\ (scopes # "none" => scopes' # "none")

Local(p) == <<pc[p], applied[p], next[p], created[p], recorded[p], seeds[p]>>

LEMMA EndsAlone ==
    ASSUME TypeOK, NEW p \in Processes, NEW where, Ends(p, where), NEW q \in Processes \ {p}
    PROVE  Local(q)' = Local(q)
BY DEF Ends, Goto, Local, TypeOK

\* A step of p leaves what another process has of its own.
LEMMA ActsAlone ==
    ASSUME TypeOK, NEW p \in Processes, Start(p) \/ Proceed(p) \/ Stop(p) \/ Crash(p),
           NEW q \in Processes \ {p}
    PROVE  Local(q)' = Local(q)
<1>1. CASE Undone(p)
  BY <1>1, EndsAlone DEF Undone, RollBack
<1>2. CASE CreateHistory(p)
  BY <1>2 DEF CreateHistory, Goto, Local, TypeOK
<1>3. CASE Start(p) \/ EnsureHistory(p) \/ WaitEnds(p)
  BY <1>1, <1>2, <1>3 DEF Start, EnsureHistory, WaitEnds, Undone, Goto, Local, TypeOK
<1>4. CASE Bootstrap(p) \/ ReadApplied(p) \/ Skip(p)
  BY <1>4 DEF Bootstrap, ReadApplied, Skip, Goto, Local, TypeOK
<1>5. ASSUME NEW f \in FileSet, Execute(p, f) \/ Record(p, f) PROVE Local(q)' = Local(q)
  BY <1>1, <1>5 DEF Execute, Undone, Record, Goto, Local, TypeOK
<1>6. CASE CheckSeed(p) \/ Seed(p)
  BY <1>6 DEF CheckSeed, Seed, Goto, Local, TypeOK
<1>7. CASE Commit(p)
  BY <1>7, EndsAlone DEF Commit
<1> QED
  BY <1>1, <1>3, <1>4, <1>5, <1>6, <1>7 DEF Proceed, Stop, Crash, Undone

LEMMA AlwaysGains == ASSUME TypeOK, [Next]_vars PROVE Gains
<1>1. ASSUME NEW p \in Processes, Undone(p) \/ CreateHistory(p) PROVE UNCHANGED database
  BY <1>1 DEF Undone, RollBack, CreateHistory
<1>2. ASSUME NEW p \in Processes, Commit(p) PROVE Gains
  BY <1>2 DEF Commit, Gains, Sees, SeesRecorded
<1>3. CASE Tune
  BY <1>3 DEF Tune, Gains
<1>4. CASE UNCHANGED database
  BY <1>4 DEF database, Gains
<1>5. CASE UNCHANGED vars
  BY <1>4, <1>5 DEF vars
<1> QED
  BY <1>1, <1>2, <1>3, <1>4, <1>5
     DEF Next, Proceed, Start, Stop, Crash, Undone, EnsureHistory, WaitEnds, Bootstrap, ReadApplied, Skip,
         Execute, Record, CheckSeed, Seed

\* A process that rests stays sound while the database gains.
LEMMA SoundAtRest ==
    ASSUME TypeOK, TypeOK', Gains, NEW q \in Processes, Sound(q), Local(q)' = Local(q)
    PROVE  Sound(q)'
<1>1. /\ pc'[q] = pc[q] /\ applied'[q] = applied[q] /\ next'[q] = next[q]
      /\ created'[q] = created[q] /\ recorded'[q] = recorded[q] /\ seeds'[q] = seeds[q]
  BY DEF Local
<1>2. Sees(q) \subseteq Sees(q)' /\ SeesRecorded(q) \subseteq SeesRecorded(q)'
  BY <1>1 DEF Sees, SeesRecorded, Gains
<1>3. SeesRecorded(q)' \subseteq FileSet /\ history' \subseteq FileSet
  BY DEF TypeOK, SeesRecorded
<1> QED
  BY <1>1, <1>2, <1>3 DEF Sound, Gains

\* A process that has ended its transaction without a commit is sound.
LEMMA SoundWhenOff ==
    ASSUME TypeOK, NEW p \in Processes, Undone(p)
    PROVE  Sound(p)'
<1>1. pc'[p] \in {"off", "failed"} /\ recorded'[p] = {} /\ next'[p] = 1
  BY DEF Undone, RollBack, Ends, Goto, TypeOK
<1> QED
  BY <1>1 DEF Sound

LEMMA BootstrapSound ==
    ASSUME TypeOK, NEW p \in Processes, Sound(p), Bootstrap(p)
    PROVE  Sound(p)'
<1>1. /\ pc[p] = "bootstrapping" /\ pc'[p] = "reading" /\ next' = next
      /\ recorded'[p] = recorded[p] \cup PreHistory(p) /\ built' = built /\ created' = created
  BY DEF Bootstrap, Goto, database, TypeOK
<1>2. ASSUME NEW f \in PreHistory(p) PROVE StandsFor[f] \subseteq Sees(p)
  BY FilesAssumption DEF PreHistory
<1> QED
  BY <1>1, <1>2 DEF Sound, Sees

LEMMA CommitSound ==
    ASSUME IInv, NEW p \in Processes, Commit(p)
    PROVE  RecordedIsBuilt' /\ Sound(p)'
<1>1. /\ built' = Sees(p) /\ history' = SeesRecorded(p) /\ pc'[p] = "ready" /\ recorded'[p] = {}
      /\ next'[p] = 1
      /\ scopes' = IF seeds[p] THEN "seeded" ELSE scopes
      /\ pc[p] = "committing"
  BY DEF Commit, Ends, Goto, IInv, TypeOK
<1>2. ASSUME NEW f \in SeesRecorded(p) PROVE StandsFor[f] \subseteq Sees(p)
  BY DEF SeesRecorded, Sees, IInv, RecordedIsBuilt, Sound
<1>3. SeesRecorded(p) = FileSet /\ (seeds[p] \/ scopes # "none")
  BY <1>1 DEF IInv, Sound
<1>4. Objects \subseteq Sees(p)
  BY <1>2, <1>3, FilesAssumption
<1> QED
  BY <1>1, <1>2, <1>3, <1>4 DEF RecordedIsBuilt, Sound

\* The loop over the files leaves none behind (_apply_pending_migrations).
LEMMA LoopSound ==
    ASSUME TypeOK, NEW p \in Processes, Sound(p),
           \/ ReadApplied(p) \/ Skip(p) \/ CheckSeed(p)
           \/ \E f \in FileSet : Execute(p, f) \/ Record(p, f)
    PROVE  Sound(p)'
<1>1. next[p] \in 1..Len(Files) + 1 /\ Len(Files) \in Nat
  BY FileNumbers DEF TypeOK
<1>2. CASE ReadApplied(p)
  <2>1. /\ pc[p] = "reading" /\ pc'[p] = "migrating" /\ applied'[p] = SeesRecorded(p)
        /\ UNCHANGED <<database, next, created, recorded, seeds>>
    BY <1>2 DEF ReadApplied, Goto, TypeOK
  <2>2. next[p] = 1
    BY <2>1 DEF Sound
  <2> QED
    BY <2>1, <2>2 DEF Sound, Sees, SeesRecorded, database
<1>3. CASE Skip(p)
  <2>1. /\ pc[p] = "migrating" /\ next'[p] = next[p] + 1 /\ Files[next[p]] \in applied[p]
        /\ UNCHANGED <<database, pc, applied, created, recorded, seeds>>
    BY <1>3 DEF Skip, TypeOK
  <2>2. \A i \in 1..next'[p] - 1 : i \in 1..next[p] - 1 \/ i = next[p]
    BY <1>1, <2>1
  <2> QED
    BY <2>1, <2>2 DEF Sound, Sees, SeesRecorded, database
<1>4. ASSUME NEW f \in FileSet, Execute(p, f) PROVE Sound(p)'
  <2>1. CASE Undone(p)
    BY <2>1, SoundWhenOff
  <2>2. CASE ~Undone(p)
    <3>1. /\ pc[p] = "migrating" /\ next[p] <= Len(Files) /\ f = Files[next[p]]
          /\ pc'[p] = "recording" /\ created'[p] = created[p] \cup Builds[f]
          /\ UNCHANGED <<database, applied, next, recorded, seeds>>
      BY <1>4, <2>2 DEF Execute, Undone, IsPending, Goto, TypeOK
    <3> QED
      BY <3>1 DEF Sound, Sees, SeesRecorded, database
  <2> QED
    BY <2>1, <2>2
<1>5. ASSUME NEW f \in FileSet, Record(p, f) PROVE Sound(p)'
  <2>1. /\ pc[p] = "recording" /\ f = Files[next[p]] /\ pc'[p] = "migrating"
        /\ recorded'[p] = recorded[p] \cup {f} /\ next'[p] = next[p] + 1
        /\ UNCHANGED <<database, applied, created, seeds>>
    BY <1>5 DEF Record, IsPending, Goto, TypeOK
  <2>2. \A i \in 1..next'[p] - 1 : i \in 1..next[p] - 1 \/ i = next[p]
    BY <1>1, <2>1
  <2>3. StandsFor[f] \subseteq Sees(p)
    BY <2>1, FilesAssumption DEF Sound
  <2> QED
    BY <2>1, <2>2, <2>3 DEF Sound, Sees, SeesRecorded, database
<1>6. CASE CheckSeed(p)
  <2>1. /\ pc[p] = "migrating" /\ next[p] > Len(Files)
        /\ pc'[p] = IF scopes = "none" THEN "seeding" ELSE "committing"
        /\ UNCHANGED <<database, applied, next, created, recorded, seeds>>
    BY <1>6 DEF CheckSeed, SeedRequired, Goto, TypeOK
  <2>2. FileSet \subseteq SeesRecorded(p)
    BY <1>1, <2>1, FileNumbers DEF Sound
  <2>3. SeesRecorded(p) \subseteq FileSet
    BY DEF SeesRecorded, TypeOK
  <2> QED
    BY <2>1, <2>2, <2>3 DEF Sound, Sees, SeesRecorded, database
<1> QED
  BY <1>2, <1>3, <1>4, <1>5, <1>6

\* Before the loop nothing is owed but what was recorded.
LEMMA StartSound ==
    ASSUME TypeOK, NEW p \in Processes, Sound(p), Start(p) \/ EnsureHistory(p) \/ WaitEnds(p)
    PROVE  Sound(p)'
<1>1. ASSUME UNCHANGED <<database, next, recorded>>, created[p] \subseteq created'[p],
             pc[p] \in {"off", "failed", "connected", "waiting"},
             pc'[p] \in {"connected", "waiting", "bootstrapping"}
      PROVE  Sound(p)'
  BY <1>1 DEF Sound, Sees, database
<1>2. CASE CreateHistory(p) /\ pc[p] \in {"connected", "waiting"}
  BY <1>1, <1>2 DEF CreateHistory, Goto, TypeOK
<1>3. CASE Undone(p)
  BY <1>3, SoundWhenOff
<1>4. CASE Start(p)
  BY <1>1, <1>4 DEF Start, Goto, TypeOK
<1>5. CASE EnsureHistory(p)
  BY <1>1, <1>2, <1>5 DEF EnsureHistory, Goto, TypeOK
<1>6. CASE WaitEnds(p)
  BY <1>2, <1>3, <1>6 DEF WaitEnds, Undone
<1> QED
  BY <1>4, <1>5, <1>6

LEMMA SeedSound ==
    ASSUME TypeOK, NEW p \in Processes, Sound(p), Seed(p)
    PROVE  Sound(p)'
<1>1. /\ pc[p] = "seeding" /\ pc'[p] = "committing" /\ seeds'[p]
      /\ UNCHANGED <<database, applied, next, created, recorded>>
  BY DEF Seed, Goto, TypeOK
<1> QED
  BY <1>1 DEF Sound, Sees, SeesRecorded, database

LEMMA HistoryStays ==
    ASSUME NEW p \in Processes, Start(p) \/ Proceed(p) \/ Stop(p) \/ Crash(p), ~Commit(p)
    PROVE  UNCHANGED <<built, history, scopes>>
<1>1. Undone(p) \/ CreateHistory(p) => UNCHANGED database
  BY DEF Undone, RollBack, CreateHistory
<1> QED
  BY <1>1 DEF database, Proceed, Start, Stop, Crash, Undone, EnsureHistory, WaitEnds, Bootstrap,
              ReadApplied, Skip, Execute, Record, CheckSeed, Seed

LEMMA InvariantHolds == Spec => []IInv
<1>1. Init => IInv
  <2> SUFFICES ASSUME Init PROVE RecordedIsBuilt /\ \A p \in Processes : Sound(p)
    BY InitTyped DEF IInv
  <2>1. RecordedIsBuilt
    BY DatabasesAssumption DEF Init, RecordedIsBuilt
  <2>2. ASSUME NEW p \in Processes PROVE Sound(p)
    BY DEF Init, Sound
  <2> QED
    BY <2>1, <2>2
<1>2. ASSUME IInv, TypeOK', [Next]_vars PROVE IInv'
  <2> SUFFICES RecordedIsBuilt' /\ \A q \in Processes : Sound(q)'
    BY <1>2 DEF IInv
  <2>1. TypeOK /\ RecordedIsBuilt /\ Gains
    BY <1>2, AlwaysGains DEF IInv
  <2>2. ASSUME NEW q \in Processes, Local(q)' = Local(q) PROVE Sound(q)'
    BY <1>2, <2>1, <2>2, SoundAtRest DEF IInv
  <2>3. ASSUME NEW p \in Processes, Start(p) \/ Proceed(p) \/ Stop(p) \/ Crash(p)
        PROVE  RecordedIsBuilt' /\ \A q \in Processes : Sound(q)'
    <3>1. ASSUME NEW q \in Processes \ {p} PROVE Sound(q)'
      BY <2>1, <2>2, <2>3, <3>1, ActsAlone
    <3>2. RecordedIsBuilt'
      <4>1. CASE Commit(p)
        BY <1>2, <4>1, CommitSound
      <4>2. CASE ~Commit(p)
        BY <2>1, <2>3, <4>2, HistoryStays DEF RecordedIsBuilt
      <4> QED
        BY <4>1, <4>2
    <3>3. Sound(p)'
      <4>1. CASE Undone(p)
        BY <2>1, <4>1, SoundWhenOff
      <4>2. CASE Start(p) \/ EnsureHistory(p) \/ WaitEnds(p)
        BY <1>2, <4>2, StartSound DEF IInv
      <4>3. CASE Bootstrap(p)
        BY <1>2, <4>3, BootstrapSound DEF IInv
      <4>4. CASE \/ ReadApplied(p) \/ Skip(p) \/ CheckSeed(p)
                 \/ \E f \in FileSet : Execute(p, f) \/ Record(p, f)
        BY <1>2, <4>4, LoopSound DEF IInv
      <4>5. CASE Seed(p)
        BY <1>2, <4>5, SeedSound DEF IInv
      <4>6. CASE Commit(p)
        BY <1>2, <4>6, CommitSound
      <4> QED
        BY <2>3, <4>1, <4>2, <4>3, <4>4, <4>5, <4>6 DEF Proceed, Stop, Crash, Undone
    <3> QED
      BY <3>1, <3>2, <3>3
  <2>4. CASE Tune \/ UNCHANGED vars
    <3>1. UNCHANGED <<built, history, pc, applied, next, created, recorded, seeds>>
      BY <2>4 DEF Tune, vars, database
    <3> QED
      BY <2>1, <2>2, <3>1 DEF Local, RecordedIsBuilt
  <2> QED
    BY <1>2, <2>3, <2>4 DEF Next
<1> QED
  BY <1>1, <1>2, TypeCorrect, PTL DEF Spec

\* What the history says was applied is there (_record_migration).
THEOREM HistoryIsTrue == Spec => []RecordedIsBuilt
BY InvariantHolds, PTL DEF IInv

\* A process that works has the whole schema and scopes to work on, however many
\* processes initialize at once, wherever they are interrupted (initialize_database).
THEOREM WorksOnAll == Spec => []WorksOnWholeSchema
<1>1. IInv => WorksOnWholeSchema
  BY DEF IInv, Sound, WorksOnWholeSchema
<1> QED
  BY <1>1, InvariantHolds, PTL
------------------------------------------------------------------------------
\* Where the history table must be in sight.
After == {"bootstrapping", "reading", "migrating", "recording", "seeding", "committing"}

\* The history table is created once, by one transaction, and before the scopes
\* are looked for; who is to seed them is the one who has created it.
OneSeeder ==
    /\ scopes = "none" => HistoryTable \notin built
    /\ \A p \in Processes :
          /\ HistoryTable \in created[p] =>
                HistoryTable \notin built /\ \A q \in Processes \ {p} : HistoryTable \notin created[q]
          /\ pc[p] \in After => HistoryTable \in Sees(p)
          /\ pc[p] = "seeding" \/ seeds[p] =>
                scopes = "none" /\ pc[p] \in {"seeding", "committing"}

LEMMA EndKeepsOneSeeder ==
    ASSUME TypeOK, OneSeeder, NEW p \in Processes, Undone(p)
    PROVE  OneSeeder'
<1>1. /\ pc' \in {[pc EXCEPT ![p] = "off"], [pc EXCEPT ![p] = "failed"]}
      /\ created' = [created EXCEPT ![p] = {}]
      /\ seeds' = [seeds EXCEPT ![p] = FALSE] /\ UNCHANGED <<built, scopes>>
  BY DEF Undone, RollBack, Ends, Goto, database
<1> QED
  BY <1>1 DEF OneSeeder, After, Sees, TypeOK

LEMMA CreationKeepsOneSeeder ==
    ASSUME TypeOK, OneSeeder, NEW p \in Processes, CreateHistory(p), HistoryTable \notin built,
           ~Held(p, {HistoryTable}), pc[p] \in {"connected", "waiting"}
    PROVE  OneSeeder'
<1>1. /\ pc' = [pc EXCEPT ![p] = "bootstrapping"]
      /\ created' = [created EXCEPT ![p] = @ \cup {HistoryTable}]
      /\ UNCHANGED <<built, scopes, seeds>>
  BY DEF CreateHistory, Goto, database
<1>2. \A q \in Processes \ {p} : HistoryTable \notin created[q]
  BY DEF Held
<1> QED
  BY <1>1, <1>2 DEF OneSeeder, Sees, TypeOK

\* The steps that neither create the history table nor seed nor commit.
LEMMA OthersKeepOneSeeder ==
    ASSUME TypeOK, OneSeeder, NEW p \in Processes, UNCHANGED <<built, scopes, seeds>>,
           NEW new \in SUBSET Objects, created' = [created EXCEPT ![p] = @ \cup new],
           NEW where, Goto(p, where),
           where \in After => pc[p] \in After \/ HistoryTable \in built,
           where = "seeding" => scopes = "none",
           pc[p] \notin {"seeding", "committing"}
    PROVE  OneSeeder'
<1>1. HistoryTable \notin new
  BY FilesAssumption
<1>2. \A q \in Processes : HistoryTable \in created'[q] <=> HistoryTable \in created[q]
  BY <1>1 DEF TypeOK
<1>3. \A q \in Processes : HistoryTable \in Sees(q)' <=> HistoryTable \in Sees(q)
  BY <1>2 DEF Sees
<1>4. ASSUME NEW q \in Processes PROVE pc'[q] = IF q = p THEN where ELSE pc[q]
  BY DEF Goto, TypeOK
<1>5. \A q \in Processes : pc'[q] \in After => HistoryTable \in Sees(q)
  BY <1>4 DEF OneSeeder, After, Sees
<1>6. \A q \in Processes : pc'[q] = "seeding" \/ seeds[q] =>
          scopes = "none" /\ pc'[q] \in {"seeding", "committing"}
  BY <1>4 DEF OneSeeder
<1> QED
  BY <1>2, <1>3, <1>5, <1>6 DEF OneSeeder, After

LEMMA SeedKeepsOneSeeder ==
    ASSUME TypeOK, OneSeeder, NEW p \in Processes, Seed(p)
    PROVE  OneSeeder'
<1>1. /\ pc[p] = "seeding" /\ pc' = [pc EXCEPT ![p] = "committing"]
      /\ seeds' = [seeds EXCEPT ![p] = TRUE] /\ UNCHANGED <<built, scopes, created>>
  BY DEF Seed, Goto, database
<1> QED
  BY <1>1 DEF OneSeeder, After, Sees, TypeOK

LEMMA CommitKeepsOneSeeder ==
    ASSUME IInv, OneSeeder, NEW p \in Processes, Commit(p)
    PROVE  OneSeeder' /\ (scopes = "tuned" => scopes' = "tuned")
<1>1. /\ built' = Sees(p) /\ pc[p] = "committing" /\ pc' = [pc EXCEPT ![p] = "ready"]
      /\ scopes' = IF seeds[p] THEN "seeded" ELSE scopes
      /\ created' = [created EXCEPT ![p] = {}] /\ seeds' = [seeds EXCEPT ![p] = FALSE]
  BY DEF Commit, Ends, Goto
<1>2. TypeOK /\ (seeds[p] \/ scopes # "none")
  BY <1>1 DEF IInv, Sound
<1>3. scopes' # "none" /\ (seeds[p] => scopes = "none")
  BY <1>1, <1>2 DEF OneSeeder
<1>4. ASSUME NEW q \in Processes \ {p}, HistoryTable \in created[q] PROVE HistoryTable \notin Sees(p)
  BY <1>4 DEF OneSeeder, Sees
<1>5. ASSUME NEW q \in Processes \ {p}, pc[q] = "seeding" \/ seeds[q] PROVE FALSE
  <2>1. scopes = "none" /\ HistoryTable \notin built /\ pc[q] \in {"seeding", "committing"}
    BY <1>5 DEF OneSeeder
  <2>2. HistoryTable \in created[q] /\ HistoryTable \in created[p]
    BY <1>1, <2>1 DEF OneSeeder, After, Sees
  <2> QED
    BY <2>2 DEF OneSeeder
<1>6. /\ pc'[p] = "ready" /\ created'[p] = {} /\ ~seeds'[p]
      /\ \A q \in Processes \ {p} : pc'[q] = pc[q] /\ created'[q] = created[q] /\ seeds'[q] = seeds[q]
  BY <1>1, <1>2 DEF TypeOK
<1>7. ASSUME NEW q \in Processes
      PROVE  /\ HistoryTable \in created'[q] =>
                   /\ HistoryTable \notin built'
                   /\ \A r \in Processes \ {q} : HistoryTable \notin created'[r]
             /\ pc'[q] \in After => HistoryTable \in Sees(q)'
             /\ ~(pc'[q] = "seeding" \/ seeds'[q])
  <2>1. CASE q = p
    BY <1>6, <2>1 DEF After
  <2>2. CASE q # p
    <3>1. HistoryTable \in Sees(q) => HistoryTable \in Sees(q)'
      BY <1>1, <1>6, <2>2 DEF Sees
    <3> QED
      BY <1>1, <1>4, <1>5, <1>6, <2>2, <3>1 DEF OneSeeder, After
  <2> QED
    BY <2>1, <2>2
<1> QED
  BY <1>1, <1>3, <1>7 DEF OneSeeder, After

LEMMA StepKeepsOneSeeder ==
    ASSUME IInv, OneSeeder, [Next]_vars
    PROVE  OneSeeder' /\ (scopes = "tuned" => scopes' = "tuned")
<1>1. TypeOK
  BY DEF IInv
<1>2. ASSUME NEW p \in Processes, Undone(p)
      PROVE  OneSeeder' /\ (scopes = "tuned" => scopes' = "tuned")
  BY <1>1, <1>2, EndKeepsOneSeeder DEF Undone, RollBack, database
<1>3. ASSUME NEW p \in Processes, CreateHistory(p), HistoryTable \notin built,
             ~Held(p, {HistoryTable}), pc[p] \in {"connected", "waiting"}
      PROVE  OneSeeder' /\ (scopes = "tuned" => scopes' = "tuned")
  BY <1>1, <1>3, CreationKeepsOneSeeder DEF CreateHistory, database
<1>4. ASSUME NEW p \in Processes, NEW new \in SUBSET Objects, NEW where, Goto(p, where),
             created' = [created EXCEPT ![p] = @ \cup new], UNCHANGED <<database, seeds>>,
             where \in After => pc[p] \in After \/ HistoryTable \in built,
             where = "seeding" => scopes = "none", pc[p] \notin {"seeding", "committing"}
      PROVE  OneSeeder' /\ (scopes = "tuned" => scopes' = "tuned")
  BY <1>1, <1>4, OthersKeepOneSeeder DEF database
<1>5. ASSUME NEW p \in Processes, NEW where, Goto(p, where), UNCHANGED <<database, created, seeds>>,
             where \in After => pc[p] \in After \/ HistoryTable \in built,
             where = "seeding" => scopes = "none", pc[p] \notin {"seeding", "committing"}
      PROVE  OneSeeder' /\ (scopes = "tuned" => scopes' = "tuned")
  <2>1. created' = [created EXCEPT ![p] = @ \cup {}]
    BY <1>1, <1>5 DEF TypeOK
  <2> QED
    BY <1>4, <1>5, <2>1
<1>6. ASSUME NEW p \in Processes, Start(p) \/ Bootstrap(p) \/ ReadApplied(p)
      PROVE  OneSeeder' /\ (scopes = "tuned" => scopes' = "tuned")
  BY <1>5, <1>6 DEF Start, Bootstrap, ReadApplied, After
<1>7. ASSUME NEW p \in Processes, EnsureHistory(p) \/ WaitEnds(p)
      PROVE  OneSeeder' /\ (scopes = "tuned" => scopes' = "tuned")
  BY <1>2, <1>3, <1>5, <1>7 DEF EnsureHistory, WaitEnds, Undone, After
<1>8. ASSUME NEW p \in Processes, Skip(p)
      PROVE  OneSeeder' /\ (scopes = "tuned" => scopes' = "tuned")
  <2>1. Goto(p, "migrating") /\ pc[p] = "migrating" /\ UNCHANGED <<database, created, seeds>>
    BY <1>1, <1>8 DEF Skip, Goto, TypeOK
  <2> QED
    BY <1>5, <2>1 DEF After
<1>9. ASSUME NEW p \in Processes, NEW f \in FileSet, Execute(p, f) \/ Record(p, f)
      PROVE  OneSeeder' /\ (scopes = "tuned" => scopes' = "tuned")
  BY <1>2, <1>4, <1>5, <1>9, BuiltByFiles DEF Execute, Undone, Record, After
<1>10. ASSUME NEW p \in Processes, CheckSeed(p)
       PROVE  OneSeeder' /\ (scopes = "tuned" => scopes' = "tuned")
  BY <1>5, <1>10 DEF CheckSeed, SeedRequired, After
<1>11. ASSUME NEW p \in Processes, Seed(p)
       PROVE  OneSeeder' /\ (scopes = "tuned" => scopes' = "tuned")
  BY <1>1, <1>11, SeedKeepsOneSeeder DEF Seed, database
<1>12. ASSUME NEW p \in Processes, Commit(p)
       PROVE  OneSeeder' /\ (scopes = "tuned" => scopes' = "tuned")
  BY <1>12, CommitKeepsOneSeeder
<1>13. CASE Tune
  BY <1>13 DEF Tune, OneSeeder, Sees
<1>14. CASE UNCHANGED vars
  BY <1>14 DEF vars, database, OneSeeder, Sees
<1> QED
  BY <1>2, <1>6, <1>7, <1>8, <1>9, <1>10, <1>11, <1>12, <1>13, <1>14
     DEF Next, Proceed, Stop, Crash, Undone

\* No start, and no race between two, takes a tuned cadence back to the seed's
\* (_seed_required).
THEOREM SeededOnce == Spec => CadencesStay
<1>1. Init => OneSeeder
  BY DatabasesAssumption DEF Init, OneSeeder, After
<1>2. IInv /\ OneSeeder /\ [Next]_vars => OneSeeder' /\ [scopes = "tuned" => scopes' = "tuned"]_vars
  BY StepKeepsOneSeeder
<1> QED
  BY <1>1, <1>2, InvariantHolds, PTL DEF Spec, CadencesStay
==============================================================================
