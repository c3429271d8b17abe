------------------------ MODULE PrioritySchedule_proofs ------------------------
(***************************************************************************)
(* PrioritySchedule for any scopes over any map, and any intervals and     *)
(* cooldowns.                                                              *)
(***************************************************************************)
EXTENDS PrioritySchedule, FiniteSetTheorems, TLAPS

LEMMA Lengths ==
    /\ MaxAge \in Nat /\ Grace \in Nat /\ MaxRetry \in Nat /\ WafCooldown \in Nat
    /\ TickInterval \in Nat \ {0}
    /\ MaxLag \in Nat \ {0}
    /\ \A s \in Scopes : /\ Interval[s] \in 0..MaxAge /\ Interval[s] > Grace
                         /\ Id[s] \in Nat
                         /\ Retry(s) \in 0..MaxRetry
                         /\ DueAgainIn(s) \in 1..MaxAge
BY ScheduleAssumption DEF MaxLag, Retry, DueAgainIn

LEMMA CellsInside == \A s \in Scopes : CellsOf[s] \subseteq Cells
BY DEF Cells

\* A turn is one scope's alone.
LEMMA OneTurn ==
    ASSUME NEW s \in Scopes, NEW t \in Scopes, Turn(s), Turn(t)
    PROVE  s = t
<1> SUFFICES ASSUME s # t PROVE FALSE
  OBVIOUS
<1>1. Before(s, t) /\ Before(t, s)
  BY DEF Turn
<1> QED
  BY <1>1, Lengths DEF Before

\* A timer that runs down stays within its range, and so does one set to 0.
LEMMA TimerRange ==
    ASSUME NEW N \in Nat, NEW timer \in [Scopes -> 0..N]
    PROVE  /\ Less(timer) \in [Scopes -> 0..N]
           /\ \A s \in Scopes : Less(timer)[s] <= timer[s]
           /\ \A S : Freed(timer, S) \in [Scopes -> 0..N]
           /\ \A S : \A s \in Scopes : Freed(timer, S)[s] <= timer[s]
BY DEF Less, Freed

------------------------------------------------------------------------------
\* Types.

LEMMA TypeInit == Init => TypeOK
BY Lengths DEF Init, TypeOK

LEMMA TypeNext == TypeOK /\ [Next]_vars => TypeOK'
<1> SUFFICES ASSUME TypeOK, [Next]_vars PROVE TypeOK'
  OBVIOUS
<1>1. CASE Tick
  <2>1. lag' \in [Scopes -> 0..MaxLag]
    BY <1>1, Lengths DEF Tick, TypeOK
  <2>2. todo' \subseteq Scopes
    BY <1>1 DEF Tick, DueScopes
  <2> QED
    BY <1>1, <2>1, <2>2, Lengths DEF Tick, TypeOK
<1>2. ASSUME NEW s \in Scopes, Attempt(s) PROVE TypeOK'
  <2>1. /\ coolFor' \in [Scopes -> 0..MaxRetry] /\ spent' \in [Scopes -> 0..MaxRetry]
        /\ \A t \in Scopes : coolFor'[t] <= Retry(t)
    BY <1>2, Lengths DEF Attempt, TypeOK
  <2> QED
    BY <1>2, <2>1 DEF Attempt, TypeOK
<1>3. ASSUME NEW s \in Scopes, Succeed(s) PROVE TypeOK'
  <2>1. /\ dueIn' \in [Scopes -> 0..MaxAge]
        /\ \A t \in Scopes : dueIn'[t] <= Interval[t] - Grace
    BY <1>3, Lengths DEF Succeed, TypeOK, DueAgainIn
  <2>2. /\ coolFor' \in [Scopes -> 0..MaxRetry] /\ spent' \in [Scopes -> 0..MaxRetry]
        /\ wafFor' \in [Scopes -> 0..WafCooldown] /\ rest' \in [Scopes -> 0..WafCooldown]
        /\ \A t \in Scopes : coolFor'[t] <= coolFor[t]
    BY <1>3, TimerRange, Lengths DEF Succeed, TypeOK
  <2>3. \A t \in Scopes : coolFor'[t] <= Retry(t)
    BY <2>2, Lengths DEF TypeOK
  <2>4. cellAge' \in [Cells -> 0..MaxAge + 1]
    BY <1>3, Lengths DEF Succeed, TypeOK
  <2> QED
    BY <1>3, <2>1, <2>2, <2>3, <2>4 DEF Succeed, TypeOK
<1>4. ASSUME NEW s \in Scopes, Fail(s) PROVE TypeOK'
  BY <1>4 DEF Fail, TypeOK, timers, truth, Retry
<1>5. ASSUME NEW s \in Scopes, Challenged(s) PROVE TypeOK'
  BY <1>5, Lengths DEF Challenged, AfterChallenge, TypeOK
<1>6. CASE TickEnds
  BY <1>6 DEF TickEnds, TypeOK, timers, truth, Retry
<1>7. CASE Restart
  BY <1>7, Lengths DEF Restart, AttemptsKept, TypeOK, truth
<1>8. CASE Pass
  <2>1. /\ dueIn' \in [Scopes -> 0..MaxAge] /\ coolFor' \in [Scopes -> 0..MaxRetry]
        /\ wafFor' \in [Scopes -> 0..WafCooldown] /\ rest' \in [Scopes -> 0..WafCooldown]
        /\ spent' \in [Scopes -> 0..MaxRetry]
        /\ \A s \in Scopes : dueIn'[s] <= dueIn[s] /\ coolFor'[s] <= coolFor[s]
    BY <1>8, TimerRange, Lengths DEF Pass, TypeOK
  <2>2. \A s \in Scopes : dueIn'[s] <= Interval[s] - Grace /\ coolFor'[s] <= Retry(s)
    BY <2>1, Lengths DEF TypeOK
  <2>3. nextTick' \in 0..TickInterval
    BY <1>8, Lengths DEF Pass, TypeOK
  <2>4. cellAge' \in [Cells -> 0..MaxAge + 1]
    BY <1>8, Lengths DEF Pass, TypeOK
  <2>5. lag' \in [Scopes -> 0..MaxLag]
    BY <1>8, Lengths DEF Pass, TypeOK
  <2> QED
    BY <1>8, <2>1, <2>2, <2>3, <2>4, <2>5 DEF Pass, TypeOK
<1>9. CASE UNCHANGED vars
  BY <1>9 DEF vars, timers, truth, TypeOK, Retry
<1> QED
  BY <1>1, <1>2, <1>3, <1>4, <1>5, <1>6, <1>7, <1>8, <1>9 DEF Next

\* Every timer stays in its range and every tick takes enabled scopes only
\* (_scopes_ready_for_attempt).
THEOREM TypeCorrect == Spec => []TypeOK
BY TypeInit, TypeNext, PTL DEF Spec

------------------------------------------------------------------------------
\* Freshness.  As a cell ages, the time a scope over it has left runs out as
\* fast: what the two add up to is what never exceeds the interval.
AgeAndDue ==
    \A s \in Scopes : dueIn[s] > 0 =>
        \A c \in CellsOf[s] : cellAge[c] + dueIn[s] <= Interval[s]

LEMMA AgeInit == Init => AgeAndDue
BY DEF Init, AgeAndDue

LEMMA AgeNext == TypeOK /\ AgeAndDue /\ [Next]_vars => AgeAndDue'
<1> SUFFICES ASSUME TypeOK, AgeAndDue, [Next]_vars,
                    NEW t \in Scopes, dueIn'[t] > 0, NEW c \in CellsOf[t]
             PROVE  cellAge'[c] + dueIn'[t] <= Interval[t]
  BY DEF AgeAndDue
<1>0. c \in Cells /\ cellAge[c] \in 0..MaxAge + 1 /\ dueIn[t] \in 0..MaxAge
  BY CellsInside DEF TypeOK
<1>1. ASSUME NEW s \in Scopes, Succeed(s)
      PROVE  cellAge'[c] + dueIn'[t] <= Interval[t]
  <2>1. CASE t \in Covered(s)
    <3>1. c \in CellsOf[s]
      BY <2>1 DEF Covered
    <3>2. cellAge'[c] = 0 /\ dueIn'[t] = Interval[t] - Grace
      BY <1>0, <1>1, <2>1, <3>1 DEF Succeed, DueAgainIn
    <3> QED
      BY <3>2, Lengths
  <2>2. CASE t \notin Covered(s)
    <3>1. dueIn'[t] = dueIn[t] /\ cellAge'[c] <= cellAge[c] /\ cellAge'[c] \in Nat
      BY <1>0, <1>1, <2>2, Lengths DEF Succeed
    <3> QED
      BY <1>0, <3>1, Lengths DEF AgeAndDue
  <2> QED
    BY <2>1, <2>2
<1>2. CASE Pass
  <2>1. dueIn[t] > 0 /\ dueIn'[t] = dueIn[t] - 1
    BY <1>0, <1>2 DEF Pass, Less
  <2>2. cellAge'[c] \in Nat /\ cellAge'[c] <= cellAge[c] + 1
    BY <1>0, <1>2, Lengths DEF Pass
  <2> QED
    BY <1>0, <2>1, <2>2, Lengths DEF AgeAndDue
<1>3. CASE UNCHANGED <<dueIn, cellAge>>
  BY <1>3 DEF AgeAndDue
<1>4. Pass \/ (\E s \in Scopes : Succeed(s)) \/ UNCHANGED <<dueIn, cellAge>>
  BY DEF Next, vars, timers, truth, Tick, Attempt, Fail, Challenged, TickEnds, Restart
<1> QED
  BY <1>1, <1>2, <1>3, <1>4

\* A scope the scheduler takes for fresh (read_due_scrape_scopes) has had every
\* one of its cells in a complete result within its interval.
THEOREM FreshIsSeen == Spec => []FreshMeansSeen
<1>1. TypeOK /\ AgeAndDue => FreshMeansSeen
  <2> SUFFICES ASSUME TypeOK, AgeAndDue, NEW s \in Scopes, dueIn[s] > 0,
                      NEW c \in CellsOf[s]
               PROVE  cellAge[c] <= Interval[s]
    BY DEF FreshMeansSeen
  <2>1. cellAge[c] \in Nat /\ dueIn[s] \in Nat
    BY CellsInside DEF TypeOK
  <2> QED
    BY <2>1, Lengths DEF AgeAndDue
<1> QED
  BY <1>1, AgeInit, AgeNext, TypeInit, TypeNext, PTL DEF Spec

------------------------------------------------------------------------------
\* Spacing.  The timers of the code are never shorter than what they stand for,
\* and what a tick chose stays ready until its turn, however long the scopes
\* before it take: only a scope's own turn sets its timers.
Spacing ==
    /\ \A s \in Scopes : rest[s] <= wafFor[s] /\ spent[s] <= coolFor[s]
    /\ \A s \in todo : (pc = "scraping" /\ Turn(s)) \/ IsReady(s)
    /\ pc = "waiting" => todo = {}

LEMMA SpacingInit == Init => Spacing
BY DEF Init, Spacing

LEMMA SpacingNext == TypeOK /\ Spacing /\ [Next]_vars => Spacing'
<1> SUFFICES ASSUME TypeOK, Spacing, [Next]_vars PROVE Spacing'
  OBVIOUS
<1> USE DEF Spacing
<1>0. /\ \A t \in Scopes : /\ wafFor[t] \in Nat /\ rest[t] \in Nat
                           /\ coolFor[t] \in Nat /\ spent[t] \in Nat
      /\ todo \subseteq Scopes
  BY Lengths DEF TypeOK
\* A turn that ends leaves scopes that are ready.
<1>a. ASSUME NEW s \in Scopes, pc = "scraping", Turn(s), todo' = todo \ {s}
      PROVE  \A t \in todo' : t # s /\ t \in Scopes /\ IsReady(t)
  BY <1>a, <1>0, OneTurn
<1>1. CASE Tick
  BY <1>1 DEF Tick, DueScopes, IsReady
<1>2. ASSUME NEW s \in Scopes, Attempt(s) PROVE Spacing'
  <2>1. \A t \in Scopes : rest'[t] <= wafFor'[t] /\ spent'[t] <= coolFor'[t]
    BY <1>2, Lengths DEF Attempt, TypeOK
  <2>2. Turn(s)'
    BY <1>2 DEF Attempt, Turn
  <2>3. \A t \in todo \ {s} : IsReady(t)'
    BY <1>0, <1>2 DEF Attempt, IsReady, TypeOK
  <2> QED
    BY <1>2, <2>1, <2>2, <2>3 DEF Attempt
<1>3. ASSUME NEW s \in Scopes, Succeed(s) PROVE Spacing'
  <2>1. \A t \in Scopes : rest'[t] <= wafFor'[t] /\ spent'[t] <= coolFor'[t]
    BY <1>0, <1>3 DEF Succeed, Freed, Covered
  <2>2. \A t \in todo' : IsReady(t) /\ t \in Scopes
    BY <1>3, <1>a DEF Succeed
  <2>3. \A t \in todo' : IsReady(t)'
    BY <1>3, <2>2 DEF Succeed, IsReady, Freed
  <2> QED
    BY <1>3, <2>1, <2>3 DEF Succeed
<1>4. ASSUME NEW s \in Scopes, Fail(s) PROVE Spacing'
  <2>1. \A t \in todo' : IsReady(t)'
    BY <1>4, <1>a DEF Fail, IsReady, timers
  <2> QED
    BY <1>4, <2>1 DEF Fail, timers, truth
<1>5. ASSUME NEW s \in Scopes, Challenged(s) PROVE Spacing'
  <2>1. \A t \in Scopes : rest'[t] <= wafFor'[t] /\ spent'[t] <= coolFor'[t]
    BY <1>0, <1>5, Lengths DEF Challenged, AfterChallenge, TypeOK
  <2>2. \A t \in todo' : t # s /\ t \in Scopes /\ IsReady(t)
    BY <1>5, <1>a DEF Challenged
  <2>3. \A t \in todo' : IsReady(t)'
    BY <1>5, <2>2 DEF Challenged, AfterChallenge, IsReady, TypeOK
  <2> QED
    BY <1>5, <2>1, <2>3 DEF Challenged
<1>6. CASE TickEnds
  BY <1>6 DEF TickEnds, timers, truth
<1>7. CASE Restart
  BY <1>7 DEF Restart, AttemptsKept, truth
<1>8. CASE Pass
  <2>1. \A t \in Scopes : rest'[t] <= wafFor'[t] /\ spent'[t] <= coolFor'[t]
    BY <1>0, <1>8 DEF Pass, Less
  <2>2. \A t \in Scopes : IsReady(t) => IsReady(t)'
    BY <1>0, <1>8 DEF Pass, Less, IsReady
  <2>3. \A t \in todo : Turn(t)' <=> Turn(t)
    BY <1>8 DEF Pass, Turn
  <2> QED
    BY <1>0, <1>8, <2>1, <2>2, <2>3 DEF Pass
<1>9. CASE UNCHANGED vars
  BY <1>9 DEF vars, timers, truth, Turn, IsReady
<1> QED
  BY <1>1, <1>2, <1>3, <1>4, <1>5, <1>6, <1>7, <1>8, <1>9 DEF Next

LEMMA SpacingAlways == Spec => [](TypeOK /\ Spacing)
BY TypeInit, TypeNext, SpacingInit, SpacingNext, PTL DEF Spec

\* A scope whose scrape begins has no cooldown left to respect.
LEMMA BeginsReady ==
    ASSUME TypeOK, Spacing, NEW s \in Scopes, pc = "running", Turn(s)
    PROVE  rest[s] = 0 /\ spent[s] = 0
<1>1. wafFor[s] = 0 /\ coolFor[s] = 0
  BY DEF Spacing, Turn, IsReady
<1>2. rest[s] \in Nat /\ spent[s] \in Nat
  BY Lengths DEF TypeOK
<1> QED
  BY <1>1, <1>2 DEF Spacing

\* A scope that was challenged is left alone for the whole cooldown
\* (_scope_is_in_priority_waf_cooldown), across kills and long ticks.
THEOREM ChallengeRests == Spec => ChallengedScopeRests
<1>1. TypeOK /\ Spacing =>
          (\A s \in Scopes : pc = "running" /\ pc' = "scraping" /\ Turn(s) => rest[s] = 0)
  BY BeginsReady
<1> QED
  BY <1>1, SpacingAlways, PTL DEF ChallengedScopeRests

\* Failed requests for a scope are a retry interval apart
\* (_scope_is_in_failure_cooldown), across kills and long ticks.
THEOREM AttemptsSpaced == Spec => AttemptsAreSpaced
<1>1. TypeOK /\ Spacing =>
          (\A s \in Scopes : pc = "running" /\ pc' = "scraping" /\ Turn(s) => spent[s] = 0)
  BY BeginsReady
<1> QED
  BY <1>1, SpacingAlways, PTL DEF AttemptsAreSpaced

------------------------------------------------------------------------------
(***************************************************************************)
(* Waiting.  A due scope that a tick leaves alone has a cooldown to wait   *)
(* for: had it none, a broadest one among the ready ones above it would    *)
(* have been taken.  The cooldown runs down, for only its own turn could   *)
(* renew it; when it is over, what is left is the time to the next tick.   *)
(***************************************************************************)
LEMMA BroaderTransitive ==
    ASSUME NEW r, NEW s, NEW t, Broader(r, s), Broader(s, t)
    PROVE  Broader(r, t) /\ ~Broader(s, s)
BY DEF Broader

\* Of the ready due scopes above one that is ready and due, some are broadest.
LEMMA SomeBroadestGoes ==
    ASSUME NEW s \in Scopes, IsDue(s), IsReady(s)
    PROVE  Attended(s)
<1> DEFINE Ready  == {t \in Scopes : IsDue(t) /\ IsReady(t) /\ (t = s \/ Broader(t, s))}
           Over(t) == {u \in Ready : Broader(u, t)}
           R      == StrictSubsetOrdering(Scopes)
<1>1. IsWellFoundedOn(R, SUBSET Scopes)
  <2>1. FiniteSubsetsOf(Scopes) = SUBSET Scopes
    BY ScheduleAssumption, FS_FiniteSubsetsOfFinite
  <2> QED
    BY <2>1, FS_StrictSubsetOrderingWellFounded
<1>2. {Over(t) : t \in Ready} \subseteq SUBSET Scopes /\ {Over(t) : t \in Ready} # {}
  OBVIOUS
<1>3. PICK x \in {Over(t) : t \in Ready} : \A y \in {Over(t) : t \in Ready} : <<y, x>> \notin R
  <2> DEFINE T == {Over(t) : t \in Ready}
  <2>1. T \subseteq SUBSET Scopes /\ T # {}
    BY <1>2
  <2> HIDE DEF T, R
  <2>2. \E x \in T : \A y \in T : ~(<<y, x>> \in R)
    BY <1>1, <2>1, WFMin
  <2> QED
    BY <2>2 DEF T
<1>4. PICK t \in Ready : x = Over(t)
  BY <1>3
<1>5. ASSUME NEW u \in Scopes, IsDue(u), IsReady(u), Broader(u, t) PROVE FALSE
  <2>1. u \in Ready
    BY <1>4, <1>5, BroaderTransitive
  <2>2. Over(u) \subseteq Over(t) /\ u \in Over(t) /\ u \notin Over(u)
    BY <1>5, <2>1, BroaderTransitive DEF Broader
  <2>3. <<Over(u), Over(t)>> \in R
    BY <2>2 DEF StrictSubsetOrdering
  <2> QED
    BY <1>3, <1>4, <2>1, <2>3
<1>6. t \in DueScopes
  BY <1>4, <1>5 DEF DueScopes
<1> QED
  BY <1>4, <1>6 DEF Attended

Longer(s) == IF Retry(s) > WafCooldown THEN Retry(s) ELSE WafCooldown

Waits ==
    \A s \in Scopes : lag[s] > 0 =>
        /\ s \notin todo
        /\ ~IsReady(s) => /\ lag[s] + coolFor[s] <= Longer(s) + 1
                          /\ lag[s] + wafFor[s] <= Longer(s) + 1
        /\ IsReady(s) /\ pc = "waiting" => lag[s] + nextTick <= Longer(s) + TickInterval
        /\ pc # "waiting" => lag[s] <= Longer(s)

LEMMA Timers ==
    ASSUME TypeOK, NEW s \in Scopes
    PROVE  /\ lag[s] \in Nat /\ coolFor[s] \in Nat /\ wafFor[s] \in Nat /\ nextTick \in Nat
           /\ coolFor[s] <= Longer(s) /\ wafFor[s] <= Longer(s) /\ Longer(s) \in Nat
           /\ nextTick <= TickInterval /\ TickInterval \in Nat
<1>1. /\ lag[s] \in Nat /\ coolFor[s] \in Nat /\ wafFor[s] \in Nat /\ nextTick \in Nat
      /\ coolFor[s] <= Retry(s) /\ wafFor[s] <= WafCooldown /\ nextTick <= TickInterval
  BY Lengths DEF TypeOK
<1>2. Retry(s) \in Nat /\ WafCooldown \in Nat /\ TickInterval \in Nat
  BY Lengths
<1> QED
  BY <1>1, <1>2 DEF Longer

\* While a scope waits for its cooldown its lag is not beyond the longer one.
LEMMA CoolingLag ==
    ASSUME TypeOK, Waits, NEW s \in Scopes, lag[s] > 0, ~IsReady(s)
    PROVE  lag[s] <= Longer(s)
BY Timers DEF Waits, IsReady

LEMMA WaitsInit == Init => Waits
BY DEF Init, Waits

LEMMA WaitsNext == TypeOK /\ Waits /\ [Next]_vars => Waits'
<1> SUFFICES ASSUME TypeOK, Waits, [Next]_vars, NEW s \in Scopes, lag'[s] > 0
             PROVE  /\ s \notin todo'
                    /\ ~IsReady(s)' => /\ lag'[s] + coolFor'[s] <= Longer(s) + 1
                                       /\ lag'[s] + wafFor'[s] <= Longer(s) + 1
                    /\ IsReady(s)' /\ pc' = "waiting" =>
                          lag'[s] + nextTick' <= Longer(s) + TickInterval
                    /\ pc' # "waiting" => lag'[s] <= Longer(s)
  BY DEF Waits, Longer, Retry
<1> DEFINE Conclusion ==
             /\ s \notin todo'
             /\ ~IsReady(s)' => /\ lag'[s] + coolFor'[s] <= Longer(s) + 1
                                /\ lag'[s] + wafFor'[s] <= Longer(s) + 1
             /\ IsReady(s)' /\ pc' = "waiting" =>
                   lag'[s] + nextTick' <= Longer(s) + TickInterval
             /\ pc' # "waiting" => lag'[s] <= Longer(s)
<1> SUFFICES Conclusion
  OBVIOUS
<1>0. /\ lag[s] \in Nat /\ coolFor[s] \in Nat /\ wafFor[s] \in Nat /\ nextTick \in Nat
      /\ coolFor[s] <= Longer(s) /\ wafFor[s] <= Longer(s) /\ Longer(s) \in Nat
      /\ nextTick <= TickInterval /\ TickInterval \in Nat
  BY Timers
\* A step in which the lag is not counted and no cooldown grows.
<1>a. ASSUME lag'[s] = lag[s], s \notin todo => s \notin todo',
             coolFor'[s] \in 0..coolFor[s], wafFor'[s] \in 0..wafFor[s],
             pc' # "waiting", pc # "waiting"
      PROVE  Conclusion
  BY <1>0, <1>a DEF Waits, IsReady
<1>1. CASE Tick
  <2>1. IsDue(s) /\ ~Attended(s)
    BY <1>1 DEF Tick
  <2>2. ~IsReady(s) /\ s \notin DueScopes
    BY <2>1, SomeBroadestGoes DEF Attended
  <2>3. /\ todo' = DueScopes /\ pc' = "running"
        /\ coolFor' = coolFor /\ wafFor' = wafFor
        /\ lag'[s] = IF lag[s] = 0 THEN 1 ELSE lag[s]
    BY <1>1, <2>1 DEF Tick
  <2>4. ~IsReady(s)' /\ (coolFor[s] > 0 \/ wafFor[s] > 0)
    BY <1>0, <2>2, <2>3 DEF IsReady
  <2>5. /\ lag'[s] + coolFor[s] <= Longer(s) + 1
        /\ lag'[s] + wafFor[s] <= Longer(s) + 1
    BY <1>0, <2>2, <2>3 DEF Waits
  <2> QED
    BY <1>0, <2>2, <2>3, <2>4, <2>5
<1>2. ASSUME NEW t \in Scopes, Attempt(t) PROVE Conclusion
  <2>1. lag' = lag /\ todo' = todo /\ wafFor' = wafFor /\ t \in todo
    BY <1>2 DEF Attempt, Turn
  <2>2. coolFor'[s] = coolFor[s]
    BY <1>2, <2>1 DEF Attempt, Waits, TypeOK
  <2> QED
    BY <1>0, <1>2, <1>a, <2>1, <2>2 DEF Attempt
<1>3. ASSUME NEW t \in Scopes, Succeed(t) PROVE Conclusion
  <2>1. lag' = lag /\ todo' \subseteq todo
    BY <1>3 DEF Succeed
  <2>2. coolFor'[s] \in 0..coolFor[s] /\ wafFor'[s] \in 0..wafFor[s]
    BY <1>0, <1>3 DEF Succeed, Freed
  <2> QED
    BY <1>3, <1>a, <2>1, <2>2 DEF Succeed
<1>4. ASSUME NEW t \in Scopes, Fail(t) PROVE Conclusion
  BY <1>0, <1>4, <1>a DEF Fail, timers, truth
<1>5. ASSUME NEW t \in Scopes, Challenged(t) PROVE Conclusion
  <2>1. lag' = lag /\ todo' \subseteq todo /\ coolFor' = coolFor /\ t \in todo
    BY <1>5 DEF Challenged, Turn
  <2>2. wafFor'[s] = wafFor[s]
    BY <1>5, <2>1 DEF Challenged, AfterChallenge, Waits, TypeOK
  <2> QED
    BY <1>0, <1>5, <1>a, <2>1, <2>2 DEF Challenged
<1>6. CASE TickEnds
  BY <1>0, <1>6 DEF TickEnds, timers, truth, Waits, IsReady
<1>7. CASE Restart
  <2>1. /\ lag' = lag /\ coolFor' = coolFor /\ wafFor' = wafFor /\ nextTick' = 0
        /\ todo' = {} /\ pc' = "waiting"
    BY <1>7 DEF Restart, AttemptsKept, truth
  <2> QED
    BY <1>0, <2>1 DEF Waits, IsReady
<1>8. CASE Pass
  <2>1. /\ coolFor'[s] = IF coolFor[s] > 0 THEN coolFor[s] - 1 ELSE 0
        /\ wafFor'[s] = IF wafFor[s] > 0 THEN wafFor[s] - 1 ELSE 0
        /\ pc' = pc /\ todo' = todo
    BY <1>8 DEF Pass, Less
  <2>2. CASE pc # "waiting"
    <3>1. lag'[s] = lag[s]
      BY <1>8, <2>2 DEF Pass
    <3> QED
      BY <1>0, <1>a, <2>1, <2>2, <3>1
  <2>3. CASE pc = "waiting"
    <3>1. /\ nextTick > 0 /\ nextTick' = nextTick - 1
          /\ lag'[s] <= lag[s] + 1 /\ lag'[s] \in Nat /\ lag[s] > 0
      BY <1>0, <1>8, <2>3, Lengths DEF Pass
    <3>2. CASE IsReady(s)
      <4>1. IsReady(s)'
        BY <2>1, <3>2 DEF IsReady
      <4> QED
        BY <1>0, <2>1, <2>3, <3>1, <3>2, <4>1 DEF Waits
    <3>3. CASE ~IsReady(s)
      <4>1. /\ lag[s] + coolFor[s] <= Longer(s) + 1 /\ lag[s] + wafFor[s] <= Longer(s) + 1
            /\ lag[s] <= Longer(s) /\ s \notin todo
        BY <3>1, <3>3, CoolingLag DEF Waits
      <4>2. lag'[s] + coolFor'[s] <= Longer(s) + 1 /\ lag'[s] + wafFor'[s] <= Longer(s) + 1
        BY <1>0, <2>1, <3>1, <4>1
      <4>3. lag'[s] + nextTick' <= Longer(s) + TickInterval
        BY <1>0, <3>1, <4>1
      <4> QED
        BY <2>1, <2>3, <4>1, <4>2, <4>3
    <3> QED
      BY <3>2, <3>3
  <2> QED
    BY <2>2, <2>3
<1>9. CASE UNCHANGED vars
  BY <1>9 DEF vars, timers, truth, Waits, IsReady
<1> QED
  BY <1>1, <1>2, <1>3, <1>4, <1>5, <1>6, <1>7, <1>8, <1>9 DEF Next

\* A due scope is scraped, or one above it is, within its longer cooldown and
\* one tick (_scopes_ready_for_attempt), whatever happens to the others.
THEOREM NoneStarves == Spec => []NobodyStarves
<1>1. TypeOK /\ Waits => NobodyStarves
  <2> SUFFICES ASSUME TypeOK, Waits, NEW s \in Scopes PROVE lag[s] <= Patience(s)
    BY DEF NobodyStarves
  <2>1. Patience(s) = TickInterval + Longer(s)
    BY DEF Patience, Longer
  <2>2. CASE lag[s] > 0 /\ ~IsReady(s)
    BY <2>1, <2>2, Timers, CoolingLag
  <2>3. CASE lag[s] > 0 /\ IsReady(s)
    BY <2>1, <2>3, Timers DEF Waits
  <2> QED
    BY <2>1, <2>2, <2>3, Timers
<1> QED
  BY <1>1, WaitsInit, WaitsNext, TypeInit, TypeNext, PTL DEF Spec
==============================================================================
