--------------------------- MODULE PrioritySchedule ---------------------------
(***************************************************************************)
(* The priority phase of the scheduler (workflows/run_due_scopes.py,       *)
(* storage/scrape_scopes.py and storage/scrape_runs.py): which of the      *)
(* overlapping Auckland scopes a tick scrapes, and what a success, a       *)
(* failure, a challenge or a killed process do to the ticks after it.      *)
(*                                                                         *)
(* Quiet hours, the broad phase and the lock are in HomeRunner.            *)
(*                                                                         *)
(* An instant that is only compared with the clock is a timer: how long    *)
(* the comparison still goes the same way.  A scope is the set of cells of *)
(* the map its filter selects; a filter that contains another selects a    *)
(* part of its cells.                                                      *)
(***************************************************************************)
EXTENDS Integers, FiniteSets

CONSTANTS
    Scopes,         \* the enabled priority scopes
    Id,             \* Id[s]: the row's id
    CellsOf,        \* CellsOf[s]: what the filter of s selects
    Interval,       \* interval_minutes
    TickInterval,   \* HOME_RUNNER_TICK_INTERVAL_SECONDS
    Grace,          \* SCHEDULER_DUE_GRACE_SECONDS
    MaxRetry,       \* SCRAPE_FAILURE_RETRY_MAX_MINUTES
    WafCooldown,    \* PRIORITY_SCOPE_WAF_COOLDOWN_MINUTES
    MaxAge          \* bound: no interval is longer, and ages are counted to it

Cells == UNION {CellsOf[s] : s \in Scopes}

ASSUME ScheduleAssumption ==
    /\ IsFiniteSet(Scopes)
    /\ Interval \in [Scopes -> 0..MaxAge] /\ \A s \in Scopes : Interval[s] > Grace
    /\ Id \in [Scopes -> Nat] /\ \A s, t \in Scopes : Id[s] = Id[t] => s = t
    /\ \A s \in Scopes : CellsOf[s] # {}
    /\ {MaxAge, Grace, MaxRetry, WafCooldown} \subseteq Nat /\ TickInterval \in Nat \ {0}

VARIABLES
    dueIn,          \* time until last_success_at makes the scope due
    coolFor,        \* the failure cooldown after last_attempt_at
    wafFor,         \* the cooldown after the scope's latest challenge
    nextTick,       \* time to the next boundary
    pc,             \* "waiting", "running" or "scraping"
    todo,           \* due_scopes of the tick, those not yet done
    \* What really happened.
    cellAge,        \* time since a cell was last in a complete result
    rest,           \* rest[s]: WafCooldown after a challenge to s
    spent,          \* spent[s]: Retry(s) after requests for s
    lag             \* time slept since a tick first left a due scope alone

timers == <<dueIn, coolFor, wafFor, nextTick>>
truth  == <<cellAge, rest, spent, lag>>
vars   == <<timers, pc, todo, truth>>

Retry(s) == IF Interval[s] < MaxRetry THEN Interval[s] ELSE MaxRetry

\* How long a scope may have to wait: its longer cooldown and a tick.  Bound: lag
\* is counted a little further.
Patience(s) == TickInterval + IF Retry(s) > WafCooldown THEN Retry(s) ELSE WafCooldown
MaxLag == TickInterval + MaxRetry + WafCooldown

TypeOK ==
    /\ dueIn \in [Scopes -> 0..MaxAge]
    /\ coolFor \in [Scopes -> 0..MaxRetry]
    /\ wafFor \in [Scopes -> 0..WafCooldown]
    /\ \A s \in Scopes : dueIn[s] <= Interval[s] - Grace /\ coolFor[s] <= Retry(s)
    /\ nextTick \in 0..TickInterval
    /\ pc \in {"waiting", "running", "scraping"}
    /\ pc # "waiting" => nextTick > 0
    /\ todo \subseteq Scopes
    /\ cellAge \in [Cells -> 0..MaxAge + 1]
    /\ rest \in [Scopes -> 0..WafCooldown]
    /\ spent \in [Scopes -> 0..MaxRetry]
    /\ lag \in [Scopes -> 0..MaxLag]
------------------------------------------------------------------------------
\* _scope_is_broader_than
Broader(t, s) == CellsOf[s] \subseteq CellsOf[t] /\ CellsOf[s] # CellsOf[t]

IsDue(s) == dueIn[s] = 0

IsReady(s) == coolFor[s] = 0 /\ wafFor[s] = 0

\* Mutant: a scope makes way for a broader one that is due but not ready.
BroadestOfDue ==
    {s \in Scopes : /\ IsDue(s) /\ IsReady(s)
                    /\ ~\E t \in Scopes : IsDue(t) /\ Broader(t, s)}
DueScopes ==
    {s \in Scopes : /\ IsDue(s) /\ IsReady(s)
                    /\ ~\E t \in Scopes : IsDue(t) /\ IsReady(t) /\ Broader(t, s)}

Init ==
    /\ dueIn = [s \in Scopes |-> 0]
    /\ coolFor = [s \in Scopes |-> 0]
    /\ wafFor = [s \in Scopes |-> 0]
    /\ nextTick = 0
    /\ pc = "waiting"
    /\ todo = {}
    /\ cellAge = [c \in Cells |-> MaxAge + 1]
    /\ rest = [s \in Scopes |-> 0]
    /\ spent = [s \in Scopes |-> 0]
    /\ lag = [s \in Scopes |-> 0]

Attended(s) == \E t \in DueScopes : t = s \/ Broader(t, s)

\* A tick reads what is due and chooses, once for all of its scopes.
Tick ==
    /\ pc = "waiting"
    /\ nextTick = 0
    /\ pc' = "running"
    /\ todo' = DueScopes
    /\ nextTick' = TickInterval
    /\ lag' = [s \in Scopes |->
                  IF ~IsDue(s) \/ Attended(s) THEN 0
                  ELSE IF lag[s] = 0 THEN 1 ELSE lag[s]]
    /\ UNCHANGED <<dueIn, coolFor, wafFor, cellAge, rest, spent>>

\* The scopes of a tick take their turns by interval and id.
Before(s, t) == Interval[s] < Interval[t] \/ (Interval[s] = Interval[t] /\ Id[s] < Id[t])
Turn(s) == s \in todo /\ \A t \in todo \ {s} : Before(s, t)

\* The run is created and committed, which starts the failure cooldown, and
\* the scrape begins.
Attempt(s) ==
    /\ pc = "running"
    /\ Turn(s)
    /\ pc' = "scraping"
    /\ coolFor' = [coolFor EXCEPT ![s] = Retry(s)]
    /\ spent' = [spent EXCEPT ![s] = Retry(s)]
    /\ UNCHANGED <<dueIn, wafFor, nextTick, todo, cellAge, rest, lag>>

\* The enabled scopes whose last_success_at a success of s advances.
\* Mutant: every scope that has cells in common.
CoveredByAny(s) == {t \in Scopes : CellsOf[t] \cap CellsOf[s] # {}}
Covered(s) == {t \in Scopes : CellsOf[t] \subseteq CellsOf[s]}

Freed(timer, S) == [t \in Scopes |-> IF t \in S THEN 0 ELSE timer[t]]

DueAgainIn(s) == Interval[s] - Grace

\* A complete result, now, is newer than any attempt or challenge of the scopes
\* it covers.
Succeed(s) ==
    /\ pc = "scraping"
    /\ Turn(s)
    /\ pc' = "running"
    /\ todo' = todo \ {s}
    /\ dueIn' = [t \in Scopes |-> IF t \in Covered(s) THEN DueAgainIn(t) ELSE dueIn[t]]
    /\ coolFor' = Freed(coolFor, Covered(s))
    /\ wafFor' = Freed(wafFor, Covered(s))
    /\ cellAge' = [c \in Cells |-> IF c \in CellsOf[s] THEN 0 ELSE cellAge[c]]
    /\ rest' = Freed(rest, {t \in Scopes : CellsOf[t] \subseteq CellsOf[s]})
    /\ spent' = Freed(spent, {t \in Scopes : CellsOf[t] \subseteq CellsOf[s]})
    /\ UNCHANGED <<nextTick, lag>>

\* The run fails, or comes back empty and is suspicious: the next scope's turn.
Fail(s) ==
    /\ pc = "scraping"
    /\ Turn(s)
    /\ pc' = "running"
    /\ todo' = todo \ {s}
    /\ UNCHANGED <<timers, truth>>

\* Mutant: the cooldown of a challenge is that of any failure.
ChallengeIgnored(s) == wafFor
AfterChallenge(s) == [wafFor EXCEPT ![s] = WafCooldown]

Challenged(s) ==
    /\ pc = "scraping"
    /\ Turn(s)
    /\ pc' = "running"
    /\ todo' = todo \ {s}
    /\ wafFor' = AfterChallenge(s)
    /\ rest' = [rest EXCEPT ![s] = WafCooldown]
    /\ UNCHANGED <<dueIn, coolFor, nextTick, cellAge, spent, lag>>

\* Nothing is left: the runner sleeps until the next boundary.
TickEnds ==
    /\ pc = "running"
    /\ todo = {}
    /\ pc' = "waiting"
    /\ UNCHANGED <<timers, todo, truth>>

\* What the database holds after a kill: the attempt was committed as it began.
\* Mutant: it would have been committed with the end of its run.
AttemptsLost == [s \in Scopes |-> IF pc = "scraping" /\ Turn(s) THEN 0 ELSE coolFor[s]]
AttemptsKept == coolFor

\* The process is killed and started again, which makes a tick at once.
Restart ==
    /\ pc' = "waiting"
    /\ todo' = {}
    /\ nextTick' = 0
    /\ coolFor' = AttemptsKept
    /\ UNCHANGED <<dueIn, wafFor, truth>>

Less(timer) == [s \in Scopes |-> IF timer[s] > 0 THEN timer[s] - 1 ELSE 0]

\* A minute passes.  A tick that lasts past a boundary misses it.
Pass ==
    /\ pc = "waiting" => nextTick > 0
    /\ dueIn' = Less(dueIn)
    /\ coolFor' = Less(coolFor)
    /\ wafFor' = Less(wafFor)
    /\ nextTick' = IF nextTick = 1 /\ pc # "waiting" THEN TickInterval ELSE nextTick - 1
    /\ cellAge' = [c \in Cells |-> IF cellAge[c] <= MaxAge THEN cellAge[c] + 1 ELSE cellAge[c]]
    /\ rest' = Less(rest)
    /\ spent' = Less(spent)
    /\ lag' = IF pc # "waiting" THEN lag
              ELSE [s \in Scopes |-> IF lag[s] \in 1..MaxLag - 1 THEN lag[s] + 1 ELSE lag[s]]
    /\ UNCHANGED <<pc, todo>>

Next ==
    \/ Tick \/ TickEnds \/ Restart \/ Pass
    \/ \E s \in Scopes : Attempt(s) \/ Succeed(s) \/ Fail(s) \/ Challenged(s)

Spec == Init /\ [][Next]_vars
------------------------------------------------------------------------------
\* A scope that is not due has had every cell it selects in a complete result
\* within its interval, of whatever scope that result was.
FreshMeansSeen ==
    \A s \in Scopes : dueIn[s] > 0 => \A c \in CellsOf[s] : cellAge[c] <= Interval[s]

\* A due scope, or one that covers it, is scraped again once its own cooldowns
\* are over, whatever happens to the other scopes in the meantime.
NobodyStarves == \A s \in Scopes : lag[s] <= Patience(s)

\* No request for a scope follows a challenge to it within the cooldown, unless
\* its cells have been seen since; scopes beside it and above it do not count.
ChallengedScopeRests ==
    [][\A s \in Scopes :
          pc = "running" /\ pc' = "scraping" /\ Turn(s) => rest[s] = 0]_vars

\* Requests for a scope that brought no success are not repeated within its retry
\* interval, however often the process is killed and started in between.
AttemptsAreSpaced ==
    [][\A s \in Scopes :
          pc = "running" /\ pc' = "scraping" /\ Turn(s) => spent[s] = 0]_vars
==============================================================================
