------------------------------ MODULE HomeRunner ------------------------------
(***************************************************************************)
(* The home runner (workflows/home_runner.py): one process behind a file   *)
(* lock that, on every tick boundary, sends the daily health check when it *)
(* is due, scans the priority scopes, delivers alerts, and gives what is   *)
(* left of the tick's window, less a safety margin, to one broad campaign  *)
(* step.                                                                   *)
(*                                                                         *)
(* Time is New Zealand time of day in whole units.  Every instant the code *)
(* keeps and compares with the clock is a timer here: how much is left of  *)
(* it.  The steps of a campaign are the business of BroadCampaign, those   *)
(* of a delivery of AlertDelivery; here they only take time and fail.      *)
(***************************************************************************)
EXTENDS Integers

CONSTANTS
    Runners,        \* processes started as the home runner
    NoRunner,
    Providers,      \* the notification providers that have credentials
    Tick,           \* HOME_RUNNER_TICK_INTERVAL_SECONDS
    Margin,         \* HOME_RUNNER_BACKGROUND_SAFETY_MARGIN_SECONDS
    MinBudget,      \* HOME_RUNNER_BACKGROUND_MIN_BUDGET_SECONDS
    Day,            \* a day
    QuietEnd,       \* QUIET_HOURS_END; quiet hours begin at midnight
    CheckAt,        \* HOME_RUNNER_HEALTHCHECK_TIME
    CheckWindow     \* HOME_RUNNER_HEALTHCHECK_WINDOW_MINUTES

ASSUME RunnersAssumption == NoRunner \notin Runners
ASSUME TimeAssumption ==
    /\ {Tick, Margin, MinBudget, Day, CheckWindow} \subseteq Nat \ {0}
    /\ Day % Tick = 0
    /\ QuietEnd \in 0..Day - 1 /\ QuietEnd % Tick = 0
    /\ CheckAt \in QuietEnd..Day - CheckWindow

VARIABLES
    now,            \* time of day
    lock,           \* who holds the lock file
    pc,             \* what each runner is doing
    lastCheck,      \* last_healthcheck_date, as it compares with today
    windowLeft,     \* time to tick_window_ends_at
    outcome,        \* how the priority phase of the tick ended
    budget,         \* time to the deadline of the broad step's client
    sleepLeft,      \* time to the end of the sleep
    unsent          \* an event is stored, due, and in no delivery call yet

runner == <<pc, lastCheck, windowLeft, outcome, budget, sleepLeft>>
vars == <<now, lock, runner, unsent>>

Working == {"checking", "scanning", "delivering", "broad", "storing"}

TypeOK ==
    /\ now \in 0..Day - 1
    /\ lock \in Runners \cup {NoRunner}
    /\ pc \in [Runners -> Working \cup {"off", "loop", "sleeping"}]
    \* "failed" is "earlier" for the code, and only names the difference.
    /\ lastCheck \in [Runners -> {"earlier", "pending", "failed", "today"}]
    /\ windowLeft \in [Runners -> 0..Tick]
    /\ outcome \in [Runners -> {"none", "quiet", "clean", "failed", "raised"}]
    /\ budget \in [Runners -> 0..Tick]
    /\ sleepLeft \in [Runners -> 0..Tick]
    /\ unsent \in BOOLEAN
------------------------------------------------------------------------------
UntilNextTick == Tick - (now % Tick)

Quiet == now < QuietEnd

HealthcheckIsDue(r) ==
    /\ now \in CheckAt..CheckAt + CheckWindow - 1
    /\ lastCheck[r] # "today"

Init ==
    /\ now \in 0..Day - 1
    /\ lock = NoRunner
    /\ pc = [r \in Runners |-> "off"]
    /\ lastCheck = [r \in Runners |-> "earlier"]
    /\ windowLeft = [r \in Runners |-> 0]
    /\ outcome = [r \in Runners |-> "none"]
    /\ budget = [r \in Runners |-> 0]
    /\ sleepLeft = [r \in Runners |-> 0]
    /\ unsent = FALSE

Goto(r, where) == pc' = [pc EXCEPT ![r] = where]

\* Mutant: the lock is asked for and not needed.
LockIsOptional(r) == TRUE
LockIsFree(r) == lock = NoRunner

\* A second runner is refused at once, which changes nothing.
Start(r) ==
    /\ pc[r] = "off"
    /\ LockIsFree(r)
    /\ lock' = r
    /\ Goto(r, "loop")
    /\ lastCheck' = [lastCheck EXCEPT ![r] = "earlier"]
    /\ UNCHANGED <<now, windowLeft, outcome, budget, sleepLeft, unsent>>

\* Ctrl+C, a kill or a power cut: the kernel gives up the lock.
Stop(r) ==
    /\ pc[r] # "off"
    /\ lock' = NoRunner
    /\ Goto(r, "off")
    /\ windowLeft' = [windowLeft EXCEPT ![r] = 0]
    /\ outcome' = [outcome EXCEPT ![r] = "none"]
    /\ budget' = [budget EXCEPT ![r] = 0]
    /\ sleepLeft' = [sleepLeft EXCEPT ![r] = 0]
    /\ lastCheck' = [lastCheck EXCEPT ![r] = "earlier"]
    /\ UNCHANGED <<now, unsent>>

\* The tick takes its window and calls the priority phase, which returns at
\* once in quiet hours.
BeginTick(r) ==
    /\ windowLeft' = [windowLeft EXCEPT ![r] = UntilNextTick]
    /\ IF Quiet
       THEN Goto(r, "delivering") /\ outcome' = [outcome EXCEPT ![r] = "quiet"]
       ELSE Goto(r, "scanning") /\ outcome' = [outcome EXCEPT ![r] = "none"]
    /\ UNCHANGED <<budget, sleepLeft>>

Loop(r) ==
    /\ pc[r] = "loop"
    /\ IF HealthcheckIsDue(r)
       THEN /\ Goto(r, "checking")
            /\ lastCheck' = [lastCheck EXCEPT ![r] = "pending"]
            /\ UNCHANGED <<windowLeft, outcome, budget, sleepLeft>>
       ELSE BeginTick(r) /\ UNCHANGED lastCheck
    /\ UNCHANGED <<now, lock, unsent>>

\* send_healthcheck reports what became of its message, which goes to every
\* provider, whatever those before it did; a database that cannot be read is
\* something to report and fails nothing.
CheckStatus(failing) ==
    CASE Providers = {}       -> "unconfigured"
      [] Providers = failing  -> "failed"
      [] failing = {}         -> "sent"
      [] OTHER                -> "partial_failure"

\* A check that reached somebody, or had nobody to reach, is done for its date.
CheckEnds(r, failing) ==
    /\ pc[r] = "checking"
    /\ lastCheck' = [lastCheck EXCEPT ![r] =
          IF @ # "pending" THEN @ ELSE IF CheckStatus(failing) = "failed" THEN "failed" ELSE "today"]
    /\ BeginTick(r)
    /\ UNCHANGED <<now, lock, unsent>>

\* The priority phase returns or raises.  Scopes scraped before one that failed
\* have stored their events.
\* Mutant: an error ends the tick.
AfterRaise(r, how) == IF how = "raised" THEN "sleeping" ELSE "delivering"
AfterScan(r, how) == "delivering"

ScanEnds(r, how) ==
    /\ pc[r] = "scanning"
    /\ Goto(r, AfterScan(r, how))
    /\ outcome' = [outcome EXCEPT ![r] = how]
    /\ unsent' \in IF how = "raised" THEN {unsent} ELSE {unsent, TRUE}
    /\ UNCHANGED <<now, lock, lastCheck, windowLeft, budget, sleepLeft>>

Sleep(r) ==
    /\ Goto(r, "sleeping")
    /\ sleepLeft' = [sleepLeft EXCEPT ![r] = UntilNextTick]
    /\ budget' = [budget EXCEPT ![r] = 0]

\* Mutant: the window is the one the delivery ended in.
WindowOfNow(r) == UntilNextTick - Margin
TimeBudget(r) == windowLeft[r] - Margin

MayRunBroad(r, delivered) ==
    /\ delivered
    /\ outcome[r] \in {"quiet", "clean"}
    /\ TimeBudget(r) >= MinBudget

\* The delivery call returns, having gone through all that was due, or raises.
\* The broad phase is called next, and it too returns at once in quiet hours.
DeliveryEnds(r, delivered) ==
    /\ pc[r] = "delivering"
    /\ unsent' = (unsent /\ ~delivered)
    /\ IF MayRunBroad(r, delivered) /\ ~Quiet
       THEN /\ Goto(r, "broad")
            /\ budget' = [budget EXCEPT ![r] = TimeBudget(r)]
            /\ UNCHANGED sleepLeft
       ELSE Sleep(r)
    /\ UNCHANGED <<now, lock, lastCheck, windowLeft, outcome>>

\* The broad step has made its last request, or its client's deadline has come.
BroadStops(r) ==
    /\ pc[r] = "broad"
    /\ Goto(r, "storing")
    /\ budget' = [budget EXCEPT ![r] = 0]
    /\ UNCHANGED <<now, lock, lastCheck, windowLeft, outcome, sleepLeft, unsent>>

\* The step stores what came of it; a campaign that completes stores events.
StoringEnds(r) ==
    /\ pc[r] = "storing"
    /\ Sleep(r)
    /\ unsent' \in {unsent, TRUE}
    /\ UNCHANGED <<now, lock, lastCheck, windowLeft, outcome>>

Wake(r) ==
    /\ pc[r] = "sleeping"
    /\ sleepLeft[r] = 0
    /\ Goto(r, "loop")
    /\ UNCHANGED <<now, lock, lastCheck, windowLeft, outcome, budget, sleepLeft, unsent>>

\* Nothing but requests and statements takes time; a sleep ends on time, and
\* the client's requests end by its deadline.
MayPass(r) ==
    /\ pc[r] # "loop"
    /\ pc[r] = "sleeping" => sleepLeft[r] > 0
    /\ pc[r] = "broad" => budget[r] > 0

Less(timer) == [r \in Runners |-> IF timer[r] > 0 THEN timer[r] - 1 ELSE 0]

Pass ==
    /\ \A r \in Runners : MayPass(r)
    /\ now' = (now + 1) % Day
    /\ windowLeft' = Less(windowLeft)
    /\ budget' = Less(budget)
    /\ sleepLeft' = Less(sleepLeft)
    /\ lastCheck' = IF now' = 0 THEN [r \in Runners |-> "earlier"] ELSE lastCheck
    /\ UNCHANGED <<lock, pc, outcome, unsent>>

Proceed(r) ==
    \/ Loop(r) \/ Wake(r) \/ BroadStops(r) \/ StoringEnds(r)
    \/ \E failing \in SUBSET Providers : CheckEnds(r, failing)
    \/ \E how \in {"clean", "failed", "raised"} : ScanEnds(r, how)
    \/ \E delivered \in BOOLEAN : DeliveryEnds(r, delivered)

Next ==
    \/ Pass
    \/ \E r \in Runners : Start(r) \/ Stop(r) \/ Proceed(r)

Spec == Init /\ [][Next]_vars

\* Time passes, and what a runner has begun ends: every request has a timeout.
\* Nobody has to start a runner or to leave it running.
FairSpec == Spec /\ WF_vars(Pass) /\ \A r \in Runners : WF_vars(Proceed(r))
------------------------------------------------------------------------------
\* The lock keeps every runner but one out of the loop, whatever way the one
\* before it ended.
AtMostOneRunner ==
    \A r, s \in Runners : pc[r] # "off" /\ pc[s] # "off" => r = s

\* Broad work is in nobody's way.  It comes after a priority phase of the same
\* tick that really ran and failed nowhere, and after a delivery of every event
\* due by then; its requests are made in the window the tick began in, never in
\* the last Margin, where they would delay the next priority scan, and never in
\* quiet hours, though these are looked up only when the step begins.
BroadKeepsClear ==
    \A r \in Runners :
        pc[r] = "broad" =>
            /\ outcome[r] = "clean"
            /\ ~unsent
            /\ windowLeft[r] \in Margin..Tick
            /\ (now + windowLeft[r]) % Tick = 0
            /\ now >= QuietEnd

\* A runner that is left running comes back to delivering alerts for ever,
\* whatever its phases raise.
DeliveryGoesOn ==
    \A r \in Runners : []<>(pc[r] = "off") \/ []<>(pc[r] = "delivering")
------------------------------------------------------------------------------
\* home_runner.py logs a failed health check with "retry=next_tick".  The next
\* tick of the same day tries it again.
FailedCheckIsRetried ==
    [][\A r \in Runners :
          pc[r] = "loop" /\ lastCheck[r] = "failed" /\ pc'[r] # "off" => pc'[r] = "checking"]_vars
==============================================================================
