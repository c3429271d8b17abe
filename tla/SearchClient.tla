----------------------------- MODULE SearchClient -----------------------------
(***************************************************************************)
(* The HTTP client of the scraper (kiwihousesitters/client.py) as one      *)
(* process uses it: a scrape makes a client, which paces its requests,     *)
(* tries transient failures again after a pause that doubles, and, when    *)
(* it works for the broad phase, has a deadline that neither a pause nor a *)
(* request may pass.  Time is in whole units, as timers.                   *)
(***************************************************************************)
EXTENDS Integers

CONSTANTS
    Interval,       \* KIWIHOUSESITTERS_REQUEST_INTERVAL_SECONDS
    MaxJitter,      \* KIWIHOUSESITTERS_REQUEST_INTERVAL_JITTER_SECONDS
    Timeout,        \* KIWIHOUSESITTERS_TIMEOUT_SECONDS
    Attempts,       \* KIWIHOUSESITTERS_TRANSIENT_RETRY_ATTEMPTS
    Backoff,        \* KIWIHOUSESITTERS_TRANSIENT_RETRY_BACKOFF_SECONDS
    Budgets,        \* time budgets of broad steps
    None            \* no deadline; no request yet

ASSUME ClientAssumption ==
    /\ {Interval, MaxJitter, Attempts, Backoff} \subseteq Nat
    /\ Timeout \in Nat \ {0}
    /\ Budgets \subseteq Nat
    /\ None \notin Nat

VARIABLES
    pc,             \* what the client is doing; "none" when there is none
    left,           \* time to _deadline
    since,          \* time since _last_request_started_at
    pause,          \* what is left of a sleep
    requestLeft,    \* what is left of the timeout of the request in flight
    retry,          \* retry_number
    \* What the site sees.
    gap             \* time since the last request of the process

clientVars == <<pc, left, since, pause, requestLeft, retry, gap>>

\* Longer times since a request are not told apart.
Enough == Interval + MaxJitter
LongestPause ==
    LET last == IF Attempts = 0 THEN 0 ELSE Backoff * 2^(Attempts - 1)
    IN  IF last > Enough THEN last ELSE Enough

Asleep == {"pausing", "backoff"}

ClientTypeOK ==
    /\ pc \in {"none", "ready", "slot", "requesting"} \cup Asleep
    /\ left \in Nat \cup {None}
    /\ since \in 0..Enough \cup {None}
    /\ pause \in 0..LongestPause
    /\ requestLeft \in 0..Timeout
    /\ retry \in 0..Attempts
    /\ gap \in 0..Enough

ClientInit ==
    /\ pc = "none"
    /\ left = None
    /\ since = None
    /\ pause = 0
    /\ requestLeft = 0
    /\ retry = 0
    /\ gap = Enough
------------------------------------------------------------------------------
\* A scrape begins, with a client of its own, and ends.
NewClient(deadline) ==
    /\ pc = "none"
    /\ pc' = "ready"
    /\ left' = deadline
    /\ since' = None
    /\ retry' = 0
    /\ UNCHANGED <<pause, requestLeft, gap>>

NoClient ==
    /\ pc' = "none"
    /\ left' = None
    /\ since' = None
    /\ pause' = 0
    /\ requestLeft' = 0
    /\ retry' = 0

EndScrape == pc = "ready" /\ NoClient /\ UNCHANGED gap

Call ==
    /\ pc = "ready"
    /\ pc' = "slot"
    /\ retry' = 0
    /\ UNCHANGED <<left, since, pause, requestLeft, gap>>

\* _sleep_with_deadline: a sleep that would not end before the deadline raises.
SleepOrRaise(delay, how) ==
    IF left # None /\ delay >= left
    THEN NoClient
    ELSE /\ pc' = how
         /\ pause' = delay
         /\ requestLeft' = 0
         /\ UNCHANGED <<left, since>>

\* Mutant: a request may take its full time whatever the deadline.
FullTimeout == Timeout
RequestTimeout == IF left # None /\ left < Timeout THEN left ELSE Timeout

\* Mutant: only the first request of a client is noted.
NotedFirst == IF since = None THEN 0 ELSE since
Noted == 0

\* The slot is taken and the request sent, or the deadline has come.
BeginRequest ==
    IF left = 0
    THEN NoClient /\ UNCHANGED gap
    ELSE /\ pc' = "requesting"
         /\ since' = Noted
         /\ gap' = 0
         /\ pause' = 0
         /\ requestLeft' = RequestTimeout
         /\ UNCHANGED <<left, retry>>

TakeSlot(jitter) ==
    /\ pc = "slot"
    /\ IF since # None /\ since < Interval + jitter
       THEN /\ SleepOrRaise(Interval + jitter - since, "pausing")
            /\ retry' = IF pc' = "none" THEN 0 ELSE retry
            /\ UNCHANGED gap
       ELSE BeginRequest

PauseEnds == pc = "pausing" /\ pause = 0 /\ BeginRequest

BackoffEnds ==
    /\ pc = "backoff"
    /\ pause = 0
    /\ pc' = "slot"
    /\ UNCHANGED <<left, since, pause, requestLeft, retry, gap>>

\* Mutant: the pause doubles before its first use.
DoubledBackoff == Backoff * 2^(retry + 1)
RetryBackoff == Backoff * 2^retry

\* Mutant: the retries of a call are not counted.
SameRetry == retry
NextRetry == retry + 1

\* The answers that are worth another request.  A challenge may come with a
\* status that would be.
TriedAgain(answer) == answer \in {"no_answer", "transient"}

Answer(answer) ==
    /\ pc = "requesting"
    /\ CASE answer = "ok" ->
               /\ pc' = "ready"
               /\ requestLeft' = 0
               /\ UNCHANGED <<left, since, pause, retry>>
         [] TriedAgain(answer) /\ retry < Attempts ->
               /\ SleepOrRaise(RetryBackoff, "backoff")
               /\ retry' = IF pc' = "none" THEN 0 ELSE NextRetry
         [] OTHER -> NoClient
    /\ UNCHANGED gap

Later(timer) == IF timer > 0 THEN timer - 1 ELSE 0
Older(timer) == IF timer < Enough THEN timer + 1 ELSE timer

\* Between two requests a scrape reads pages and may take its time.
Pass ==
    /\ pc # "slot"
    /\ pc \in Asleep => pause > 0
    /\ pc = "requesting" => requestLeft > 0
    /\ left' = IF left = None THEN None ELSE Later(left)
    /\ since' = IF since = None THEN None ELSE Older(since)
    /\ pause' = Later(pause)
    /\ requestLeft' = Later(requestLeft)
    /\ gap' = Older(gap)
    /\ UNCHANGED <<pc, retry>>

Answers == {"ok", "no_answer", "transient", "refused", "challenge", "transient_challenge"}

Proceed ==
    \/ \E jitter \in 0..MaxJitter : TakeSlot(jitter)
    \/ PauseEnds \/ BackoffEnds
    \/ \E answer \in Answers : Answer(answer)

ClientNext ==
    \/ \E deadline \in Budgets \cup {None} : NewClient(deadline)
    \/ Call \/ EndScrape \/ Proceed \/ Pass

ClientSpec == ClientInit /\ [][ClientNext]_clientVars

\* Time passes, a sleep ends, and a request is answered or times out.  Nothing
\* is assumed of what the answers are, or of the scrape's next call.
FairClientSpec == ClientSpec /\ WF_clientVars(Pass) /\ WF_clientVars(Proceed)
------------------------------------------------------------------------------
\* A client with a deadline has nothing under way that outlasts it: what HomeRunner
\* takes for granted of the broad phase.
NothingOutlastsTheDeadline ==
    left # None =>
        /\ pc = "requesting" => requestLeft <= left
        /\ pc \in Asleep => pause < left

\* Every request of a client but its first, retries included, comes at least
\* Interval after the one before it began.
ClientIsPaced ==
    [][pc # "requesting" /\ pc' = "requesting" => since = None \/ gap >= Interval]_clientVars

\* Every call that waits, asks or waits to ask again comes back with a page or
\* raises: pauses, timeouts and retries add up to something that ends.
CallEnds == (pc \in Asleep \cup {"slot", "requesting"}) ~> (pc \in {"ready", "none"})
==============================================================================
