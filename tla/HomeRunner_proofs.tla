--------------------------- MODULE HomeRunner_proofs ---------------------------
(***************************************************************************)
(* HomeRunner for any number of runners and any lengths of the tick, its   *)
(* margin, the day and the quiet hours.                                    *)
(***************************************************************************)
EXTENDS HomeRunner, TLAPS

LEMMA Lengths ==
    /\ Tick \in Nat \ {0} /\ Margin \in Nat \ {0} /\ MinBudget \in Nat \ {0}
    /\ Day \in Nat \ {0} /\ Day % Tick = 0
    /\ QuietEnd \in 0..Day - 1 /\ QuietEnd % Tick = 0
BY TimeAssumption

LEMMA Multiple ==
    ASSUME NEW n \in Nat, n % Tick = 0
    PROVE  \E k \in Nat : n = k * Tick
BY Lengths

\* A multiple of Tick that is less than another is less by Tick at least.
LEMMA Apart ==
    ASSUME NEW k \in Nat, NEW m \in Nat, k * Tick < m * Tick
    PROVE  k * Tick + Tick <= m * Tick
<1>1. k < m
  BY Lengths
<1>2. (k + 1) * Tick <= m * Tick
  BY <1>1, Lengths
<1> QED
  BY <1>2, Lengths

\* The first boundary after n is no later than any other.
LEMMA NextBoundary ==
    ASSUME NEW n \in Nat, NEW w \in 1..Tick, (n + w) % Tick = 0,
           NEW b \in Nat, b % Tick = 0, n < b
    PROVE  n + w <= b
<1>1. PICK k \in Nat : n + w = k * Tick
  BY Multiple, Lengths
<1>2. PICK m \in Nat : b = m * Tick
  BY Multiple
<1>3. SUFFICES ASSUME m * Tick < k * Tick PROVE FALSE
  BY <1>1, <1>2, Lengths
<1>4. m * Tick + Tick <= k * Tick
  BY <1>3, Apart
<1>5. m * Tick \in Nat /\ k * Tick \in Nat
  BY <1>1, <1>2
<1> QED
  BY <1>1, <1>2, <1>4, <1>5, Lengths

LEMMA Completed ==
    ASSUME NEW n \in Nat, NEW t \in Nat \ {0}
    PROVE  n % t \in 0..t - 1 /\ (n + (t - (n % t))) % t = 0
<1>1. n % t \in 0..t - 1
  OBVIOUS
<1>2. n \div t \in Nat /\ n = ((n \div t) * t) + (n % t)
  OBVIOUS
<1>3. n + (t - (n % t)) = ((n \div t) + 1) * t
  BY <1>1, <1>2
<1>4. (((n \div t) + 1) * t) % t = 0
  BY <1>2
<1> QED
  BY <1>1, <1>3, <1>4

LEMMA UntilNextTickIsThere ==
    ASSUME now \in 0..Day - 1
    PROVE  UntilNextTick \in 1..Tick /\ (now + UntilNextTick) % Tick = 0
<1>1. now \in Nat /\ Tick \in Nat \ {0}
  BY Lengths
<1>2. now % Tick \in 0..Tick - 1 /\ (now + (Tick - (now % Tick))) % Tick = 0
  BY <1>1, Completed
<1> QED
  BY <1>1, <1>2 DEF UntilNextTick

LEMMA LessTyped ==
    ASSUME NEW timer \in [Runners -> 0..Tick]
    PROVE  Less(timer) \in [Runners -> 0..Tick]
BY Lengths DEF Less

LEMMA NowTyped == ASSUME now \in 0..Day - 1 PROVE (now + 1) % Day \in 0..Day - 1
BY Lengths

LEMMA BeginTickTyped ==
    ASSUME TypeOK, NEW r \in Runners, BeginTick(r)
    PROVE  /\ pc' \in [Runners -> Working \cup {"off", "loop", "sleeping"}]
           /\ windowLeft' \in [Runners -> 0..Tick]
           /\ outcome' \in [Runners -> {"none", "quiet", "clean", "failed", "raised"}]
           /\ budget' \in [Runners -> 0..Tick]
           /\ sleepLeft' \in [Runners -> 0..Tick]
<1>1. UntilNextTick \in 0..Tick
  BY UntilNextTickIsThere, Lengths DEF TypeOK
<1> QED
  BY <1>1 DEF BeginTick, Goto, TypeOK, Working

LEMMA SleepTyped ==
    ASSUME TypeOK, NEW r \in Runners, Sleep(r)
    PROVE  /\ pc' \in [Runners -> Working \cup {"off", "loop", "sleeping"}]
           /\ budget' \in [Runners -> 0..Tick]
           /\ sleepLeft' \in [Runners -> 0..Tick]
<1>1. UntilNextTick \in 0..Tick /\ 0 \in 0..Tick
  BY UntilNextTickIsThere, Lengths DEF TypeOK
<1> QED
  BY <1>1 DEF Sleep, Goto, TypeOK, Working

\* The state is typed (run_home_runner and what it calls).
THEOREM TypeCorrect == Spec => []TypeOK
<1>1. ASSUME Init PROVE TypeOK
  <2>1. 0 \in 0..Tick
    BY Lengths
  <2> QED
    BY <1>1, <2>1 DEF Init, TypeOK
<1>2. ASSUME TypeOK, [Next]_vars PROVE TypeOK'
  <2> USE <1>2
  <2>1. CASE Pass
    <3>1. now' \in 0..Day - 1
      BY <2>1, NowTyped DEF Pass, TypeOK
    <3>2. /\ windowLeft' \in [Runners -> 0..Tick]
          /\ budget' \in [Runners -> 0..Tick]
          /\ sleepLeft' \in [Runners -> 0..Tick]
      BY <2>1, LessTyped DEF Pass, TypeOK
    <3> QED
      BY <2>1, <3>1, <3>2 DEF Pass, TypeOK
  <2>2. ASSUME NEW r \in Runners, Start(r) PROVE TypeOK'
    BY <2>2 DEF Start, Goto, TypeOK
  <2>3. ASSUME NEW r \in Runners, Stop(r) PROVE TypeOK'
    <3>1. 0 \in 0..Tick
      BY Lengths
    <3> QED
      BY <2>3, <3>1 DEF Stop, Goto, TypeOK
  <2>4. ASSUME NEW r \in Runners, Loop(r) PROVE TypeOK'
    <3>1. CASE HealthcheckIsDue(r)
      BY <2>4, <3>1 DEF Loop, Goto, TypeOK, Working
    <3>2. CASE ~HealthcheckIsDue(r)
      <4>1. BeginTick(r) /\ UNCHANGED lastCheck /\ UNCHANGED <<now, lock, unsent>>
        BY <2>4, <3>2 DEF Loop
      <4> QED
        BY <4>1, BeginTickTyped DEF TypeOK
    <3> QED
      BY <3>1, <3>2
  <2>5. ASSUME NEW r \in Runners, NEW failing, CheckEnds(r, failing) PROVE TypeOK'
    <3>1. lastCheck' \in [Runners -> {"earlier", "pending", "failed", "today"}]
      BY <2>5 DEF CheckEnds, TypeOK
    <3>2. BeginTick(r) /\ UNCHANGED <<now, lock, unsent>>
      BY <2>5 DEF CheckEnds
    <3> QED
      BY <3>1, <3>2, BeginTickTyped DEF TypeOK
  <2>6. ASSUME NEW r \in Runners, NEW how \in {"clean", "failed", "raised"}, ScanEnds(r, how)
        PROVE  TypeOK'
    <3>1. unsent' \in BOOLEAN
      BY <2>6 DEF ScanEnds, TypeOK
    <3> QED
      BY <2>6, <3>1 DEF ScanEnds, AfterScan, Goto, TypeOK, Working
  <2>7. ASSUME NEW r \in Runners, NEW delivered \in BOOLEAN, DeliveryEnds(r, delivered)
        PROVE  TypeOK'
    <3>1. unsent' \in BOOLEAN
      BY <2>7 DEF DeliveryEnds, TypeOK
    <3>2. UNCHANGED <<now, lock, lastCheck, windowLeft, outcome>>
      BY <2>7 DEF DeliveryEnds
    <3>3. CASE MayRunBroad(r, delivered) /\ ~Quiet
      <4>1. TimeBudget(r) \in 0..Tick
        BY <3>3, Lengths DEF MayRunBroad, TimeBudget, TypeOK
      <4> QED
        BY <2>7, <3>1, <3>2, <3>3, <4>1 DEF DeliveryEnds, Goto, TypeOK, Working
    <3>4. CASE ~(MayRunBroad(r, delivered) /\ ~Quiet)
      <4>1. Sleep(r)
        BY <2>7, <3>4 DEF DeliveryEnds
      <4> QED
        BY <3>1, <3>2, <4>1, SleepTyped DEF TypeOK
    <3> QED
      BY <3>3, <3>4
  <2>8. ASSUME NEW r \in Runners, BroadStops(r) PROVE TypeOK'
    <3>1. 0 \in 0..Tick
      BY Lengths
    <3> QED
      BY <2>8, <3>1 DEF BroadStops, Goto, TypeOK, Working
  <2>9. ASSUME NEW r \in Runners, StoringEnds(r) PROVE TypeOK'
    <3>1. unsent' \in BOOLEAN
      BY <2>9 DEF StoringEnds, TypeOK
    <3>2. Sleep(r) /\ UNCHANGED <<now, lock, lastCheck, windowLeft, outcome>>
      BY <2>9 DEF StoringEnds
    <3> QED
      BY <3>1, <3>2, SleepTyped DEF TypeOK
  <2>10. ASSUME NEW r \in Runners, Wake(r) PROVE TypeOK'
    BY <2>10 DEF Wake, Goto, TypeOK
  <2>11. CASE UNCHANGED vars
    BY <2>11 DEF vars, runner, TypeOK
  <2> QED
    BY <2>1, <2>2, <2>3, <2>4, <2>5, <2>6, <2>7, <2>8, <2>9, <2>10, <2>11 DEF Next, Proceed
<1> QED
  BY <1>1, <1>2, PTL DEF Spec
------------------------------------------------------------------------------
\* Nobody is in the loop without the lock.
HoldsLock == \A r \in Runners : pc[r] # "off" => lock = r

LEMMA LockIsKept ==
    ASSUME TypeOK, HoldsLock, [Next]_vars
    PROVE  HoldsLock'
<1>1. CASE Pass
  BY <1>1 DEF Pass, HoldsLock
<1>2. ASSUME NEW r \in Runners, Start(r) PROVE HoldsLock'
  BY <1>2, RunnersAssumption DEF Start, LockIsFree, Goto, HoldsLock, TypeOK
<1>3. ASSUME NEW r \in Runners, Stop(r) PROVE HoldsLock'
  BY <1>3 DEF Stop, Goto, HoldsLock, TypeOK
<1>4. ASSUME NEW r \in Runners, Proceed(r) PROVE HoldsLock'
  <2>1. pc[r] # "off" /\ lock' = lock
    BY <1>4 DEF Proceed, Loop, CheckEnds, ScanEnds, DeliveryEnds, BroadStops, StoringEnds, Wake
  <2>2. \A s \in Runners \ {r} : pc'[s] = pc[s]
    BY <1>4 DEF Proceed, Loop, CheckEnds, ScanEnds, DeliveryEnds, BroadStops, StoringEnds, Wake,
                BeginTick, Sleep, Goto, TypeOK
  <2> QED
    BY <2>1, <2>2 DEF HoldsLock
<1>5. CASE UNCHANGED vars
  BY <1>5 DEF vars, runner, HoldsLock
<1> QED
  BY <1>1, <1>2, <1>3, <1>4, <1>5 DEF Next

\* However many runners are started, and however they end, one at most is in
\* the loop (_single_instance_lock).
THEOREM OneRunnerAtATime == Spec => []AtMostOneRunner
<1>1. Init => HoldsLock
  BY DEF Init, HoldsLock
<1>2. HoldsLock => AtMostOneRunner
  BY DEF HoldsLock, AtMostOneRunner
<1> QED
  BY <1>1, <1>2, LockIsKept, TypeCorrect, PTL DEF Spec
------------------------------------------------------------------------------
\* The window a tick took ends on a boundary of the clock until it is over; one
\* taken in quiet hours ends with them at the latest; and a broad step has its
\* budget in what is left of the window before the margin.
OnBoundary(r) ==
    pc[r] \in {"scanning", "delivering", "broad"} /\ windowLeft[r] > 0
        => (now + windowLeft[r]) % Tick = 0
WithinQuiet(r) ==
    pc[r] = "delivering" /\ outcome[r] = "quiet" /\ windowLeft[r] > 0
        => now + windowLeft[r] <= QuietEnd
InBudget(r) ==
    pc[r] = "broad" =>
        /\ outcome[r] = "clean" /\ ~unsent
        /\ windowLeft[r] = budget[r] + Margin
        /\ now >= QuietEnd

Kept(r) == OnBoundary(r) /\ WithinQuiet(r) /\ InBudget(r)

AllKept == \A r \in Runners : Kept(r)

IInv == TypeOK /\ HoldsLock /\ AllKept

LEMMA OutsideKept ==
    ASSUME NEW r \in Runners, pc'[r] \notin {"scanning", "delivering", "broad"}
    PROVE  Kept(r)'
BY DEF Kept, OnBoundary, WithinQuiet, InBudget

\* A window that is not over leaves no room for the end of the day.
LEMMA SameDay ==
    ASSUME IInv, Pass, NEW r \in Runners,
           pc[r] \in {"scanning", "delivering", "broad"}, windowLeft[r] > 1
    PROVE  now' = now + 1 /\ windowLeft'[r] = windowLeft[r] - 1
<1>1. now \in 0..Day - 1 /\ windowLeft[r] \in 1..Tick
  BY Lengths DEF IInv, TypeOK
<1>2. (now + windowLeft[r]) % Tick = 0
  BY <1>1 DEF IInv, AllKept, Kept, OnBoundary
<1>3. now + windowLeft[r] <= Day
  <2>1. now \in Nat /\ Day \in Nat /\ now < Day /\ Day % Tick = 0
    BY <1>1, Lengths
  <2> QED
    BY <1>1, <1>2, <2>1, NextBoundary
<1>4. now + 1 < Day
  BY <1>1, <1>3, Lengths
<1>5. (now + 1) % Day = now + 1
  BY <1>1, <1>4, Lengths
<1>6. windowLeft'[r] = windowLeft[r] - 1
  BY <1>1 DEF Pass, Less
<1> QED
  BY <1>5, <1>6 DEF Pass

LEMMA PassKeeps ==
    ASSUME IInv, Pass, NEW r \in Runners
    PROVE  Kept(r)'
<1>1. CASE pc[r] \notin {"scanning", "delivering", "broad"}
  BY <1>1, OutsideKept DEF Pass
<1>2. CASE pc[r] \in {"scanning", "delivering", "broad"}
  <2>1. pc'[r] = pc[r] /\ outcome'[r] = outcome[r] /\ unsent' = unsent
    BY DEF Pass
  <2>2. now \in 0..Day - 1 /\ windowLeft[r] \in 0..Tick /\ budget[r] \in 0..Tick
    BY DEF IInv, TypeOK
  <2>3. CASE windowLeft[r] > 1
    <3>1. now' = now + 1 /\ windowLeft'[r] = windowLeft[r] - 1
      BY <1>2, <2>3, SameDay
    <3>2. now' + windowLeft'[r] = now + windowLeft[r]
      BY <2>2, <3>1, Lengths
    <3>3. OnBoundary(r)'
      BY <2>1, <2>2, <2>3, <3>2, Lengths DEF IInv, AllKept, Kept, OnBoundary
    <3>4. WithinQuiet(r)'
      <4>1. WithinQuiet(r)
        BY DEF IInv, AllKept, Kept
      <4> QED
        BY <2>1, <2>2, <2>3, <3>2, <4>1, Lengths DEF WithinQuiet
    <3>5. InBudget(r)'
      <4>1. SUFFICES ASSUME pc[r] = "broad" PROVE InBudget(r)'
        BY <2>1 DEF InBudget
      <4>2. budget[r] > 0
        BY <4>1 DEF Pass, MayPass
      <4>3. budget'[r] = budget[r] - 1
        BY <2>2, <4>2 DEF Pass, Less
      <4>4. now' >= QuietEnd
        BY <2>2, <3>1, <4>1, Lengths DEF IInv, AllKept, Kept, InBudget
      <4> QED
        BY <2>1, <2>2, <3>1, <4>1, <4>3, <4>4, Lengths DEF IInv, AllKept, Kept, InBudget
    <3> QED
      BY <3>3, <3>4, <3>5 DEF Kept
  <2>4. CASE windowLeft[r] <= 1
    <3>1. windowLeft'[r] = 0
      BY <2>2, <2>4, Lengths DEF Pass, Less
    <3>2. pc[r] # "broad"
      <4>1. SUFFICES ASSUME pc[r] = "broad" PROVE FALSE
        OBVIOUS
      <4>2. budget[r] > 0
        BY <4>1 DEF Pass, MayPass
      <4> QED
        BY <2>2, <2>4, <4>1, <4>2, Lengths DEF IInv, AllKept, Kept, InBudget
    <3> QED
      BY <2>1, <3>1, <3>2 DEF Kept, OnBoundary, WithinQuiet, InBudget
  <2> QED
    BY <2>2, <2>3, <2>4, Lengths
<1> QED
  BY <1>1, <1>2

LEMMA BeginTickKeeps ==
    ASSUME IInv, NEW r \in Runners, BeginTick(r), now' = now
    PROVE  Kept(r)'
<1>1. now \in 0..Day - 1 /\ now \in Nat
  BY Lengths DEF IInv, TypeOK
<1>2. windowLeft'[r] = UntilNextTick
  BY DEF BeginTick, IInv, TypeOK
<1>3. UntilNextTick \in 1..Tick /\ (now + UntilNextTick) % Tick = 0
  BY <1>1, UntilNextTickIsThere
<1>4. pc'[r] \in {"scanning", "delivering"} /\ (outcome'[r] = "quiet" => Quiet)
  BY DEF BeginTick, Goto, IInv, TypeOK
<1>5. Quiet => now + UntilNextTick <= QuietEnd
  <2>1. QuietEnd \in Nat /\ QuietEnd % Tick = 0
    BY Lengths
  <2> QED
    BY <1>1, <1>3, <2>1, NextBoundary DEF Quiet
<1> QED
  BY <1>2, <1>3, <1>4, <1>5 DEF Kept, OnBoundary, WithinQuiet, InBudget

LEMMA DeliveryKeeps ==
    ASSUME IInv, NEW r \in Runners, NEW delivered \in BOOLEAN, DeliveryEnds(r, delivered)
    PROVE  Kept(r)'
<1>1. CASE MayRunBroad(r, delivered) /\ ~Quiet
  <2>1. now \in 0..Day - 1 /\ windowLeft[r] \in 0..Tick
    BY DEF IInv, TypeOK
  <2>2. /\ pc[r] = "delivering" /\ pc'[r] = "broad" /\ budget'[r] = windowLeft[r] - Margin
        /\ now' = now /\ windowLeft'[r] = windowLeft[r] /\ outcome'[r] = outcome[r]
    BY <1>1 DEF DeliveryEnds, Goto, TimeBudget, IInv, TypeOK
  <2>3. windowLeft[r] > 0
    BY <1>1, <2>1, Lengths DEF MayRunBroad, TimeBudget
  <2>4. now >= QuietEnd
    BY <1>1, <2>1, Lengths DEF Quiet
  <2>5. outcome[r] # "quiet"
    BY <2>1, <2>2, <2>3, <2>4, Lengths DEF IInv, AllKept, Kept, WithinQuiet
  <2>6. outcome[r] = "clean"
    BY <1>1, <2>5 DEF MayRunBroad
  <2>7. ~unsent'
    BY <1>1 DEF DeliveryEnds, MayRunBroad
  <2>8. OnBoundary(r)'
    BY <2>2, <2>3 DEF IInv, AllKept, Kept, OnBoundary
  <2>9. WithinQuiet(r)'
    BY <2>2 DEF WithinQuiet
  <2>10. InBudget(r)'
    BY <2>1, <2>2, <2>4, <2>6, <2>7, Lengths DEF InBudget
  <2> QED
    BY <2>8, <2>9, <2>10 DEF Kept
<1>2. CASE ~(MayRunBroad(r, delivered) /\ ~Quiet)
  <2>1. pc'[r] = "sleeping"
    BY <1>2 DEF DeliveryEnds, Sleep, Goto, IInv, TypeOK
  <2> QED
    BY <2>1, OutsideKept
<1> QED
  BY <1>1, <1>2

LEMMA ProceedKeeps ==
    ASSUME IInv, NEW r \in Runners, Proceed(r)
    PROVE  Kept(r)'
<1>1. CASE Loop(r)
  <2>1. CASE HealthcheckIsDue(r)
    <3>1. pc'[r] = "checking"
      BY <1>1, <2>1 DEF Loop, Goto, IInv, TypeOK
    <3> QED
      BY <3>1, OutsideKept
  <2>2. CASE ~HealthcheckIsDue(r)
    BY <1>1, <2>2, BeginTickKeeps DEF Loop
  <2> QED
    BY <2>1, <2>2
<1>2. ASSUME NEW failing, CheckEnds(r, failing) PROVE Kept(r)'
  BY <1>2, BeginTickKeeps DEF CheckEnds
<1>3. ASSUME NEW how \in {"clean", "failed", "raised"}, ScanEnds(r, how) PROVE Kept(r)'
  <2>1. /\ pc[r] = "scanning" /\ pc'[r] = "delivering" /\ outcome'[r] = how
        /\ now' = now /\ windowLeft'[r] = windowLeft[r]
    BY <1>3 DEF ScanEnds, AfterScan, Goto, IInv, TypeOK
  <2>2. OnBoundary(r)'
    BY <2>1 DEF IInv, AllKept, Kept, OnBoundary
  <2> QED
    BY <2>1, <2>2 DEF Kept, WithinQuiet, InBudget
<1>4. ASSUME NEW delivered \in BOOLEAN, DeliveryEnds(r, delivered) PROVE Kept(r)'
  BY <1>4, DeliveryKeeps
<1>5. ASSUME BroadStops(r) \/ StoringEnds(r) \/ Wake(r) PROVE Kept(r)'
  <2>1. pc'[r] \in {"storing", "sleeping", "loop"}
    BY <1>5 DEF BroadStops, StoringEnds, Sleep, Wake, Goto, IInv, TypeOK
  <2> QED
    BY <2>1, OutsideKept
<1> QED
  BY <1>1, <1>2, <1>3, <1>4, <1>5 DEF Proceed

\* Broad work keeps clear of the priority scans, of undelivered events and of
\* quiet hours (_run_tick).
THEOREM BroadWorkKeepsClear == Spec => []BroadKeepsClear
<1>1. ASSUME Init PROVE AllKept
  BY <1>1 DEF Init, AllKept, Kept, OnBoundary, WithinQuiet, InBudget
<1>2. ASSUME IInv, [Next]_vars PROVE AllKept'
  <2> SUFFICES ASSUME NEW s \in Runners PROVE Kept(s)'
    BY DEF AllKept
  <2>1. CASE Pass
    BY <1>2, <2>1, PassKeeps
  <2>2. ASSUME NEW r \in Runners, Start(r) \/ Stop(r) \/ Proceed(r) PROVE Kept(s)'
    <3>1. CASE s = r /\ Proceed(r)
      BY <1>2, <3>1, ProceedKeeps
    <3>2. CASE s = r /\ (Start(r) \/ Stop(r))
      <4>1. pc'[s] \in {"loop", "off"}
        BY <1>2, <3>2 DEF Start, Stop, Goto, IInv, TypeOK
      <4> QED
        BY <4>1, OutsideKept
    <3>3. CASE s # r
      <4>1. lock = NoRunner \/ lock = r
        BY <1>2, <2>2 DEF Start, LockIsFree, Stop, Proceed, Loop, CheckEnds, ScanEnds,
                          DeliveryEnds, BroadStops, StoringEnds, Wake, IInv, HoldsLock
      <4>2. pc[s] = "off"
        BY <1>2, <3>3, <4>1, RunnersAssumption DEF IInv, HoldsLock
      <4>3. pc'[s] = pc[s]
        BY <1>2, <2>2, <3>3 DEF Start, Stop, Proceed, Loop, CheckEnds, ScanEnds, DeliveryEnds,
                                BroadStops, StoringEnds, Wake, BeginTick, Sleep, Goto, IInv, TypeOK
      <4> QED
        BY <4>2, <4>3, OutsideKept
    <3> QED
      BY <2>2, <3>1, <3>2, <3>3
  <2>3. CASE UNCHANGED vars
    BY <1>2, <2>3 DEF vars, runner, IInv, AllKept, Kept, OnBoundary, WithinQuiet, InBudget
  <2> QED
    BY <1>2, <2>1, <2>2, <2>3 DEF Next
<1>3. ASSUME IInv PROVE BroadKeepsClear
  <2> SUFFICES ASSUME NEW r \in Runners, pc[r] = "broad"
               PROVE  /\ outcome[r] = "clean" /\ ~unsent
                      /\ windowLeft[r] \in Margin..Tick
                      /\ (now + windowLeft[r]) % Tick = 0
                      /\ now >= QuietEnd
    BY DEF BroadKeepsClear
  <2>1. InBudget(r) /\ OnBoundary(r)
    BY <1>3 DEF IInv, AllKept, Kept
  <2>2. windowLeft[r] \in 0..Tick /\ budget[r] \in 0..Tick
    BY <1>3 DEF IInv, TypeOK
  <2>3. windowLeft[r] = budget[r] + Margin
    BY <2>1 DEF InBudget
  <2>4. windowLeft[r] \in Margin..Tick /\ windowLeft[r] > 0
    BY <2>2, <2>3, Lengths
  <2> QED
    BY <2>1, <2>4 DEF InBudget, OnBoundary
<1>4. Init => HoldsLock
  BY DEF Init, HoldsLock
<1>5. ASSUME TypeOK, HoldsLock, AllKept PROVE BroadKeepsClear
  BY <1>3, <1>5 DEF IInv
<1>6. ASSUME TypeOK, HoldsLock, AllKept, [Next]_vars PROVE AllKept'
  BY <1>2, <1>6 DEF IInv
<1> QED
  BY <1>1, <1>4, <1>5, <1>6, LockIsKept, TypeCorrect, PTL DEF Spec
===============================================================================
