------------------------ MODULE BroadCampaign_proofs ------------------------
(***************************************************************************)
(* Theorems of BroadCampaign, for every set of scopes, regions, processes  *)
(* and every value of the times: the types, then an inductive invariant on *)
(* the shape of a campaign's leaves, and from it the properties that       *)
(* matter.                                                                 *)
(***************************************************************************)
EXTENDS BroadCampaign, TLAPS

\* A process works on a scope from its selection on, on a campaign and a leaf
\* from its first request on.
JobShape ==
    \A w \in Workers :
        /\ pc[w] # "idle" => job[w].scope \in Scopes
        /\ pc[w] = "scraping" => job[w].id # None

\* The leaves of a campaign are the parent-sized one alone, still pending; or
\* one leaf for each region of the scope, at least one of them pending.
LeafShape(s) ==
    \/ /\ ~Active(s)
       /\ leaf[s] = NoLeaves
    \/ /\ Active(s)
       /\ \A l \in LeafKeys : leaf[s][l] = IF l = Full THEN "pending" ELSE "absent"
    \/ /\ Active(s)
       /\ leaf[s][Full] \in {"absent", "split"}
       /\ \A l \in LeafKeys \ {Full} :
             leaf[s][l] \in IF l \in RegionsOf[s] THEN {"pending", "success"} ELSE {"absent"}
       /\ \E l \in LeafKeys : leaf[s][l] = "pending"

IInv ==
    /\ TypeOK
    /\ JobShape
    /\ OneActive
    /\ \A s \in Scopes : LeafShape(s)

------------------------------------------------------------------------------
\* No region has the ordinal of the parent-sized leaf.
LEMMA FullIsNoRegion == \A s \in Scopes : Full \notin RegionsOf[s] /\ RegionsOf[s] \subseteq LeafKeys
  BY ScopesAssumption DEF Full, LeafKeys

\* What is left of a rest is a number of ticks.
LEMMA LeftType == \A d, e \in Nat : Left(d, e) \in Nat
  BY DEF Left

\* Every rest after a failure is a number of ticks.
LEMMA RestType == \A kind, n : RestAfter(kind, n) \in Nat /\ WafPause(n) \in Nat
  BY TimesAssumption, SMT DEF RestAfter, WafPause

\* A campaign starts with at least one leaf, all of them leaves of the scope.
LEMMA CampaignLeavesType ==
  \A s \in Scopes : CampaignLeaves(s) # {} /\ CampaignLeaves(s) \subseteq LeafKeys
  BY ScopesAssumption, FullIsNoRegion DEF CampaignLeaves, RegionalLeaves, LeafKeys

LEMMA LeavesTypes ==
  ASSUME TypeOK, NEW s \in Scopes
  PROVE  /\ NoLeaves \in [LeafKeys -> LeafStatus]
         /\ NewLeaves(s) \in [LeafKeys -> LeafStatus]
         /\ SplitLeaves(s) \in [LeafKeys -> LeafStatus]
  BY DEF TypeOK, NoLeaves, NewLeaves, SplitLeaves, LeafStatus

\* A process at rest, and one that has selected a scope or scrapes a leaf.
LEMMA JobTypes ==
  /\ IdleJob \in Job
  /\ \A s \in Scopes, id \in Ids, l \in LeafKeys, n \in 0..MaxChallenges :
        [scope |-> s, id |-> id, leaf |-> l, challenges |-> n, age |-> 0] \in Job
  /\ \A j \in Job, s \in Scopes : [j EXCEPT !.scope = s] \in Job
  BY TimesAssumption DEF IdleJob, Job, LeafKeys

\* The age and the challenge count a process holds are numbers within their bounds.
LEMMA JobCounts ==
  ASSUME NEW j \in Job
  PROVE  /\ j.age \in Nat /\ j.challenges \in Nat
         /\ j.age < MaxOverrun => [j EXCEPT !.age = @ + 1] \in Job
<1>1. j.age \in 0..MaxOverrun /\ j.challenges \in 0..MaxChallenges
  BY DEF Job
<1>2. j.age \in Nat /\ j.challenges \in Nat
  BY <1>1
<1>3. ASSUME j.age < MaxOverrun PROVE [j EXCEPT !.age = @ + 1] \in Job
  <2>1. j.age + 1 \in 0..MaxOverrun
    BY <1>1, <1>3, TimesAssumption
  <2>2. \A x \in 0..MaxOverrun : [j EXCEPT !.age = x] \in Job
    BY DEF Job
  <2>3. QED
    BY <2>1, <2>2
<1>4. QED
  BY <1>2, <1>3

\* The initial state has no campaign and no process at work.
LEMMA InitInv == Init => IInv
<1> SUFFICES ASSUME Init PROVE IInv
  OBVIOUS
<1>1. TypeOK
  BY JobTypes, TimesAssumption DEF Init, TypeOK, NoLeaves, LeafStatus
<1>2. JobShape /\ OneActive /\ \A s \in Scopes : LeafShape(s)
  BY DEF Init, JobShape, OneActive, LeafShape, Active
<1>3. QED
  BY <1>1, <1>2 DEF IInv

\* Types: one step per action.
LEMMA NextTypeOK == IInv /\ [Next]_vars => TypeOK'
<1> SUFFICES ASSUME IInv, [Next]_vars PROVE TypeOK'
  OBVIOUS
<1> USE DEF IInv, TypeOK, JobShape
<1>1. ASSUME NEW w \in Workers, SelectScope(w) PROVE TypeOK'
  BY <1>1, JobTypes
     DEF SelectScope, Goes, Resumable, Startable, Ready, ActiveDue, Broadest, rows, schedule, history
<1>2. ASSUME NEW w \in Workers, ResumeCampaign(w) PROVE TypeOK'
  BY <1>2, JobTypes DEF ResumeCampaign, Scrape, Goes, Active, rows, schedule, history
<1>3. ASSUME NEW w \in Workers, DeferCampaign(w) \/ CreateRefused(w) PROVE TypeOK'
  BY <1>3, JobTypes DEF DeferCampaign, CreateRefused, GoesIdle, Goes, rows, schedule, history
<1>4. ASSUME NEW w \in Workers, CreateCampaign(w) PROVE TypeOK'
  <2>1. job[w].scope \in Scopes
    BY <1>4 DEF CreateCampaign
  <2>2. NewLeaves(job[w].scope) \in [LeafKeys -> LeafStatus]
    BY <2>1, LeavesTypes
  <2>3. PICK id \in FreshIds, l \in CampaignLeaves(job[w].scope) :
          /\ cid' = [cid EXCEPT ![job[w].scope] = id]
          /\ leaf' = [leaf EXCEPT ![job[w].scope] = NewLeaves(job[w].scope)]
          /\ wait' = [wait EXCEPT ![job[w].scope] = 0]
          /\ challenges' = [challenges EXCEPT ![job[w].scope] = 0]
          /\ Scrape(w, job[w].scope, id, l, 0)
    BY <1>4 DEF CreateCampaign
  <2>4. id \in Ids /\ l \in LeafKeys
    BY <2>1, CampaignLeavesType DEF FreshIds
  <2>5. job' \in [Workers -> Job] /\ pc' \in [Workers -> {"idle", "selected", "scraping"}]
    <3>1. 0 \in 0..MaxChallenges
      BY TimesAssumption
    <3>2. [scope |-> job[w].scope, id |-> id, leaf |-> l, challenges |-> 0, age |-> 0] \in Job
      BY <2>1, <2>4, <3>1, JobTypes
    <3>3. QED
      BY <2>3, <3>2 DEF Scrape, Goes
  <2>6. QED
    BY <1>4, <2>1, <2>2, <2>3, <2>4, <2>5, TimesAssumption DEF CreateCampaign, schedule, history
<1>5. ASSUME NEW w \in Workers, LeafSucceeds(w) PROVE TypeOK'
  <2>1. LeavesAfter(w) \in [LeafKeys -> LeafStatus]
    BY <1>5 DEF LeafSucceeds, Recordable, LeavesAfter, LeafStatus
  <2>2. \A d \in LeafDelays : Left(d, job[w].age) \in Nat
    <3>1. job[w].age \in Nat
      BY JobCounts
    <3>2. QED
      BY <3>1, LeftType, TimesAssumption
  <2>3. PICK d \in LeafDelays : wait' = [wait EXCEPT ![job[w].scope] = Left(d, job[w].age)]
    BY <1>5 DEF LeafSucceeds
  <2>4. wait' \in [Scopes -> Nat]
    BY <2>2, <2>3
  <2>5. job' \in [Workers -> Job] /\ pc' \in [Workers -> {"idle", "selected", "scraping"}]
    BY <1>5, JobTypes DEF LeafSucceeds, GoesIdle, Goes
  <2>6. QED
    BY <1>5, <2>1, <2>4, <2>5 DEF LeafSucceeds, schedule, history
<1>6. ASSUME NEW w \in Workers, NEW empty \in BOOLEAN, CampaignCompletes(w, empty) PROVE TypeOK'
  <2>1. NoLeaves \in [LeafKeys -> LeafStatus]
    BY DEF NoLeaves, LeafStatus
  <2>2. job[w].scope \in Scopes /\ job[w].leaf \in LeafKeys
    BY <1>6 DEF CampaignCompletes, Recordable, Job
  <2>3. merged' \subseteq LeafKeys
    BY <1>6, <2>2, FullIsNoRegion DEF CampaignCompletes, Staged, Success, RegionsIn
  <2>4. QED
    BY <1>6, <2>1, <2>2, <2>3, JobTypes, TimesAssumption DEF CampaignCompletes, GoesIdle, Goes, Freshened
<1>7. ASSUME NEW w \in Workers, NEW kind \in FailureKinds, LeafFails(w, kind) PROVE TypeOK'
  <2> DEFINE s == job[w].scope
  <2>1. s \in Scopes
    BY <1>7 DEF LeafFails, Recordable
  <2>2. leaf' \in [Scopes -> [LeafKeys -> LeafStatus]]
    BY <1>7, <2>1, LeavesTypes DEF LeafFails
  <2>3. /\ Left(RestAfter(kind, job[w].challenges), job[w].age) \in Nat
        /\ Left(WafPause(job[w].challenges), job[w].age) \in Nat
    BY RestType, LeftType, JobCounts
  <2>4. wait' \in [Scopes -> Nat] /\ embargo' \in [Scopes -> Nat] /\ quiet' \in Nat
    <3> HIDE DEF JobShape
    <3>1. wait' \in [Scopes -> Nat]
      BY <1>7, <2>3 DEF LeafFails
    <3>2. CASE kind = "waf"
      BY <1>7, <2>3, <3>1, <3>2, TimesAssumption DEF LeafFails
    <3>3. CASE kind # "waf"
      BY <1>7, <3>1, <3>3 DEF LeafFails
    <3>4. QED
      BY <3>2, <3>3
  <2>5. challenges' \in [Scopes -> 0..MaxChallenges]
    BY <1>7, <2>1, TimesAssumption DEF LeafFails
  <2>6. job' \in [Workers -> Job] /\ pc' \in [Workers -> {"idle", "selected", "scraping"}]
    BY <1>7, JobTypes DEF LeafFails, GoesIdle, Goes
  <2>7. QED
    BY <1>7, <2>1, <2>2, <2>4, <2>5, <2>6 DEF LeafFails
<1>8. ASSUME NEW w \in Workers, StaleResult(w) \/ Crash(w) PROVE TypeOK'
  BY <1>8, JobTypes DEF StaleResult, Crash, GoesIdle, Goes, rows, schedule, history
<1>9. ASSUME NEW w \in Workers, PriorityWaf(w) PROVE TypeOK'
  BY <1>9, TimesAssumption DEF PriorityWaf, rows, history
<1>10. CASE Clock
  <2>1. job' \in [Workers -> Job]
    <3>1. \A j \in Job : j.age < MaxOverrun => [j EXCEPT !.age = @ + 1] \in Job
      BY JobCounts
    <3>2. QED
      BY <1>10, <3>1 DEF Clock
  <2>2. QED
    BY <1>10, <2>1, LeftType DEF Clock
<1>11. ASSUME NEW s \in Scopes, Elsewhere(s) PROVE TypeOK'
  BY <1>11 DEF Elsewhere, IntervalElapses, FailureCooldownElapses, WafForgotten, ManualScrape, rows, history
<1>12. CASE UNCHANGED vars
  BY <1>12 DEF vars, rows, schedule, history
<1>13. QED
  BY <1>1, <1>2, <1>3, <1>4, <1>5, <1>6, <1>7, <1>8, <1>9, <1>10, <1>11, <1>12
     DEF Next, Worker, CampaignStep, LeafAdvances

\* A process that works has a scope, and one that scrapes has a campaign.
LEMMA NextJobShape == IInv /\ [Next]_vars => JobShape'
<1> SUFFICES ASSUME IInv, [Next]_vars PROVE JobShape'
  OBVIOUS
<1> USE DEF IInv, TypeOK, JobShape
<1>1. ASSUME NEW w \in Workers, SelectScope(w) PROVE JobShape'
  <2>1. \E s \in Scopes : job' = [job EXCEPT ![w].scope = s]
    BY <1>1 DEF SelectScope, Resumable, Startable, Ready, ActiveDue, Broadest
  <2>2. pc' = [pc EXCEPT ![w] = "selected"]
    BY <1>1 DEF SelectScope, Goes
  <2>3. QED
    BY <2>1, <2>2 DEF Job
<1>2. ASSUME NEW w \in Workers, ResumeCampaign(w) PROVE JobShape'
  BY <1>2 DEF ResumeCampaign, Scrape, Goes, Active
<1>3. ASSUME NEW w \in Workers, CreateCampaign(w) PROVE JobShape'
  BY <1>3, NoneAssumption DEF CreateCampaign, Scrape, Goes, FreshIds
<1>4. ASSUME NEW w \in Workers, GoesIdle(w) PROVE JobShape'
  BY <1>4 DEF GoesIdle, Goes
<1>5. CASE Clock
  BY <1>5 DEF Clock, Job
<1>6. CASE UNCHANGED <<pc, job>>
  BY <1>6
<1>7. QED
  BY <1>1, <1>2, <1>3, <1>4, <1>5, <1>6
     DEF Next, Worker, CampaignStep, LeafAdvances, DeferCampaign, CreateRefused, LeafSucceeds,
         CampaignCompletes, LeafFails, StaleResult, Crash, PriorityWaf, Elsewhere,
         IntervalElapses, FailureCooldownElapses, WafForgotten, ManualScrape, vars

------------------------------------------------------------------------------
\* What a step may do to a campaign: create it when there is none at all, stage
\* a leaf, split the parent-sized leaf, end with its last leaf, or leave it as it is.
CampaignCreated(s) ==
    /\ NoneActive
    /\ \E id \in Ids : cid' = [cid EXCEPT ![s] = id]
    /\ leaf' = [leaf EXCEPT ![s] = NewLeaves(s)]
    /\ merged' = merged

LeafStaged(s, l) ==
    /\ Active(s) /\ leaf[s][l] = "pending"
    /\ ~Whole([leaf[s] EXCEPT ![l] = "success"])
    /\ cid' = cid
    /\ leaf' = [leaf EXCEPT ![s] = [leaf[s] EXCEPT ![l] = "success"]]
    /\ merged' = merged

FullSplit(s) ==
    /\ Active(s) /\ leaf[s][Full] = "pending"
    /\ cid' = cid
    /\ leaf' = [leaf EXCEPT ![s] = SplitLeaves(s)]
    /\ merged' = merged

CampaignEnded(s, l) ==
    /\ Active(s) /\ leaf[s][l] = "pending"
    /\ Whole([leaf[s] EXCEPT ![l] = "success"])
    /\ cid' = [cid EXCEPT ![s] = None]
    /\ leaf' = [leaf EXCEPT ![s] = NoLeaves]
    /\ merged' = Staged(s) \cup RegionsIn(s, l)

CampaignChange(s) ==
    \/ CampaignCreated(s) \/ FullSplit(s)
    \/ \E l \in LeafKeys : LeafStaged(s, l) \/ CampaignEnded(s, l)

LEMMA StepsOnCampaigns ==
  ASSUME IInv, [Next]_vars
  PROVE  (\E s \in Scopes : CampaignChange(s)) \/ UNCHANGED <<cid, leaf, merged>>
<1> USE DEF IInv, TypeOK, JobShape
<1>1. ASSUME NEW w \in Workers, CreateCampaign(w) PROVE CampaignChange(job[w].scope)
  BY <1>1 DEF CreateCampaign, CampaignChange, CampaignCreated, FreshIds, history
<1>2. ASSUME NEW w \in Workers, Recordable(w)
      PROVE  /\ job[w].scope \in Scopes /\ job[w].leaf \in LeafKeys
             /\ Active(job[w].scope) /\ leaf[job[w].scope][job[w].leaf] = "pending"
  BY <1>2 DEF Recordable, Active, Job
<1>3. ASSUME NEW w \in Workers, LeafSucceeds(w) PROVE CampaignChange(job[w].scope)
  BY <1>2, <1>3 DEF LeafSucceeds, LeavesAfter, CampaignChange, LeafStaged, history
<1>4. ASSUME NEW w \in Workers, NEW empty \in BOOLEAN, CampaignCompletes(w, empty)
      PROVE  CampaignChange(job[w].scope)
  BY <1>2, <1>4 DEF CampaignCompletes, LeavesAfter, CampaignChange, CampaignEnded
<1>5. ASSUME NEW w \in Workers, NEW kind \in FailureKinds, LeafFails(w, kind)
      PROVE  CampaignChange(job[w].scope) \/ UNCHANGED <<cid, leaf, merged>>
  BY <1>2, <1>5 DEF LeafFails, CampaignChange, FullSplit
<1>6. ASSUME NEW w \in Workers, Worker(w)
      PROVE  (\E s \in Scopes : CampaignChange(s)) \/ UNCHANGED <<cid, leaf, merged>>
  <2>1. CASE CreateCampaign(w)
    BY <2>1, <1>1 DEF CreateCampaign
  <2>2. CASE LeafAdvances(w)
    BY <2>2, <1>2, <1>3, <1>4 DEF LeafAdvances, LeafSucceeds, CampaignCompletes
  <2>3. CASE \E kind \in FailureKinds : LeafFails(w, kind)
    BY <2>3, <1>2, <1>5 DEF LeafFails
  <2>4. QED
    BY <1>6, <2>1, <2>2, <2>3
       DEF Worker, CampaignStep, SelectScope, ResumeCampaign, DeferCampaign, CreateRefused,
           StaleResult, Crash, PriorityWaf, rows, history
<1>7. QED
  BY <1>6 DEF Next, Clock, Elsewhere, IntervalElapses, FailureCooldownElapses, WafForgotten,
              ManualScrape, vars, rows, history

\* The shape of the leaves is kept by each of these changes.
LEMMA ChangeKeepsShape ==
  ASSUME IInv, NEW s \in Scopes, CampaignChange(s)
  PROVE  OneActive' /\ \A t \in Scopes : LeafShape(t)'
<1> USE DEF IInv, TypeOK, Active
<1>1. \A t \in Scopes : t # s => cid'[t] = cid[t] /\ leaf'[t] = leaf[t]
  BY DEF CampaignChange, CampaignCreated, LeafStaged, FullSplit, CampaignEnded
<1>2. \A t \in Scopes : t # s => LeafShape(t)'
  BY <1>1 DEF LeafShape
<1>3. CASE CampaignCreated(s)
  <2>1. OneActive' /\ cid'[s] # None /\ leaf'[s] = NewLeaves(s)
    BY <1>1, <1>3, NoneAssumption DEF CampaignCreated, OneActive, NoneActive
  <2>2. LeafShape(s)'
    BY <2>1, CampaignLeavesType, FullIsNoRegion, ScopesAssumption
       DEF LeafShape, NewLeaves, CampaignLeaves, RegionalLeaves, LeafKeys
  <2>3. QED
    BY <1>2, <2>1, <2>2
<1>4. ASSUME NEW l \in LeafKeys, LeafStaged(s, l) PROVE OneActive' /\ LeafShape(s)'
  BY <1>4 DEF LeafStaged, OneActive, LeafShape, Whole, Pending, LeafKeys
<1>5. CASE FullSplit(s)
  <2>1. OneActive' /\ cid'[s] # None /\ leaf'[s] = SplitLeaves(s)
    BY <1>5 DEF FullSplit, OneActive
  <2>2. \A l \in LeafKeys \ {Full} : leaf[s][l] = "absent"
    BY <1>5 DEF FullSplit, LeafShape
  <2>3. LeafShape(s)'
    BY <2>1, <2>2, FullIsNoRegion, ScopesAssumption DEF LeafShape, SplitLeaves, RegionalLeaves, LeafKeys
  <2>4. QED
    BY <1>2, <2>1, <2>3
<1>6. ASSUME NEW l \in LeafKeys, CampaignEnded(s, l) PROVE OneActive' /\ LeafShape(s)'
  BY <1>6 DEF CampaignEnded, OneActive, LeafShape
<1>7. QED
  BY <1>2, <1>3, <1>4, <1>5, <1>6 DEF CampaignChange

\* The invariant is inductive.
LEMMA NextInv == IInv /\ [Next]_vars => IInv'
<1> SUFFICES ASSUME IInv, [Next]_vars PROVE IInv'
  OBVIOUS
<1>1. TypeOK' /\ JobShape'
  BY NextTypeOK, NextJobShape
<1>2. CASE \E s \in Scopes : CampaignChange(s)
  BY <1>1, <1>2, ChangeKeepsShape DEF IInv
<1>3. CASE UNCHANGED <<cid, leaf, merged>>
  BY <1>1, <1>3 DEF IInv, OneActive, LeafShape, Active
<1>4. QED
  BY <1>2, <1>3, StepsOnCampaigns

LEMMA Invariance == Spec => []IInv
  BY InitInv, NextInv, PTL DEF Spec

------------------------------------------------------------------------------
\* Every state has the types TypeOK says.
THEOREM TypeCorrect == Spec => []TypeOK
<1>1. IInv => TypeOK
  BY DEF IInv
<1>2. QED
  BY <1>1, Invariance, PTL

\* There is always a next leaf to scrape: no campaign is left finished but
\* unfinalized, in whatever order processes and crashes come.
THEOREM AlwaysALeafLeft == Spec => []PendingWhileActive
<1>1. IInv => PendingWhileActive
  BY DEF IInv, LeafShape, PendingWhileActive, Pending, LeafKeys
<1>2. QED
  BY <1>1, Invariance, PTL

\* Two campaigns are never active together.
THEOREM OneCampaign == Spec => []OneActive
<1>1. IInv => OneActive
  BY DEF IInv
<1>2. QED
  BY <1>1, Invariance, PTL

\* What the shape of the leaves says of the regions they cover.
LEMMA ShapeCovers ==
  ASSUME IInv, NEW s \in Scopes, Active(s)
  PROVE  \/ /\ leaf[s][Full] = "pending"
            /\ Pending(leaf[s]) = {Full} /\ Success(leaf[s]) = {} /\ Staged(s) = {}
         \/ /\ leaf[s][Full] # "pending"
            /\ Pending(leaf[s]) \cup Success(leaf[s]) = RegionsOf[s]
            /\ Pending(leaf[s]) \cap Success(leaf[s]) = {}
            /\ Full \notin Pending(leaf[s])
            /\ Staged(s) = Success(leaf[s])
<1> USE DEF IInv
<1>1. CASE \A l \in LeafKeys : leaf[s][l] = IF l = Full THEN "pending" ELSE "absent"
  <2>1. Pending(leaf[s]) = {Full} /\ Success(leaf[s]) = {}
    BY <1>1 DEF Pending, Success, LeafKeys
  <2>2. QED
    BY <1>1, <2>1 DEF Staged, LeafKeys
<1>2. CASE /\ leaf[s][Full] \in {"absent", "split"}
           /\ \A l \in LeafKeys \ {Full} :
                 leaf[s][l] \in IF l \in RegionsOf[s] THEN {"pending", "success"} ELSE {"absent"}
  <2>1. /\ Pending(leaf[s]) \cup Success(leaf[s]) = RegionsOf[s]
        /\ Pending(leaf[s]) \cap Success(leaf[s]) = {}
        /\ Full \notin Pending(leaf[s]) /\ Full \notin Success(leaf[s])
    BY <1>2, FullIsNoRegion DEF Pending, Success
  <2>2. Staged(s) = Success(leaf[s])
    BY <2>1 DEF Staged, RegionsIn
  <2>3. QED
    BY <1>2, <2>1, <2>2
<1>3. QED
  BY <1>1, <1>2 DEF LeafShape

\* A region of the scope is either still to scrape or staged, and never both.
THEOREM NoRegionLostOrDoubled == Spec => []ExactCover
<1>1. IInv => ExactCover
  <2> SUFFICES ASSUME IInv, NEW s \in Scopes, Active(s)
               PROVE  /\ UNION {RegionsIn(s, l) : l \in Pending(leaf[s])} = RegionsOf[s] \ Staged(s)
                      /\ \A k, l \in Pending(leaf[s]) :
                            k # l => RegionsIn(s, k) \cap RegionsIn(s, l) = {}
    BY DEF ExactCover
  <2>1. CASE leaf[s][Full] = "pending"
    <3>1. Pending(leaf[s]) = {Full} /\ Staged(s) = {}
      BY <2>1, ShapeCovers
    <3>2. QED
      BY <3>1 DEF RegionsIn
  <2>2. CASE leaf[s][Full] # "pending"
    <3>1. /\ Full \notin Pending(leaf[s])
          /\ Pending(leaf[s]) = RegionsOf[s] \ Staged(s)
      BY <2>2, ShapeCovers
    <3>2. \A l \in Pending(leaf[s]) : RegionsIn(s, l) = {l}
      BY <3>1 DEF RegionsIn
    <3>3. QED
      BY <3>1, <3>2
  <2>3. QED
    BY <2>1, <2>2
<1>2. QED
  BY <1>1, Invariance, PTL

\* What each change of a campaign does to what is staged.
LEMMA StagedAfter ==
  ASSUME IInv, NEW s \in Scopes
  PROVE  /\ CampaignCreated(s) => Staged(s)' = {}
         /\ FullSplit(s) => Staged(s) = {} /\ Staged(s)' = {}
         /\ \A l \in LeafKeys : LeafStaged(s, l) =>
               /\ l \in RegionsOf[s] \ Staged(s) /\ Staged(s)' = Staged(s) \cup {l}
               /\ Staged(s)' # RegionsOf[s]
         /\ \A l \in LeafKeys : CampaignEnded(s, l) =>
               /\ Staged(s)' = {}
               /\ RegionsOf[s] \ Staged(s) = RegionsIn(s, l)
<1> USE DEF IInv, TypeOK
<1>1. ASSUME CampaignCreated(s) PROVE Staged(s)' = {}
  BY <1>1 DEF CampaignCreated, NewLeaves, Staged, Success
<1>2. ASSUME FullSplit(s) PROVE Staged(s) = {} /\ Staged(s)' = {}
  <2>1. Staged(s) = {} /\ Success(leaf[s]) = {}
    BY <1>2, ShapeCovers DEF FullSplit
  <2>2. Success(leaf'[s]) = {}
    BY <1>2, <2>1 DEF FullSplit, SplitLeaves, Success
  <2>3. QED
    BY <2>1, <2>2 DEF Staged
<1>3. ASSUME NEW l \in LeafKeys, LeafStaged(s, l)
      PROVE  /\ l \in RegionsOf[s] \ Staged(s) /\ Staged(s)' = Staged(s) \cup {l}
             /\ Staged(s)' # RegionsOf[s]
  <2>1. l \in Pending(leaf[s]) /\ Active(s)
    BY <1>3 DEF LeafStaged, Pending
  <2>2. PICK k \in Pending(leaf[s]) : k # l
    BY <1>3 DEF LeafStaged, Whole, Pending
  <2>3. /\ Pending(leaf[s]) = RegionsOf[s] \ Staged(s)
        /\ Staged(s) = Success(leaf[s]) /\ l # Full
    BY <2>1, <2>2, ShapeCovers
  <2>4. Success(leaf'[s]) = Success(leaf[s]) \cup {l}
    BY <1>3, <2>1 DEF LeafStaged, Success
  <2>5. Full \notin Success(leaf[s])
    BY <2>1, <2>3, FullIsNoRegion, ShapeCovers
  <2>6. Staged(s)' = Success(leaf'[s])
    BY <2>3, <2>4, <2>5 DEF Staged, RegionsIn
  <2>7. QED
    BY <2>1, <2>2, <2>3, <2>4, <2>6
<1>4. ASSUME NEW l \in LeafKeys, CampaignEnded(s, l)
      PROVE  Staged(s)' = {} /\ RegionsOf[s] \ Staged(s) = RegionsIn(s, l)
  <2>1. Staged(s)' = {}
    BY <1>4 DEF CampaignEnded, NoLeaves, Staged, Success
  <2>2. Pending(leaf[s]) = {l} /\ Active(s)
    BY <1>4 DEF CampaignEnded, Whole, Pending
  <2>3. RegionsOf[s] \ Staged(s) = RegionsIn(s, l)
    <3>1. CASE leaf[s][Full] = "pending"
      BY <2>2, <3>1, ShapeCovers DEF RegionsIn
    <3>2. CASE leaf[s][Full] # "pending"
      <4>1. Full # l /\ {l} = RegionsOf[s] \ Staged(s)
        BY <2>2, <3>2, ShapeCovers
      <4>2. QED
        BY <4>1 DEF RegionsIn
    <3>3. QED
      BY <3>1, <3>2
  <2>4. QED
    BY <2>1, <2>3
<1>5. QED
  BY <1>1, <1>2, <1>3, <1>4

\* The other scopes are left alone.
LEMMA OthersKept ==
  ASSUME NEW s \in Scopes, CampaignChange(s), TypeOK, NEW t \in Scopes, t # s
  PROVE  cid'[t] = cid[t] /\ leaf'[t] = leaf[t] /\ Staged(t)' = Staged(t)
<1>1. cid'[t] = cid[t] /\ leaf'[t] = leaf[t]
  BY DEF CampaignChange, CampaignCreated, LeafStaged, FullSplit, CampaignEnded, TypeOK
<1>2. QED
  BY <1>1 DEF Staged, Success

\* No step takes a staged leaf back while its campaign lasts.
THEOREM StagedLeavesSurvive == Spec => StagedLeafKept
<1>1. ASSUME IInv, [Next]_vars, NEW s \in Scopes, Active(s), cid'[s] = cid[s]
      PROVE  Staged(s) \subseteq Staged(s)'
  <2>1. CASE UNCHANGED <<cid, leaf, merged>>
    BY <2>1 DEF Staged, Success
  <2>2. ASSUME NEW t \in Scopes, CampaignChange(t), t # s PROVE Staged(s) \subseteq Staged(s)'
    BY <1>1, <2>2, OthersKept DEF IInv
  <2>3. CASE CampaignChange(s)
    <3>1. ~CampaignCreated(s)
      BY <1>1 DEF CampaignCreated, NoneActive
    <3>2. \A l \in LeafKeys : ~CampaignEnded(s, l)
      BY <1>1 DEF CampaignEnded, Active, IInv, TypeOK
    <3>3. QED
      BY <1>1, <2>3, <3>1, <3>2, StagedAfter DEF CampaignChange
  <2>4. QED
    BY <1>1, <2>1, <2>2, <2>3, StepsOnCampaigns
<1>2. IInv /\ [Next]_vars =>
        [\A s \in Scopes : Active(s) /\ cid'[s] = cid[s] => Staged(s) \subseteq Staged(s)']_vars
  BY <1>1
<1>3. QED
  BY <1>2, Invariance, PTL DEF Spec, StagedLeafKept

(***************************************************************************)
(* The refinement.  Open, Gather and Publish are what creating a campaign, *)
(* staging a leaf and ending the campaign do; everything else, the split   *)
(* included, leaves the collection as it is.                               *)
(***************************************************************************)
LEMMA InitCollects == Init => Collection!Init
  BY DEF Init, Collection!Init, Active, Staged, Success, NoLeaves

LEMMA StepCollects == IInv /\ [Next]_vars => [Collection!Next]_Collection!vars
<1> DEFINE open == {s \in Scopes : Active(s)}
           gathered == [s \in Scopes |-> Staged(s)]
<1> SUFFICES ASSUME IInv, [Next]_vars
             PROVE  Collection!Next \/ (open' = open /\ gathered' = gathered /\ merged' = merged)
  BY DEF Collection!vars
<1>1. CASE UNCHANGED <<cid, leaf, merged>>
  BY <1>1 DEF Active, Staged, Success
<1>2. ASSUME NEW s \in Scopes, CampaignChange(s)
      PROVE  Collection!Next \/ (open' = open /\ gathered' = gathered /\ merged' = merged)
  <2>1. \A t \in Scopes : t # s => Staged(t)' = Staged(t) /\ (Active(t)' <=> Active(t))
    BY <1>2, OthersKept DEF IInv, Active
  <2>2. CASE CampaignCreated(s)
    <3>1. open = {} /\ open' = {s}
      BY <2>1, <2>2, NoneAssumption DEF CampaignCreated, NoneActive, Active, IInv, TypeOK
    <3>2. Staged(s) = {}
      BY <2>2 DEF CampaignCreated, NoneActive, IInv, LeafShape, NoLeaves, Staged, Success
    <3>3. gathered' = gathered
      BY <2>1, <2>2, <3>2, StagedAfter
    <3>4. Collection!Open(s)
      BY <2>2, <3>1, <3>3 DEF CampaignCreated, Collection!Open
    <3>5. QED
      BY <3>4 DEF Collection!Next
  <2>3. CASE FullSplit(s)
    <3>1. open' = open
      BY <2>3 DEF FullSplit, Active
    <3>2. gathered' = gathered
      BY <2>1, <2>3, StagedAfter
    <3>3. QED
      BY <2>3, <3>1, <3>2 DEF FullSplit
  <2>4. ASSUME NEW l \in LeafKeys, LeafStaged(s, l) PROVE Collection!Gather(s)
    <3>1. open' = open /\ s \in open
      BY <2>4 DEF LeafStaged, Active
    <3>2. /\ l \in RegionsOf[s] \ Staged(s) /\ Staged(s)' = Staged(s) \cup {l}
          /\ Staged(s)' # RegionsOf[s]
      BY <2>4, StagedAfter
    <3>3. gathered' = [gathered EXCEPT ![s] = @ \cup {l}]
      BY <2>1, <3>2
    <3>4. /\ {l} \in Collection!Pieces(s)
          /\ {l} \subseteq Collection!Missing(s)
          /\ {l} # Collection!Missing(s)
      BY <3>1, <3>2, ShapeCovers DEF Collection!Pieces, Collection!Missing
    <3>5. QED
      BY <2>4, <3>1, <3>3, <3>4 DEF LeafStaged, Collection!Gather
  <2>5. ASSUME NEW l \in LeafKeys, CampaignEnded(s, l) PROVE Collection!Publish(s)
    <3>1. open' = {} /\ s \in open
      BY <2>1, <2>5 DEF CampaignEnded, Active, IInv, OneActive, TypeOK
    <3>2. Staged(s)' = {} /\ RegionsOf[s] \ Staged(s) = RegionsIn(s, l)
      BY <2>5, StagedAfter
    <3>3. gathered' = [gathered EXCEPT ![s] = {}]
      BY <2>1, <3>2
    <3>4. l = Full \/ l \in RegionsOf[s]
      BY <2>5, <3>2, FullIsNoRegion DEF RegionsIn
    <3>5. Collection!Missing(s) \in Collection!Pieces(s)
      BY <3>2, <3>4 DEF Collection!Pieces, Collection!Missing, RegionsIn
    <3>6. Staged(s) \subseteq RegionsOf[s]
      BY <2>5, ShapeCovers DEF CampaignEnded
    <3>7. merged' = RegionsOf[s]
      BY <2>5, <3>2, <3>6 DEF CampaignEnded
    <3>8. QED
      BY <3>1, <3>3, <3>5, <3>7 DEF Collection!Publish
  <2>6. QED
    BY <1>2, <2>2, <2>3, <2>4, <2>5 DEF CampaignChange, Collection!Next
<1>3. QED
  BY <1>1, <1>2, StepsOnCampaigns

\* The campaign rows, history implement the abstract collection of a scope.
THEOREM CampaignsCollectScopes == Spec => CollectsWholeScopes
  BY InitCollects, StepCollects, Invariance, PTL DEF Spec, CollectsWholeScopes, Collection!Spec

\* Unless the command line scrapes a broad scope directly, last_success_at of a
\* broad scope advances only with the end of its own, complete campaign.
THEOREM FreshnessIsEarned ==
  "manual_scrape" \notin Disturbances => (Spec => FreshOnlyWhenWhole)
<1> SUFFICES ASSUME "manual_scrape" \notin Disturbances PROVE Spec => FreshOnlyWhenWhole
  OBVIOUS
<1> DEFINE Earned(s) ==
      /\ Active(s) /\ cid'[s] = None
      /\ \E w \in Workers :
            /\ job[w].id = cid[s]
            /\ Staged(s) \cup RegionsIn(s, job[w].leaf) = RegionsOf[s]
<1>1. ASSUME IInv, [Next]_vars, NEW s \in due \ due' PROVE Earned(s)
  <2>1. PICK w \in Workers, empty \in BOOLEAN : CampaignCompletes(w, empty)
    BY <1>1
       DEF Next, Worker, CampaignStep, LeafAdvances, LeafSucceeds, LeafFails, SelectScope,
           ResumeCampaign, DeferCampaign, CreateCampaign, CreateRefused, StaleResult, Crash,
           PriorityWaf, Clock, Elsewhere, IntervalElapses, FailureCooldownElapses,
           WafForgotten, ManualScrape, schedule, history, vars
  <2>2. s = job[w].scope /\ s \in Scopes
    BY <1>1, <2>1 DEF CampaignCompletes, Freshened, IInv, TypeOK
  <2>3. job[w].id = cid[s] /\ job[w].leaf \in LeafKeys /\ cid[s] # None
    BY <1>1, <2>1, <2>2 DEF CampaignCompletes, Recordable, IInv, TypeOK, JobShape, Job
  <2>4. CampaignEnded(s, job[w].leaf)
    BY <2>1, <2>2, <2>3 DEF CampaignCompletes, Recordable, LeavesAfter, CampaignEnded, Active
  <2>5. RegionsOf[s] \ Staged(s) = RegionsIn(s, job[w].leaf)
    BY <1>1, <2>2, <2>3, <2>4, StagedAfter
  <2>6. Staged(s) \subseteq RegionsOf[s]
    BY <1>1, <2>2, <2>4, ShapeCovers DEF CampaignEnded
  <2>7. cid'[s] = None
    BY <1>1, <2>2, <2>4 DEF CampaignEnded, IInv, TypeOK
  <2>8. QED
    BY <2>2, <2>3, <2>5, <2>6, <2>7 DEF Active
<1>2. IInv /\ [Next]_vars => [\A s \in due \ due' : Earned(s)]_vars
  BY <1>1
<1>3. QED
  BY <1>2, Invariance, PTL DEF Spec, FreshOnlyWhenWhole

------------------------------------------------------------------------------
(***************************************************************************)
(* WAF pauses, for one process.  The pause a challenge calls for is never  *)
(* longer than what is left until next_attempt_at, and is over while a     *)
(* leaf is being scraped, so that neither its success nor another failure  *)
(* cuts it short; and while a scope is selected, no challenge is fresh.    *)
(***************************************************************************)
PauseInv ==
    /\ \A s \in Scopes : embargo[s] <= wait[s] /\ (~Active(s) => embargo[s] = 0)
    /\ \A w \in Workers : /\ pc[w] = "selected" => quiet = 0
                          /\ pc[w] = "scraping" => embargo[job[w].scope] = 0

LEMMA NextPauseInv ==
  ASSUME \A v, w \in Workers : v = w, IInv, PauseInv, [Next]_vars
  PROVE  PauseInv'
<1> USE DEF IInv, TypeOK, JobShape, PauseInv
<1>1. ASSUME NEW w \in Workers, SelectScope(w) PROVE PauseInv'
  BY <1>1 DEF SelectScope, Goes, Resumable, Startable, InWafCooldown, rows, schedule, history, Active
<1>2. ASSUME NEW w \in Workers, ResumeCampaign(w) PROVE PauseInv'
  <2>1. job[w].scope \in Scopes /\ embargo[job[w].scope] = 0
    BY <1>2 DEF ResumeCampaign
  <2>2. job'[w].scope = job[w].scope /\ pc'[w] = "scraping"
    BY <1>2 DEF ResumeCampaign, Scrape, Goes
  <2>3. QED
    BY <1>2, <2>1, <2>2 DEF ResumeCampaign, rows, schedule, history, Active
<1>3. ASSUME NEW w \in Workers, CreateCampaign(w) PROVE PauseInv'
  <2>1. job[w].scope \in Scopes /\ embargo[job[w].scope] = 0
    BY <1>3 DEF CreateCampaign
  <2>2. job'[w].scope = job[w].scope /\ pc'[w] = "scraping"
    BY <1>3 DEF CreateCampaign, Scrape, Goes
  <2>3. \A s \in Scopes : embargo[s] = 0
    BY <1>3 DEF CreateCampaign, NoneActive
  <2>4. wait' \in [Scopes -> Nat] /\ embargo' = embargo
    BY <1>3, NextTypeOK DEF CreateCampaign, history
  <2>5. QED
    BY <1>3, <2>1, <2>2, <2>3, <2>4 DEF CreateCampaign, schedule, history
<1>4. ASSUME NEW w \in Workers, GoesIdle(w), UNCHANGED <<rows, history>> PROVE PauseInv'
  BY <1>4 DEF history, GoesIdle, Goes, rows, history, Active
<1>5. ASSUME NEW w \in Workers, LeafSucceeds(w) PROVE PauseInv'
  <2>1. embargo[job[w].scope] = 0 /\ job[w].scope \in Scopes
    BY <1>5 DEF LeafSucceeds, Recordable
  <2>2. wait' \in [Scopes -> Nat]
    BY NextTypeOK
  <2>3. \A s \in Scopes : s # job[w].scope => wait'[s] = wait[s]
    BY <1>5 DEF LeafSucceeds
  <2>4. pc'[w] = "idle" /\ embargo' = embargo /\ cid' = cid
    BY <1>5 DEF LeafSucceeds, GoesIdle, Goes, history
  <2>5. QED
    BY <2>1, <2>2, <2>3, <2>4 DEF Active
<1>6. ASSUME NEW w \in Workers, NEW empty \in BOOLEAN, CampaignCompletes(w, empty) PROVE PauseInv'
  BY <1>6 DEF CampaignCompletes, Recordable, GoesIdle, Goes, Active
<1>7. ASSUME NEW w \in Workers, NEW kind \in FailureKinds, LeafFails(w, kind) PROVE PauseInv'
  <2> DEFINE s == job[w].scope
  <2>1. embargo[s] = 0 /\ s \in Scopes /\ Active(s)
    BY <1>7 DEF LeafFails, Recordable, Active
  <2>2. wait' \in [Scopes -> Nat] /\ embargo' \in [Scopes -> Nat]
    BY NextTypeOK
  <2>3. \A t \in Scopes : t # s => wait'[t] = wait[t] /\ embargo'[t] = embargo[t]
    BY <1>7 DEF LeafFails
  <2>4. embargo'[s] <= wait'[s]
    <3>1. CASE kind = "waf"
      <4>1. embargo'[s] = wait'[s]
        BY <1>7, <2>1, <3>1 DEF LeafFails, RestAfter
      <4>2. QED
        BY <2>1, <2>2, <4>1
    <3>2. CASE kind # "waf"
      BY <1>7, <2>1, <2>2, <3>2 DEF LeafFails
    <3>3. QED
      BY <3>1, <3>2
  <2>5. pc'[w] = "idle" /\ cid' = cid
    BY <1>7 DEF LeafFails, GoesIdle, Goes
  <2>6. QED
    BY <2>1, <2>2, <2>3, <2>4, <2>5 DEF Active
<1>8. ASSUME NEW w \in Workers, PriorityWaf(w) PROVE PauseInv'
  BY <1>8 DEF PriorityWaf, rows, history, Active
<1>9. CASE Clock
  <2>1. \A s \in Scopes : /\ wait'[s] = Left(wait[s], 1) /\ embargo'[s] = Left(embargo[s], 1)
                          /\ cid'[s] = cid[s]
    BY <1>9 DEF Clock
  <2>2. \A w \in Workers : /\ pc'[w] = pc[w] /\ pc[w] # "selected"
                           /\ job'[w].scope = job[w].scope
    BY <1>9 DEF Clock, Job
  <2>3. QED
    BY <2>1, <2>2 DEF Left, Active
<1>10. ASSUME NEW s \in Scopes, Elsewhere(s) PROVE PauseInv'
  BY <1>10 DEF Elsewhere, IntervalElapses, FailureCooldownElapses, WafForgotten, ManualScrape,
               rows, history, Active
<1>11. CASE UNCHANGED vars
  BY <1>11 DEF vars, rows, schedule, history, Active
<1>12. QED
  BY <1>1, <1>2, <1>3, <1>4, <1>5, <1>6, <1>7, <1>8, <1>9, <1>10, <1>11
     DEF Next, Worker, CampaignStep, LeafAdvances, DeferCampaign, CreateRefused, StaleResult, Crash

\* One process never sends a broad request within the pause that the last WAF
\* challenge called for, restarts included.
THEOREM PausesAreKept == (\A v, w \in Workers : v = w) => (Spec => WafPauseKept)
<1> SUFFICES ASSUME \A v, w \in Workers : v = w PROVE Spec => WafPauseKept
  OBVIOUS
<1>1. Init => PauseInv
  BY DEF Init, PauseInv
<1>2. IInv /\ PauseInv /\ [Next]_vars => PauseInv'
  BY NextPauseInv
<1>3. IInv /\ PauseInv /\ [Next]_vars =>
        [\A w \in Workers : pc[w] = "selected" /\ pc'[w] = "scraping"
            => quiet = 0 /\ embargo[job[w].scope] = 0]_vars
  <2> SUFFICES ASSUME IInv, PauseInv, [Next]_vars,
                      NEW w \in Workers, pc[w] = "selected", pc'[w] = "scraping"
               PROVE  quiet = 0 /\ embargo[job[w].scope] = 0
    OBVIOUS
  <2>1. quiet = 0 /\ job[w].scope \in Scopes
    BY DEF PauseInv, IInv, JobShape
  <2>2. ResumeCampaign(w) \/ CreateCampaign(w)
    BY DEF Next, Worker, CampaignStep, LeafAdvances, LeafSucceeds, CampaignCompletes, LeafFails,
           SelectScope, DeferCampaign, CreateRefused, StaleResult, Crash, PriorityWaf, Clock,
           Elsewhere, IntervalElapses, FailureCooldownElapses, WafForgotten, ManualScrape,
           Goes, GoesIdle, Recordable, vars, IInv, TypeOK
  <2>3. QED
    BY <2>1, <2>2 DEF ResumeCampaign, CreateCampaign, PauseInv, IInv, TypeOK
<1>4. QED
  BY <1>1, <1>2, <1>3, Invariance, PTL DEF Spec, WafPauseKept
=============================================================================
