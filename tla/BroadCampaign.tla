---------------------------- MODULE BroadCampaign ----------------------------
(***************************************************************************)
(* The broad phase: a resumable campaign that collects one broad scope     *)
(* leaf by leaf (workflows/broad_scrape_campaign.py), its rows             *)
(* (storage/broad_scrape_campaigns.py), and the choice of the scope a tick *)
(* works on (workflows/run_due_scopes.py, phase "broad").                  *)
(*                                                                         *)
(* An action is one database transaction of a process together with the    *)
(* code between it and the next one; a process that dies in between loses  *)
(* nothing but what it held in memory.  Times are kept as what is left of  *)
(* them, in units of one scheduler tick, so next_attempt_at is wait[s] and *)
(* a time that has passed is 0.                                            *)
(***************************************************************************)
EXTENDS Naturals

CONSTANTS
    Scopes,         \* enabled scopes whose site_filter names no region
    RegionsOf,      \* RegionsOf[s]: positions in REGION_FILTERS of s's regions
    Workers,        \* processes that run the broad phase
    Runners,        \* those of them that tick for ever: the home runner
    Ids,            \* campaign ids
    None,           \* no scope, no campaign
    LeafDelays,     \* ticks between two leaves
    SplitCooldown, FailureCooldown,   \* ticks before a retry
    WafInitial, WafMax,               \* first and longest pause after a WAF challenge
    MaxChallenges,  \* bound: challenges after which the pause is WafMax anyway
    MaxOverrun,     \* bound: ticks a leaf's scrape is counted to last
    Disturbances    \* which of "manual_scrape", "priority_waf" happen

ASSUME ScopesAssumption ==
    \A s \in Scopes : RegionsOf[s] # {} /\ RegionsOf[s] \subseteq Nat \ {0}
ASSUME RunnersAssumption == Runners \subseteq Workers
ASSUME NoneAssumption == None \notin Scopes /\ None \notin Ids
ASSUME TimesAssumption ==
    /\ LeafDelays \subseteq Nat
    /\ {SplitCooldown, FailureCooldown, WafInitial, WafMax} \subseteq Nat
    /\ {MaxChallenges, MaxOverrun} \subseteq Nat
ASSUME PauseAssumption == WafInitial * (2 ^ MaxChallenges) >= WafMax

VARIABLES
    \* The active row of broad_scrape_campaigns of each scope, and its leaves.
    cid,            \* id of the active campaign, None when there is none
    leaf,           \* leaf[s][l]: status of leaf l, "absent" when it has no row
    wait,           \* ticks until next_attempt_at
    challenges,     \* waf_challenge_count
    \* What the scheduler derives from scrape_scopes and scrape_runs.
    due,            \* scopes whose interval since last_success_at has elapsed
    cooling,        \* scopes with a newer failed attempt in its retry cooldown
    wafScopes,      \* scopes with a WAF challenge in the last 30 days
    quiet,          \* ticks left of the 24 hours after the last WAF challenge
    \* The processes.
    pc,             \* "idle", "selected" or "scraping"
    job,            \* the scope, campaign and leaf a process works on
    \* History.
    embargo,        \* ticks left of the pause the last WAF challenge called for
    merged          \* the regions of the last campaign result that was merged

rows     == <<cid, leaf, wait, challenges>>
schedule == <<due, cooling, wafScopes, quiet>>
history  == <<embargo, merged>>
vars     == <<rows, schedule, pc, job, history>>

Full       == 0     \* the leaf_key __full__, of ordinal 0
LeafKeys   == {Full} \cup UNION {RegionsOf[s] : s \in Scopes}
LeafStatus == {"absent", "pending", "success", "split"}
NoLeaves   == [l \in LeafKeys |-> "absent"]

Job     == [scope : Scopes \cup {None}, id : Ids \cup {None}, leaf : LeafKeys,
            challenges : 0..MaxChallenges, age : 0..MaxOverrun]
IdleJob == [scope |-> None, id |-> None, leaf |-> Full, challenges |-> 0, age |-> 0]

TypeOK ==
    /\ cid \in [Scopes -> Ids \cup {None}]
    /\ leaf \in [Scopes -> [LeafKeys -> LeafStatus]]
    /\ wait \in [Scopes -> Nat]
    /\ challenges \in [Scopes -> 0..MaxChallenges]
    /\ due \subseteq Scopes /\ cooling \subseteq Scopes /\ wafScopes \subseteq Scopes
    /\ quiet \in Nat
    /\ pc \in [Workers -> {"idle", "selected", "scraping"}]
    /\ job \in [Workers -> Job]
    /\ embargo \in [Scopes -> Nat]
    /\ merged \subseteq LeafKeys

Active(s)     == cid[s] # None
Pending(f)    == {l \in LeafKeys : f[l] = "pending"}
Success(f)    == {l \in LeafKeys : f[l] = "success"}
RegionsIn(s, l) == IF l = Full THEN RegionsOf[s] ELSE {l}
Staged(s)     == UNION {RegionsIn(s, l) : l \in Success(leaf[s])}

\* What is left of a rest of d ticks when the step that calls for it is e ticks old.
Left(d, e) == IF d > e THEN d - e ELSE 0
------------------------------------------------------------------------------
(***************************************************************************)
(* Pure parts of the code.                                                 *)
(***************************************************************************)
\* min(WafInitial * 2^n, WafMax), the pause after the (n+1)-th challenge.
WafPause(n) ==
    LET doubled == WafInitial * (2 ^ n) IN
    IF doubled \in 0..WafMax THEN doubled ELSE WafMax

\* How long the campaign rests after a failure.
\* Mutant: a challenge is treated as any other failure.
RestAfterAnyFailure(kind, n) ==
    IF kind = "deadline" THEN SplitCooldown ELSE FailureCooldown
RestAfter(kind, n) ==
    CASE kind = "waf"      -> WafPause(n)
      [] kind = "deadline" -> SplitCooldown
      [] OTHER             -> FailureCooldown

\* The leaves of the regional fallback, one per region of the scope.
\* Mutant: the loop over the regions leaves out the first one.
RegionalLeavesButFirst(s) ==
    {r \in RegionsOf[s] : \E q \in RegionsOf[s] : q < r}
RegionalLeaves(s) == RegionsOf[s]

CampaignLeaves(s) == IF s \in wafScopes THEN RegionalLeaves(s) ELSE {Full}

NewLeaves(s) ==
    [l \in LeafKeys |-> IF l \in CampaignLeaves(s) THEN "pending" ELSE "absent"]

\* A failed __full__ leaf is replaced by the regional leaves.
SplitLeaves(s) ==
    [l \in LeafKeys |-> IF l = Full THEN "split"
                        ELSE IF l \in RegionalLeaves(s) THEN "pending" ELSE leaf[s][l]]

IsNextLeaf(s, l) ==
    /\ l \in Pending(leaf[s])
    /\ \A k \in Pending(leaf[s]) : l <= k

\* A due scope whose filter covers another's makes the other wait.
Broadest(S) == {s \in S : ~ \E t \in S : RegionsOf[s] \subseteq RegionsOf[t]
                                          /\ RegionsOf[s] # RegionsOf[t]}
------------------------------------------------------------------------------
Init ==
    /\ cid = [s \in Scopes |-> None]
    /\ leaf = [s \in Scopes |-> NoLeaves]
    /\ wait = [s \in Scopes |-> 0]
    /\ challenges = [s \in Scopes |-> 0]
    /\ due = Scopes
    /\ cooling = {}
    /\ wafScopes = {}
    /\ quiet = 0
    /\ pc = [w \in Workers |-> "idle"]
    /\ job = [w \in Workers |-> IdleJob]
    /\ embargo = [s \in Scopes |-> 0]
    /\ merged = {}

Goes(w, state) == pc' = [pc EXCEPT ![w] = state]

\* The step returns, or fails: nothing of it stays.
GoesIdle(w) == Goes(w, "idle") /\ job' = [job EXCEPT ![w] = IdleJob]

(***************************************************************************)
(* Choosing the scope a tick works on.                                     *)
(***************************************************************************)
ActiveDue == {s \in due : Active(s)}

Ready == due \ (cooling \ ActiveDue)

InWafCooldown == quiet > 0

Resumable == {s \in Ready \cap ActiveDue : ~InWafCooldown /\ wait[s] = 0}

Startable == IF ActiveDue = {} /\ ~InWafCooldown THEN Broadest(Ready) ELSE {}

\* The first of the candidates in the order of read_due_scrape_scopes: any one.
SelectScope(w) ==
    /\ pc[w] = "idle"
    /\ \E s \in IF Resumable # {} THEN Resumable ELSE Startable :
          job' = [job EXCEPT ![w].scope = s]
    /\ Goes(w, "selected")
    /\ UNCHANGED <<rows, schedule, history>>

(***************************************************************************)
(* The first transaction of a campaign step: read the active campaign, or  *)
(* create it; then read its next leaf and send the first request.  Since   *)
(* an active campaign always has a pending leaf (PendingWhileActive), the  *)
(* branch that finalizes a campaign with no leaf left is never taken.      *)
(***************************************************************************)
Scrape(w, s, id, l, n) ==
    /\ Goes(w, "scraping")
    /\ job' = [job EXCEPT ![w] = [scope |-> s, id |-> id, leaf |-> l,
                                  challenges |-> n, age |-> 0]]

ResumeCampaign(w) ==
    LET s == job[w].scope IN
    /\ pc[w] = "selected"
    /\ Active(s)
    /\ wait[s] = 0
    /\ \E l \in LeafKeys : IsNextLeaf(s, l) /\ Scrape(w, s, cid[s], l, challenges[s])
    /\ UNCHANGED <<rows, schedule, history>>

\* Another process has paused the campaign since the scope was selected.
DeferCampaign(w) ==
    LET s == job[w].scope IN
    /\ pc[w] = "selected"
    /\ Active(s)
    /\ wait[s] > 0
    /\ GoesIdle(w)
    /\ UNCHANGED <<rows, schedule, history>>

\* Campaign ids come from a sequence: an id a process still holds is not given again.
FreshIds == Ids \ ({cid[s] : s \in Scopes} \cup {job[w].id : w \in Workers})

\* The partial unique index on active campaigns: one, of whatever scope.
NoneActive == \A t \in Scopes : ~Active(t)

CreateCampaign(w) ==
    LET s == job[w].scope IN
    /\ pc[w] = "selected"
    /\ ~Active(s)
    /\ NoneActive
    /\ \E id \in FreshIds, l \in CampaignLeaves(s) :
          /\ \A k \in CampaignLeaves(s) : l <= k
          /\ cid' = [cid EXCEPT ![s] = id]
          /\ leaf' = [leaf EXCEPT ![s] = NewLeaves(s)]
          /\ wait' = [wait EXCEPT ![s] = 0]
          /\ challenges' = [challenges EXCEPT ![s] = 0]
          /\ Scrape(w, s, id, l, 0)
    /\ UNCHANGED <<schedule, history>>

\* The insert violates the index: the step fails before its first request.
CreateRefused(w) ==
    LET s == job[w].scope IN
    /\ pc[w] = "selected"
    /\ ~Active(s)
    /\ ~NoneActive
    /\ GoesIdle(w)
    /\ UNCHANGED <<rows, schedule, history>>

(***************************************************************************)
(* The end of a leaf's scrape, and the transaction that records it.        *)
(***************************************************************************)
\* The update of the leaf finds its pending row.
Recordable(w) ==
    LET s == job[w].scope IN
    /\ pc[w] = "scraping"
    /\ cid[s] = job[w].id
    /\ leaf[s][job[w].leaf] = "pending"

LeavesAfter(w) == [leaf[job[w].scope] EXCEPT ![job[w].leaf] = "success"]

\* completed = total: of the leaves not split, none is pending.
\* Mutant: leaves that were never tried are not counted.
WholeIfAnySuccess(f) == Success(f) # {}
\* Mutant: the total counts split leaves too.
WholeCountingSplit(f) == \A l \in LeafKeys : f[l] \in {"absent", "success"}
Whole(f) == Pending(f) = {}

LeafSucceeds(w) ==
    LET s == job[w].scope IN
    /\ Recordable(w)
    /\ ~Whole(LeavesAfter(w))
    /\ leaf' = [leaf EXCEPT ![s] = LeavesAfter(w)]
    /\ \E d \in LeafDelays : wait' = [wait EXCEPT ![s] = Left(d, job[w].age)]
    /\ GoesIdle(w)
    /\ UNCHANGED <<cid, challenges, schedule, history>>

\* Mutant: completion also freshens the scopes the result covers.
FreshenedByCovering(s) == {t \in Scopes : RegionsOf[t] \subseteq RegionsOf[s]}
Freshened(s) == {s}

\* The last leaf: its success, the merge of every staged leaf, the parent's
\* run and the end of the campaign commit together.  An empty result closes
\* the run as suspicious, which advances nothing.
CampaignCompletes(w, empty) ==
    LET s == job[w].scope IN
    /\ Recordable(w)
    /\ Whole(LeavesAfter(w))
    /\ cid' = [cid EXCEPT ![s] = None]
    /\ leaf' = [leaf EXCEPT ![s] = NoLeaves]
    /\ wait' = [wait EXCEPT ![s] = 0]
    /\ challenges' = [challenges EXCEPT ![s] = 0]
    /\ due' = IF empty THEN due ELSE due \ Freshened(s)
    /\ cooling' = IF empty THEN cooling \cup {s} ELSE cooling \ {s}
    /\ embargo' = [embargo EXCEPT ![s] = 0]
    /\ merged' = Staged(s) \cup RegionsIn(s, job[w].leaf)
    /\ GoesIdle(w)
    /\ UNCHANGED <<wafScopes, quiet>>

\* The scrape raises, or recording or merging its result does; whatever was
\* written is rolled back and the failure is recorded as a run and on the leaf.
LeafFails(w, kind) ==
    LET s    == job[w].scope
        waf  == kind = "waf"
        rest == Left(RestAfter(kind, job[w].challenges), job[w].age)
    IN
    /\ Recordable(w)
    /\ leaf' = IF job[w].leaf = Full /\ kind \in {"waf", "deadline"}
               THEN [leaf EXCEPT ![s] = SplitLeaves(s)] ELSE leaf
    /\ wait' = [wait EXCEPT ![s] = rest]
    /\ cooling' = cooling \cup {s}
    /\ IF waf
       THEN /\ challenges' = [challenges EXCEPT ![s] =
                                 IF @ < MaxChallenges THEN @ + 1 ELSE @]
            /\ wafScopes' = wafScopes \cup {s}
            /\ quiet' = WafInitial
            /\ embargo' = [embargo EXCEPT ![s] =
                              Left(WafPause(job[w].challenges), job[w].age)]
       ELSE UNCHANGED <<challenges, wafScopes, quiet, embargo>>
    /\ GoesIdle(w)
    /\ UNCHANGED <<cid, due, merged>>

\* Another process has settled the leaf: recording the result raises, and so
\* does recording that failure; both are rolled back.
StaleResult(w) ==
    /\ pc[w] = "scraping"
    /\ ~Recordable(w)
    /\ GoesIdle(w)
    /\ UNCHANGED <<rows, schedule, history>>

\* The process is killed, or loses the database, in the middle of a step.
Crash(w) ==
    /\ pc[w] # "idle"
    /\ GoesIdle(w)
    /\ UNCHANGED <<rows, schedule, history>>

(***************************************************************************)
(* Time, and what the rest of the program does to the same tables.         *)
(***************************************************************************)
\* Statements of one transaction take no time; the scrape of a leaf does.
Clock ==
    /\ \A w \in Workers : pc[w] # "selected"
    /\ wait' = [s \in Scopes |-> Left(wait[s], 1)]
    /\ quiet' = Left(quiet, 1)
    /\ embargo' = [s \in Scopes |-> Left(embargo[s], 1)]
    /\ job' = [w \in Workers |->
                 IF pc[w] = "scraping" /\ job[w].age < MaxOverrun
                 THEN [job[w] EXCEPT !.age = @ + 1] ELSE job[w]]
    /\ UNCHANGED <<cid, leaf, challenges, due, cooling, wafScopes, pc, merged>>

\* Interval, failure cooldown and 30-day memory are much longer than the
\* waits above: each may run out at any time.
IntervalElapses(s) ==
    /\ due' = due \cup {s}
    /\ UNCHANGED <<rows, cooling, wafScopes, quiet, pc, job, history>>

FailureCooldownElapses(s) ==
    /\ cooling' = cooling \ {s}
    /\ UNCHANGED <<rows, due, wafScopes, quiet, pc, job, history>>

WafForgotten(s) ==
    /\ quiet = 0
    /\ wafScopes' = wafScopes \ {s}
    /\ UNCHANGED <<rows, due, cooling, quiet, pc, job, history>>

\* A WAF challenge in the priority phase, which a process ends before its
\* broad phase begins.
PriorityWaf(w) ==
    /\ "priority_waf" \in Disturbances
    /\ pc[w] = "idle"
    /\ quiet' = WafInitial
    /\ UNCHANGED <<rows, due, cooling, wafScopes, pc, job, history>>

\* The command line scrapes s directly (--scope s --persist): its success
\* advances s and every scope s covers, campaign or not.
ManualScrape(s) ==
    LET covered == {t \in Scopes : RegionsOf[t] \subseteq RegionsOf[s]} IN
    /\ "manual_scrape" \in Disturbances
    /\ due' = due \ covered
    /\ cooling' = cooling \ covered
    /\ UNCHANGED <<rows, wafScopes, quiet, pc, job, history>>

CampaignStep(w) ==
    \/ ResumeCampaign(w) \/ DeferCampaign(w)
    \/ CreateCampaign(w) \/ CreateRefused(w)

LeafAdvances(w) ==
    LeafSucceeds(w) \/ \E empty \in BOOLEAN : CampaignCompletes(w, empty)

FailureKinds == {"waf", "deadline", "other"}

Worker(w) ==
    \/ SelectScope(w) \/ CampaignStep(w) \/ LeafAdvances(w)
    \/ \E kind \in FailureKinds : LeafFails(w, kind)
    \/ StaleResult(w) \/ Crash(w) \/ PriorityWaf(w)

Elsewhere(s) ==
    \/ IntervalElapses(s) \/ FailureCooldownElapses(s) \/ WafForgotten(s)
    \/ ManualScrape(s)

Next == Clock \/ (\E w \in Workers : Worker(w)) \/ (\E s \in Scopes : Elsewhere(s))

Spec == Init /\ [][Next]_vars

(***************************************************************************)
(* Fairness.  The home runner ticks for ever and every step a process      *)
(* begins ends, since each request and statement has a timeout (WF).       *)
(* Three assumptions on the environment: the machine does not kill every   *)
(* step before its first request, a site that keeps being asked for a leaf *)
(* delivers it in the end (SF), and the priority phase is not challenged   *)
(* for ever, which would keep the breaker open; without any of them no     *)
(* campaign can end.                                                       *)
(***************************************************************************)
Fairness ==
    /\ WF_vars(Clock)
    /\ \A w \in Workers : WF_vars(CampaignStep(w)) /\ WF_vars(StaleResult(w))
    /\ \A w \in Runners : /\ WF_vars(SelectScope(w))
                          /\ SF_vars(CampaignStep(w))
                          /\ SF_vars(LeafAdvances(w))
    /\ <>[][\A w \in Workers : ~PriorityWaf(w)]_vars

FairSpec == Spec /\ Fairness
------------------------------------------------------------------------------
(***************************************************************************)
(* Properties.                                                             *)
(***************************************************************************)
\* An active campaign always has a leaf left to scrape.  The last success and
\* the merge are one transaction, so no crash, failed merge or second process
\* leaves a campaign whose leaves are all done but which nobody finalizes
\* (run_broad_scrape_campaign_step).
PendingWhileActive == \A s \in Scopes : Active(s) => Pending(leaf[s]) # {}

\* The leaves still to scrape and those already staged make up the scope
\* exactly: a split or a fallback neither drops a region nor collects one
\* that is staged a second time (split_broad_scrape_campaign_leaf).
ExactCover ==
    \A s \in Scopes : Active(s) =>
        /\ UNION {RegionsIn(s, l) : l \in Pending(leaf[s])} = RegionsOf[s] \ Staged(s)
        /\ \A k, l \in Pending(leaf[s]) : k # l => RegionsIn(s, k) \cap RegionsIn(s, l) = {}

\* Two broad campaigns are never active together, whoever created them.
OneActive == \A s, t \in Scopes : Active(s) /\ Active(t) => s = t

\* A staged leaf stays staged until its own campaign ends: no failure, WAF
\* challenge, restart or late result of a second process takes it back.
StagedLeafKept ==
    [][\A s \in Scopes : Active(s) /\ cid'[s] = cid[s] => Staged(s) \subseteq Staged(s)']_vars

\* Only the end of its own campaign makes a broad scope fresh, and only when
\* everything but the leaf that ends it was staged before: no partial campaign
\* and no other scope's campaign advances last_success_at.
FreshOnlyWhenWhole ==
    [][\A s \in due \ due' :
         /\ Active(s) /\ cid'[s] = None
         /\ \E w \in Workers :
               /\ job[w].id = cid[s]
               /\ Staged(s) \cup RegionsIn(s, job[w].leaf) = RegionsOf[s]]_vars

\* No request of a campaign is sent within the pause its last WAF challenge
\* called for, nor within 24 hours of any challenge: true of one process.
WafPauseKept ==
    [][\A w \in Workers : pc[w] = "selected" /\ pc'[w] = "scraping"
          => quiet = 0 /\ embargo[job[w].scope] = 0]_vars

\* The abstract specification: what the campaign rows say of each scope.
Collection == INSTANCE RegionCollection WITH
    open <- {s \in Scopes : Active(s)},
    gathered <- [s \in Scopes |-> Staged(s)],
    published <- merged

\* Every campaign is one collection of the whole scope, published once.
CollectsWholeScopes == Collection!Spec

\* Every campaign ends, however often the runner is restarted, a leaf fails
\* or a challenge pauses it.
CampaignEnds == \A s \in Scopes : Active(s) ~> ~Active(s)
==============================================================================
