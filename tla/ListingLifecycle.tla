--------------------------- MODULE ListingLifecycle ---------------------------
(***************************************************************************)
(* The status of the stored listings under the two kinds of complete       *)
(* results: a direct run of a scope, stored when it ends                   *)
(* (workflows/scrape_and_store.py), and a broad campaign, whose leaves are *)
(* scraped one after the other and merged only when all are done           *)
(* (_finalize_campaign), so that what it stores may be older than what the *)
(* table holds.                                                            *)
(*                                                                         *)
(* One process runs at a time, so a run, a leaf and a merge are each one   *)
(* step, with an instant of its own; a run that fails or is killed stores  *)
(* nothing and is no step at all.  A listing stays in its region and keeps *)
(* its end date.                                                           *)
(***************************************************************************)
EXTENDS Naturals, FiniteSets

CONSTANTS
    Listings,
    RegionOf,       \* RegionOf[l]: position in REGION_FILTERS of l's region
    Auckland,       \* the region of the golden scopes
    IslandOf,       \* IslandOf[r]: the state of region r, for all of REGION_FILTERS
    SouthIsland,
    Golden,         \* the priority scopes, all within Auckland
    Broad,          \* the scopes collected by campaigns
    AllNz,          \* the broad scope of no state
    StateFilter,    \* StateFilter[b]: the state of any other broad scope
    Direct,         \* the scopes that are run directly: Golden, and what an
                    \* operator scrapes by --scope
    Dated,          \* the listings that have an end date
    Earlier,        \* the baselines earlier runs may have left, whose own
                    \* listings are over
    Covered,        \* Covered[s]: the listings within s's site_filter
    Narrower,       \* Narrower[s]: the scopes whose filter contains s's, s too
    Threshold,      \* missing_threshold_runs
    None,
    MaxTime         \* bound: steps in a behaviour

Scopes  == Golden \cup Broad
Regions == DOMAIN IslandOf

\* Who counts missing runs: a direct run of a scope, or a campaign of one.
Sources == (Direct \X {"run"}) \cup (Broad \X {"campaign"})

ASSUME ListingsAssumption ==
    RegionOf \in [Listings -> Regions] /\ Regions \subseteq Nat /\ Dated \subseteq Listings
ASSUME ScopesAssumption ==
    /\ Golden \cap Broad = {}
    /\ Direct \subseteq Scopes
    /\ Earlier \subseteq SUBSET Scopes
    /\ Covered \in [Scopes -> SUBSET Listings]
    /\ Narrower \in [Scopes -> SUBSET Scopes]
    /\ \A g \in Golden : \A l \in Covered[g] : RegionOf[l] = Auckland
ASSUME ThresholdAssumption == Threshold \in [Scopes -> Nat \ {0}]
ASSUME NoneAssumption == None \notin Scopes
ASSUME BoundAssumption == MaxTime \in Nat

VARIABLES
    listing,        \* rows of listings
    baselined,      \* scopes with a last_success_at
    camp,           \* scope of the active regional campaign
    staged,         \* staged[r]: the stored result of leaf r
    ended,          \* listings whose end date has passed
    now,
    \* History, since a listing was last stored as seen.
    marks,          \* marks[l][c]: missing runs that c has counted
    absentAt        \* when complete scrapes of its area, later than last_seen_at,
                    \* did not show it

vars == <<listing, baselined, camp, staged, ended, now, marks, absentAt>>

Time   == 0..MaxTime
Open   == {"active", "missing_once", "missing_confirmed"}
Status == Open \cup {"none", "expired_by_date"}
Row    == [status : Status, misses : Nat, seenAt : Time, appearance : Nat]
NoRow  == [status |-> "none", misses |-> 0, seenAt |-> 0, appearance |-> 0]
Leaf   == [at : Time, seen : SUBSET Listings]

TypeOK ==
    /\ listing \in [Listings -> Row]
    /\ baselined \subseteq Scopes
    /\ camp \in Broad \cup {None}
    /\ staged \in [Regions -> Leaf \cup {None}]
    /\ ended \subseteq Listings
    /\ now \in Time
    /\ marks \in [Listings -> [Sources -> Nat]]
    /\ absentAt \in [Listings -> SUBSET Time]

------------------------------------------------------------------------------
(***************************************************************************)
(* What the storage functions do to one row.                               *)
(***************************************************************************)
\* upsert_listing ignores an observation older than last_seen_at.
\* Mutant: a merge writes over what was stored later.
StaleNever(row, at) == FALSE
Stale(row, at) == row.seenAt > at

\* Mutant: a sighting leaves the missing runs that have been counted.
UpsertedKeepingCount(row, at) ==
    IF row.status = "none"
    THEN [status |-> "active", misses |-> 0, seenAt |-> at, appearance |-> 1]
    ELSE IF Stale(row, at) THEN row
    ELSE [row EXCEPT !.status = "active", !.seenAt = at]
\* upsert_listing.
Upserted(row, at) ==
    IF row.status = "none"
    THEN [status |-> "active", misses |-> 0, seenAt |-> at, appearance |-> 1]
    ELSE IF Stale(row, at) THEN row
    ELSE [status |-> "active", misses |-> 0, seenAt |-> at,
          appearance |-> IF row.status = "missing_confirmed"
                         THEN row.appearance + 1 ELSE row.appearance]

\* Mutant: the second missing run of a listing is the last one.
StatusAfterTwo(misses, threshold) ==
    IF misses >= 2 THEN "missing_confirmed" ELSE "missing_once"
StatusAfter(misses, threshold) ==
    IF misses >= threshold THEN "missing_confirmed" ELSE "missing_once"

\* The rows mark_missing_listings_for_scope updates.  A direct run passes no
\* observed_no_later_than; now, which is no earlier than any sighting, is as good.
\* Mutant: the guard on last_seen_at is left out.
MayBeMissingUnguarded(row, at) == row.status \in {"active", "missing_once"}
MayBeMissing(row, at) == row.status \in {"active", "missing_once"} /\ row.seenAt <= at

MarkedMissing(row, at, threshold) ==
    IF MayBeMissing(row, at)
    THEN [row EXCEPT !.misses = @ + 1, !.status = StatusAfter(row.misses + 1, threshold)]
    ELSE row

\* mark_expired_by_date, the last thing a successful run does to the table.
\* Mutant: it looks at active listings only.
ExpiredIfActive(l, row) ==
    IF l \in ended /\ row.status = "active"
    THEN [row EXCEPT !.status = "expired_by_date"] ELSE row
Expired(l, row) ==
    IF l \in ended /\ row.status \in Open
    THEN [row EXCEPT !.status = "expired_by_date"] ELSE row

------------------------------------------------------------------------------
Init ==
    /\ listing = [l \in Listings |-> NoRow]
    /\ baselined \in Earlier
    /\ camp = None
    /\ staged = [r \in Regions |-> None]
    /\ ended = {}
    /\ now = 0
    /\ marks = [l \in Listings |-> [c \in Sources |-> 0]]
    /\ absentAt = [l \in Listings |-> {}]

\* Every step takes a new instant.
Tick == now < MaxTime /\ now' = now + 1

\* The rows that c stores, and what they add to the history.
Store(c, rows) ==
    /\ listing' = rows
    /\ marks' = [l \in Listings |->
         IF rows[l].misses > listing[l].misses THEN [marks[l] EXCEPT ![c] = @ + 1]
         ELSE IF rows[l].misses = 0 THEN [d \in Sources |-> 0]
         ELSE marks[l]]

\* A complete scrape of now does not show the listings gone.
Absent(gone) ==
    absentAt' = [l \in Listings |->
        {t \in absentAt[l] \cup (IF l \in gone THEN {now} ELSE {}) :
            listing'[l].status # "none" /\ t > listing'[l].seenAt}]

\* A scope's first successful run is its baseline and marks nothing missing.
MarksMissing(s) == s \in baselined

(***************************************************************************)
(* A complete direct run of scope s that shows the listings seen: they are *)
(* stored, then the listings of s it does not show are marked missing, and *)
(* the scopes it covers advance.  A run that shows none is closed as       *)
(* suspicious and changes none of this.                                    *)
(***************************************************************************)
DirectRun(s, seen) ==
    LET found(l) == IF l \in seen THEN Upserted(listing[l], now) ELSE listing[l]
        after(l) == IF MarksMissing(s) /\ l \in Covered[s] \ seen
                    THEN MarkedMissing(found(l), now, Threshold[s]) ELSE found(l)
    IN
    /\ Tick
    /\ seen # {}
    /\ Store(<<s, "run">>, [l \in Listings |-> Expired(l, after(l))])
    /\ Absent(Covered[s] \ seen)
    /\ baselined' = baselined \cup Narrower[s]
    /\ UNCHANGED <<camp, staged, ended>>

(***************************************************************************)
(* Broad campaigns.                                                        *)
(***************************************************************************)
LeavesOf(b) == IF b = AllNz THEN Regions ELSE {r \in Regions : IslandOf[r] = StateFilter[b]}
In(r) == {l \in Listings : RegionOf[l] = r}

\* _missing_evidence_states: the islands in which b may mark listings missing.
\* Mutant: a broad scope may wherever it looks.
EvidenceEverywhere(b) == {IslandOf[r] : r \in LeavesOf(b)}
EvidenceStates(b) == IF b = AllNz THEN {SouthIsland} ELSE {StateFilter[b]}

\* The leaves whose coverage is evidence against what they do not show.
\* Mutant: Auckland is not left to the golden scopes.
EligibleWithAuckland(b) == {r \in LeavesOf(b) : IslandOf[r] \in EvidenceStates(b)}
Eligible(b) == {r \in LeavesOf(b) \ {Auckland} : IslandOf[r] \in EvidenceStates(b)}

\* What record_broad_scrape_leaf_success stores.
Observation(seen) == [at |-> now, seen |-> seen]

\* The pending leaf of lowest ordinal is the one that is scraped next.
IsNextLeaf(b, r) ==
    /\ camp \in {None, b}
    /\ r \in LeavesOf(b) /\ staged[r] = None
    /\ \A q \in LeavesOf(b) : staged[q] = None => r <= q

\* A regional leaf is scraped and staged; others are still to come.
LeafStaged(b, r, seen) ==
    /\ Tick
    /\ IsNextLeaf(b, r)
    /\ \E q \in LeavesOf(b) \ {r} : staged[q] = None
    /\ camp' = b
    /\ staged' = [staged EXCEPT ![r] = Observation(seen)]
    /\ UNCHANGED <<listing, baselined, ended, marks>>
    /\ Absent(In(r) \ seen)

\* The last leaf: every staged observation is stored under the parent scope,
\* with the instant of its leaf; when there is none at all, the parent's run is
\* suspicious.  The campaign ends in the same transaction.
CampaignMerged(b, r, seen) ==
    LET leaves   == [staged EXCEPT ![r] = Observation(seen)]
        leaf(l)  == leaves[RegionOf[l]]
        found(l) == IF RegionOf[l] \in LeavesOf(b) /\ l \in leaf(l).seen
                    THEN Upserted(listing[l], leaf(l).at) ELSE listing[l]
        after(l) == IF MarksMissing(b) /\ RegionOf[l] \in Eligible(b) /\ l \notin leaf(l).seen
                    THEN MarkedMissing(found(l), leaf(l).at, Threshold[b]) ELSE found(l)
        nothing  == \A q \in LeavesOf(b) : leaves[q].seen = {}
    IN
    /\ Tick
    /\ IsNextLeaf(b, r)
    /\ \A q \in LeavesOf(b) \ {r} : staged[q] # None
    /\ Store(<<b, "campaign">>, IF nothing THEN listing ELSE [l \in Listings |-> Expired(l, after(l))])
    /\ baselined' = IF nothing THEN baselined ELSE baselined \cup {b}
    /\ camp' = None
    /\ staged' = [q \in Regions |-> None]
    /\ Absent(In(r) \ seen)
    /\ UNCHANGED ended

\* A campaign that its __full__ leaf completes: stored at once, and no listing
\* is marked missing, since the leaf has no region.
FullMerged(b, seen) ==
    /\ Tick
    /\ camp = None
    /\ seen # {}
    /\ Store(<<b, "campaign">>, [l \in Listings |->
          Expired(l, IF l \in seen THEN Upserted(listing[l], now) ELSE listing[l])])
    /\ baselined' = baselined \cup {b}
    /\ Absent({})
    /\ UNCHANGED <<camp, staged, ended>>

\* The end date of a listing passes.
DatePasses(l) ==
    /\ l \notin ended
    /\ ended' = ended \cup {l}
    /\ UNCHANGED <<listing, baselined, camp, staged, now, marks, absentAt>>

Regional(b) ==
    \E r \in LeavesOf(b) : \E seen \in SUBSET In(r) :
        LeafStaged(b, r, seen) \/ CampaignMerged(b, r, seen)

Next ==
    \/ \E s \in Direct : \E seen \in SUBSET Covered[s] : DirectRun(s, seen)
    \/ \E b \in Broad : Regional(b) \/ \E seen \in SUBSET Covered[b] : FullMerged(b, seen)
    \/ \E l \in Dated : DatePasses(l)

Spec == Init /\ [][Next]_vars
------------------------------------------------------------------------------
(***************************************************************************)
(* Properties.                                                             *)
(***************************************************************************)
\* No listing counts more missing runs than complete scrapes of its area have
\* been without it since it was last seen: evidence older than the last
\* sighting never counts, in whatever order leaves, runs and merges come
\* (mark_missing_listings_for_scope with observed_no_later_than).
MissesAreAbsences ==
    \A l \in Listings :
        listing[l].misses <= Cardinality(absentAt[l])

\* A campaign adds its missing runs to nobody else's: once it has counted against a
\* listing, all the evidence there is comes from its own scope, never from another
\* campaign that overlaps it, from a golden scope or from what an operator has
\* scraped of another (_missing_evidence_states, excluded_missing_regions).
EvidenceHasOneOwner ==
    \A l \in Listings : \A b \in Broad :
        marks[l][<<b, "campaign">>] > 0 =>
            \A c \in Sources : marks[l][c] > 0 => c[1] = b

\* A late merge never takes last_seen_at back to the instant of its leaf when a
\* faster scope has seen the listing since (upsert_listing).
LaterSightingWins ==
    [][\A l \in Listings :
         listing[l].status # "none" => listing'[l].seenAt >= listing[l].seenAt]_vars

\* The run that confirms a listing missing is one of a scope that had been
\* baselined before and whose own threshold the count has reached, whichever
\* scopes with other thresholds have added to it (missing_threshold_runs).
ConfirmedByThreshold ==
    [][\A l \in Listings :
         listing[l].status # "missing_confirmed" /\ listing'[l].status = "missing_confirmed"
         => \E c \in Sources :
               /\ marks'[l][c] > marks[l][c]
               /\ c[1] \in baselined /\ listing'[l].misses >= Threshold[c[1]]]_vars

\* Whatever a run stores, it leaves no listing open whose end date has passed:
\* neither one it has seen again nor one another scope had marked missing.
EndedIsClosed ==
    [][listing' # listing => \A l \in ended : listing'[l].status \notin Open]_vars

\* docs/agent-context/decisions-and-tradeoffs.md: "Every staged observation
\* keeps its leaf timestamp so delayed broad data cannot overwrite fresher
\* golden data."  A sighting never clears the evidence of a complete scrape
\* that is more recent than it.
DelayedDataNeverReopens ==
    [][\A l \in Listings :
         listing[l].misses > 0 /\ listing'[l].misses = 0 =>
            \A t \in absentAt[l] : t <= listing'[l].seenAt]_vars
==============================================================================
