------------------------ MODULE ListingLifecycle_proofs ------------------------
(***************************************************************************)
(* ListingLifecycle for all listings, regions, scopes, thresholds and      *)
(* bounds.  Every step does one of three things to a row, SeenIn, MissedBy *)
(* or KeptBy; which one, and when, is in the lemmas on the actions, and    *)
(* the properties follow from that.                                        *)
(***************************************************************************)
EXTENDS ListingLifecycle, FiniteSetTheorems, TLAPS

\* A sighting of instant at is stored in the row r, and gives n.
SeenIn(r, n, at) ==
    /\ n.misses = 0 /\ n.seenAt = at
    /\ n.status \in {"active", "expired_by_date"}
    /\ r.status = "none" \/ r.seenAt <= at

\* An absence of instant at is counted by scope s.
MissedBy(r, n, s, at) ==
    /\ n.misses = r.misses + 1 /\ n.seenAt = r.seenAt
    /\ r.status # "none" /\ r.seenAt <= at
    /\ n.status \in {StatusAfter(n.misses, Threshold[s]), "expired_by_date"}

\* What was seen or counted stays, whatever the date does to the status.
KeptBy(r, n) ==
    /\ n.misses = r.misses /\ n.seenAt = r.seenAt
    /\ n.status \in {r.status, "expired_by_date"}
    /\ n.status = "none" <=> r.status = "none"

\* Storing a row for a sighting, unless a later one is stored (upsert_listing).
LEMMA StoredSighting ==
    ASSUME NEW l \in Listings, NEW r \in Row, NEW at \in Time
    PROVE  LET n == Expired(l, Upserted(r, at)) IN
           n \in Row /\ (SeenIn(r, n, at) \/ (KeptBy(r, n) /\ r.status # "none" /\ r.seenAt > at))
<1>1. Time \subseteq Nat
  BY DEF Time
<1>2. Upserted(r, at) \in Row
  BY <1>1 DEF Upserted, Row, Status, Open
<1>3. Expired(l, Upserted(r, at)) \in Row
  BY <1>2 DEF Expired, Row, Status, Open
<1>4. \/ SeenIn(r, Expired(l, Upserted(r, at)), at)
      \/ KeptBy(r, Expired(l, Upserted(r, at))) /\ r.status # "none" /\ r.seenAt > at
  BY <1>1, <1>2 DEF Upserted, Stale, Expired, Row, Status, Open, SeenIn, KeptBy
<1> QED
  BY <1>3, <1>4

\* Storing a row for an absence, if it is one (mark_missing_listings_for_scope).
LEMMA StoredAbsence ==
    ASSUME NEW l \in Listings, NEW r \in Row, NEW at \in Time, NEW s \in Scopes
    PROVE  LET n == Expired(l, MarkedMissing(r, at, Threshold[s])) IN
           n \in Row /\ (MissedBy(r, n, s, at) \/ KeptBy(r, n))
<1>1. Time \subseteq Nat /\ Threshold[s] \in Nat
  BY ThresholdAssumption DEF Time
<1> DEFINE m == MarkedMissing(r, at, Threshold[s])
           n == Expired(l, m)
<1>2. CASE ~MayBeMissing(r, at)
  <2>1. m = r
    BY <1>2 DEF MarkedMissing
  <2> QED
    BY <2>1 DEF Expired, KeptBy, Row, Status, Open
<1>3. CASE MayBeMissing(r, at)
  <2>1. m = [r EXCEPT !.misses = @ + 1, !.status = StatusAfter(r.misses + 1, Threshold[s])]
    BY <1>3 DEF MarkedMissing
  <2>2. StatusAfter(r.misses + 1, Threshold[s]) \in Open
    BY DEF StatusAfter, Open
  <2>3. /\ m = [status |-> m.status, misses |-> m.misses, seenAt |-> m.seenAt, appearance |-> m.appearance]
        /\ m.status = StatusAfter(r.misses + 1, Threshold[s]) /\ m.misses = r.misses + 1
        /\ m.seenAt = r.seenAt /\ m.appearance = r.appearance
    BY <2>1 DEF Row
  <2>4. m \in Row
    BY <1>1, <2>2, <2>3 DEF Row, Status
  <2>5. n \in Row /\ n.misses = m.misses /\ n.seenAt = m.seenAt
        /\ n.status \in {m.status, "expired_by_date"}
    BY <2>4 DEF Expired, Row, Status, Open
  <2> QED
    BY <1>3, <2>3, <2>5 DEF MayBeMissing, MissedBy
<1> QED
  BY <1>2, <1>3

\* A row that nothing is stored in may still expire (mark_expired_by_date).
LEMMA StoredNothing ==
    ASSUME NEW l \in Listings, NEW r \in Row
    PROVE  Expired(l, r) \in Row /\ KeptBy(r, Expired(l, r))
BY DEF Expired, KeptBy, Row, Status, Open
------------------------------------------------------------------------------
\* What a step does to the row of l.
Sighted(l, at)    == SeenIn(listing[l], listing'[l], at)
Counted(l, s, at) == MissedBy(listing[l], listing'[l], s, at) /\ s \in baselined
Kept(l)           == KeptBy(listing[l], listing'[l])

\* A sighting counts unless the row holds a later one.
SightedOrStale(l, at) ==
    Sighted(l, at) \/ (Kept(l) /\ listing[l].status # "none" /\ listing[l].seenAt > at)

\* A direct run (_persist_scrape_result_for_run).
LEMMA DirectRunStores ==
    ASSUME TypeOK, NEW s \in Direct, NEW seen \in SUBSET Covered[s], DirectRun(s, seen),
           NEW l \in Listings
    PROVE  /\ listing'[l] \in Row
           /\ l \in seen => SightedOrStale(l, now)
           /\ l \notin seen => Kept(l) \/ (Counted(l, s, now) /\ l \in Covered[s])
<1> DEFINE found == IF l \in seen THEN Upserted(listing[l], now) ELSE listing[l]
           after == IF MarksMissing(s) /\ l \in Covered[s] \ seen
                    THEN MarkedMissing(found, now, Threshold[s]) ELSE found
<1>1. listing'[l] = Expired(l, after)
  BY DEF DirectRun, Store
<1>2. listing[l] \in Row /\ now \in Time /\ s \in Scopes
  BY ScopesAssumption DEF TypeOK
<1>3. CASE l \in seen
  <2>1. listing'[l] = Expired(l, Upserted(listing[l], now))
    BY <1>1, <1>3
  <2> QED
    BY <1>2, <1>3, <2>1, StoredSighting DEF SightedOrStale, Sighted, Kept
<1>4. CASE l \notin seen /\ MarksMissing(s) /\ l \in Covered[s]
  <2>1. listing'[l] = Expired(l, MarkedMissing(listing[l], now, Threshold[s]))
    BY <1>1, <1>4
  <2> QED
    BY <1>2, <1>4, <2>1, StoredAbsence DEF Counted, Kept, MarksMissing
<1>5. CASE l \notin seen /\ ~(MarksMissing(s) /\ l \in Covered[s])
  <2>1. listing'[l] = Expired(l, listing[l])
    BY <1>1, <1>5
  <2> QED
    BY <1>2, <1>5, <2>1, StoredNothing DEF Kept
<1> QED
  BY <1>3, <1>4, <1>5

\* A campaign that its parent-sized leaf completes.
LEMMA FullMergedStores ==
    ASSUME TypeOK, NEW b \in Broad, NEW seen \in SUBSET Covered[b], FullMerged(b, seen),
           NEW l \in Listings
    PROVE  /\ listing'[l] \in Row
           /\ l \in seen => SightedOrStale(l, now)
           /\ l \notin seen => Kept(l)
<1>1. listing'[l] = Expired(l, IF l \in seen THEN Upserted(listing[l], now) ELSE listing[l])
  BY DEF FullMerged, Store
<1>2. listing[l] \in Row /\ now \in Time
  BY DEF TypeOK
<1>3. CASE l \in seen
  <2>1. listing'[l] = Expired(l, Upserted(listing[l], now))
    BY <1>1, <1>3
  <2> QED
    BY <1>2, <1>3, <2>1, StoredSighting DEF SightedOrStale, Sighted, Kept
<1>4. CASE l \notin seen
  <2>1. listing'[l] = Expired(l, listing[l])
    BY <1>1, <1>4
  <2> QED
    BY <1>2, <1>4, <2>1, StoredNothing DEF Kept
<1> QED
  BY <1>3, <1>4

\* The leaves of the campaign of b when its last leaf, r, has come in.
Leaves(r, seen) == [staged EXCEPT ![r] = Observation(seen)]

LEMMA AllLeavesAreIn ==
    ASSUME TypeOK, NEW b \in Broad, NEW r \in LeavesOf(b), NEW seen \in SUBSET In(r),
           CampaignMerged(b, r, seen), NEW q \in LeavesOf(b)
    PROVE  /\ Leaves(r, seen)[q] \in Leaf
           /\ q = r => Leaves(r, seen)[q] = Observation(seen)
           /\ q # r => Leaves(r, seen)[q] = staged[q] /\ staged[q] # None
<1>1. r \in Regions /\ q \in Regions
  BY DEF LeavesOf
<1>2. Observation(seen) \in Leaf
  BY DEF Observation, Leaf, In, TypeOK
<1>3. q # r => staged[q] # None
  BY DEF CampaignMerged
<1>4. staged[q] \in Leaf \cup {None}
  BY <1>1 DEF TypeOK
<1> QED
  BY <1>1, <1>2, <1>3, <1>4 DEF Leaves, TypeOK

\* The merge of a campaign of regional leaves (_finalize_campaign).
LEMMA CampaignMergedStores ==
    ASSUME TypeOK, NEW b \in Broad, NEW r \in LeavesOf(b), NEW seen \in SUBSET In(r),
           CampaignMerged(b, r, seen), NEW l \in Listings
    PROVE  LET leaf == Leaves(r, seen)[RegionOf[l]] IN
           /\ listing'[l] \in Row
           /\ Kept(l) \/ RegionOf[l] \in LeavesOf(b)
           /\ RegionOf[l] \in LeavesOf(b) /\ l \in leaf.seen => Kept(l) \/ Sighted(l, leaf.at)
           /\ RegionOf[l] \in LeavesOf(b) /\ l \notin leaf.seen =>
                 Kept(l) \/ (Counted(l, b, leaf.at) /\ RegionOf[l] \in Eligible(b))
<1> DEFINE leaf == Leaves(r, seen)[RegionOf[l]]
           found == IF RegionOf[l] \in LeavesOf(b) /\ l \in leaf.seen
                    THEN Upserted(listing[l], leaf.at) ELSE listing[l]
           after == IF MarksMissing(b) /\ RegionOf[l] \in Eligible(b) /\ l \notin leaf.seen
                    THEN MarkedMissing(found, leaf.at, Threshold[b]) ELSE found
<1>1. listing'[l] = listing[l] \/ listing'[l] = Expired(l, after)
  BY DEF CampaignMerged, Store, Leaves
<1>2. listing[l] \in Row /\ b \in Scopes
  BY DEF TypeOK, Scopes
<1>3. Eligible(b) \subseteq LeavesOf(b)
  BY DEF Eligible
<1>4. ASSUME RegionOf[l] \in LeavesOf(b)
      PROVE  leaf \in Leaf /\ leaf.at \in Time
  BY <1>4, AllLeavesAreIn DEF Leaf
<1>5. CASE listing'[l] = listing[l]
  BY <1>2, <1>5 DEF Kept, KeptBy
<1>6. CASE listing'[l] = Expired(l, after) /\ RegionOf[l] \in LeavesOf(b) /\ l \in leaf.seen
  <2>1. listing'[l] = Expired(l, Upserted(listing[l], leaf.at))
    BY <1>6
  <2> QED
    BY <1>2, <1>4, <1>6, <2>1, StoredSighting DEF Sighted, Kept
<1>7. CASE /\ listing'[l] = Expired(l, after)
           /\ MarksMissing(b) /\ RegionOf[l] \in Eligible(b) /\ l \notin leaf.seen
  <2>1. listing'[l] = Expired(l, MarkedMissing(listing[l], leaf.at, Threshold[b]))
    BY <1>7
  <2> QED
    BY <1>2, <1>3, <1>4, <1>7, <2>1, StoredAbsence DEF Counted, Kept, MarksMissing
<1>8. CASE /\ listing'[l] = Expired(l, after)
           /\ ~(MarksMissing(b) /\ RegionOf[l] \in Eligible(b) /\ l \notin leaf.seen)
           /\ ~(RegionOf[l] \in LeavesOf(b) /\ l \in leaf.seen)
  <2>1. listing'[l] = Expired(l, listing[l])
    BY <1>8
  <2> QED
    BY <1>2, <1>8, <2>1, StoredNothing DEF Kept
<1> QED
  BY <1>1, <1>5, <1>6, <1>7, <1>8
------------------------------------------------------------------------------
\* Whose missing runs are evidence against l.
HasSay(c, l) ==
    \/ c \in Direct \X {"run"} /\ l \in Covered[c[1]]
    \/ c \in Broad \X {"campaign"} /\ RegionOf[l] \in Eligible(c[1])

NoMarks == [c \in Sources |-> 0]

\* The history of a row that is kept or seen begins anew or goes on as it was.
Unmarked(l) == (Kept(l) \/ \E at \in Time : Sighted(l, at)) /\ marks'[l] \in {marks[l], NoMarks}

Marked(l, c) ==
    /\ \E at \in Time : Counted(l, c[1], at)
    /\ HasSay(c, l)
    /\ marks'[l] = [marks[l] EXCEPT ![c] = @ + 1]

LEMMA RunIsSource ==
    \A s \in Direct : \E c \in Sources : c = <<s, "run">> /\ c[1] = s
<1> TAKE s \in Direct
<1>1. <<s, "run">> \in Sources /\ <<s, "run">>[1] = s
  BY DEF Sources
<1> QED
  BY <1>1

LEMMA CampaignIsSource ==
    \A b \in Broad : \E c \in Sources : c = <<b, "campaign">> /\ c[1] = b
<1> TAKE b \in Broad
<1>1. <<b, "campaign">> \in Sources /\ <<b, "campaign">>[1] = b
  BY DEF Sources
<1> QED
  BY <1>1

\* What Store makes of the history of a row.
LEMMA StoredMarks ==
    ASSUME NEW rows, NEW c \in Sources, Store(c, rows), NEW l \in Listings, listing[l] \in Row
    PROVE  /\ (Kept(l) \/ \E at \in Time : Sighted(l, at)) => Unmarked(l)
           /\ (\E at \in Time : Counted(l, c[1], at)) /\ HasSay(c, l) => Marked(l, c)
<1>1. marks'[l] = IF listing'[l].misses > listing[l].misses THEN [marks[l] EXCEPT ![c] = @ + 1]
                  ELSE IF listing'[l].misses = 0 THEN NoMarks ELSE marks[l]
  BY DEF Store, NoMarks
<1>2. listing[l].misses \in Nat
  BY DEF Row
<1>3. Kept(l) \/ (\E at \in Time : Sighted(l, at)) => ~(listing'[l].misses > listing[l].misses)
  BY <1>2 DEF Kept, KeptBy, Sighted, SeenIn
<1>4. (\E at \in Time : Counted(l, c[1], at)) => listing'[l].misses > listing[l].misses
  BY <1>2 DEF Counted, MissedBy
<1> QED
  BY <1>1, <1>3, <1>4 DEF Unmarked, Marked

\* Every step keeps, sees or counts a row, and counts it for one that has a say.
LEMMA EveryStep ==
    ASSUME TypeOK, [Next]_vars, NEW l \in Listings
    PROVE  listing'[l] \in Row /\ (Unmarked(l) \/ \E c \in Sources : Marked(l, c))
<1>1. listing[l] \in Row /\ now \in Time
  BY DEF TypeOK
<1>2. ASSUME UNCHANGED <<listing, marks>>
      PROVE  listing'[l] \in Row /\ Unmarked(l)
  BY <1>1, <1>2 DEF Unmarked, Kept, KeptBy
<1>3. ASSUME NEW s \in Direct, NEW seen \in SUBSET Covered[s], DirectRun(s, seen)
      PROVE  listing'[l] \in Row /\ (Unmarked(l) \/ \E c \in Sources : Marked(l, c))
  <2>1. PICK c \in Sources : c = <<s, "run">> /\ c[1] = s
    BY RunIsSource
  <2>2. \E rows : Store(c, rows)
    BY <1>3, <2>1 DEF DirectRun
  <2>3. Kept(l) \/ Sighted(l, now) \/ (Counted(l, c[1], now) /\ HasSay(c, l))
    BY <1>3, <2>1, DirectRunStores DEF SightedOrStale, HasSay
  <2> QED
    BY <1>1, <1>3, <2>2, <2>3, StoredMarks, DirectRunStores
<1>4. ASSUME NEW b \in Broad, NEW seen \in SUBSET Covered[b], FullMerged(b, seen)
      PROVE  listing'[l] \in Row /\ Unmarked(l)
  <2>1. \E c \in Sources : \E rows : Store(c, rows)
    BY <1>4 DEF FullMerged, Sources
  <2>2. Kept(l) \/ Sighted(l, now)
    BY <1>4, FullMergedStores DEF SightedOrStale
  <2> QED
    BY <1>1, <1>4, <2>1, <2>2, StoredMarks, FullMergedStores
<1>5. ASSUME NEW b \in Broad, NEW r \in LeavesOf(b), NEW seen \in SUBSET In(r),
             CampaignMerged(b, r, seen)
      PROVE  listing'[l] \in Row /\ (Unmarked(l) \/ \E c \in Sources : Marked(l, c))
  <2> DEFINE leaf == Leaves(r, seen)[RegionOf[l]]
  <2>1. PICK c \in Sources : c = <<b, "campaign">> /\ c[1] = b
    BY CampaignIsSource
  <2>2. \E rows : Store(c, rows)
    BY <1>5, <2>1 DEF CampaignMerged
  <2>3. RegionOf[l] \in LeavesOf(b) => leaf.at \in Time
    BY <1>5, AllLeavesAreIn DEF Leaf
  <2>4. \/ Kept(l) \/ \E at \in Time : Sighted(l, at)
        \/ (\E at \in Time : Counted(l, c[1], at)) /\ RegionOf[l] \in Eligible(b)
    BY <1>5, <2>1, <2>3, CampaignMergedStores
  <2>5. RegionOf[l] \in Eligible(b) => HasSay(c, l)
    BY <2>1 DEF HasSay
  <2> QED
    BY <1>1, <1>5, <2>2, <2>4, <2>5, StoredMarks, CampaignMergedStores
<1> QED
  BY <1>1, <1>2, <1>3, <1>4, <1>5
     DEF Next, Regional, LeafStaged, DatePasses, vars

LEMMA TypedStore ==
    ASSUME TypeOK, [Next]_vars, NEW rows \in [Listings -> Row], NEW s, Store(s, rows)
    PROVE  listing' \in [Listings -> Row] /\ marks' \in [Listings -> [Sources -> Nat]]
<1>1. marks' = [l \in Listings |-> marks'[l]]
  BY DEF Store
<1>2. ASSUME NEW l \in Listings PROVE marks'[l] \in [Sources -> Nat]
  <2>1. marks[l] \in [Sources -> Nat]
    BY DEF TypeOK
  <2>2. Unmarked(l) => marks'[l] \in [Sources -> Nat]
    BY <2>1 DEF Unmarked, NoMarks
  <2>3. ASSUME NEW t \in Sources, Marked(l, t) PROVE marks'[l] \in [Sources -> Nat]
    BY <2>1, <2>3 DEF Marked
  <2> QED
    BY <2>2, <2>3, EveryStep
<1> QED
  BY <1>1, <1>2 DEF Store

LEMMA TypedTime ==
    ASSUME TypeOK, Tick
    PROVE  /\ now' \in Time
           /\ \A seen \in SUBSET Listings : Observation(seen) \in Leaf
           /\ \A gone : Absent(gone) => absentAt' \in [Listings -> SUBSET Time]
<1>1. now' \in Time
  BY BoundAssumption DEF TypeOK, Tick, Time
<1>2. \A seen \in SUBSET Listings : Observation(seen) \in Leaf
  BY DEF TypeOK, Observation, Leaf
<1>3. \A gone : Absent(gone) => absentAt' \in [Listings -> SUBSET Time]
  BY DEF TypeOK, Absent
<1> QED
  BY <1>1, <1>2, <1>3

LEMMA InitTyped == Init => TypeOK
<1> SUFFICES ASSUME Init PROVE TypeOK
  OBVIOUS
<1>1. 0 \in Time /\ NoRow \in Row
  BY BoundAssumption DEF NoRow, Row, Status, Time
<1>2. listing \in [Listings -> Row] /\ baselined \subseteq Scopes /\ ended \subseteq Listings
  BY <1>1, ScopesAssumption DEF Init
<1>3. camp \in Broad \cup {None} /\ staged \in [Regions -> Leaf \cup {None}] /\ now \in Time
  BY <1>1 DEF Init
<1>4. marks \in [Listings -> [Sources -> Nat]]
  BY DEF Init
<1>5. absentAt \in [Listings -> SUBSET Time]
  BY DEF Init
<1> QED
  BY <1>2, <1>3, <1>4, <1>5 DEF TypeOK

\* The state is typed (rows of listings and of staged leaves).
THEOREM TypeCorrect == Spec => []TypeOK
<1>1. Init => TypeOK
  BY InitTyped
<1>2. ASSUME TypeOK, [Next]_vars PROVE TypeOK'
  <2>1. ASSUME NEW l \in Listings PROVE listing'[l] \in Row
    BY <1>2, EveryStep
  <2>2. ASSUME NEW s \in Direct, NEW seen \in SUBSET Covered[s], DirectRun(s, seen)
        PROVE  TypeOK'
    <3>1. s \in Scopes /\ Narrower[s] \subseteq Scopes
      BY ScopesAssumption
    <3>2. Store(<<s, "run">>, listing') /\ listing' = [l \in Listings |-> listing'[l]]
      BY <2>2 DEF DirectRun, Store
    <3>3. listing' \in [Listings -> Row]
      BY <2>1, <3>2
    <3>4. Tick /\ \E gone : Absent(gone)
      BY <2>2 DEF DirectRun
    <3>5. baselined' \subseteq Scopes /\ UNCHANGED <<camp, staged, ended>>
      BY <1>2, <2>2, <3>1 DEF DirectRun, TypeOK
    <3> QED
      BY <1>2, <3>2, <3>3, <3>4, <3>5, TypedStore, TypedTime DEF TypeOK
  <2>3. ASSUME NEW b \in Broad, NEW seen \in SUBSET Covered[b], FullMerged(b, seen)
        PROVE  TypeOK'
    <3>2. Store(<<b, "campaign">>, listing') /\ listing' = [l \in Listings |-> listing'[l]]
      BY <2>3 DEF FullMerged, Store
    <3>3. listing' \in [Listings -> Row]
      BY <2>1, <3>2
    <3>4. Tick /\ (\E gone : Absent(gone)) /\ UNCHANGED <<camp, staged, ended>>
      BY <2>3 DEF FullMerged
    <3>5. baselined' \subseteq Scopes
      BY <1>2, <2>3 DEF FullMerged, TypeOK, Scopes
    <3> QED
      BY <1>2, <3>2, <3>3, <3>4, <3>5, TypedStore, TypedTime DEF TypeOK
  <2>4. ASSUME NEW b \in Broad, NEW r \in LeavesOf(b), NEW seen \in SUBSET In(r),
               CampaignMerged(b, r, seen)
        PROVE  TypeOK'
    <3>2. Store(<<b, "campaign">>, listing') /\ (listing' = listing \/ listing' = [l \in Listings |-> listing'[l]])
      BY <2>4 DEF CampaignMerged, Store
    <3>3. listing' \in [Listings -> Row]
      BY <1>2, <2>1, <3>2 DEF TypeOK
    <3>4. Tick /\ (\E gone : Absent(gone)) /\ UNCHANGED ended
      BY <2>4 DEF CampaignMerged
    <3>5. baselined' \subseteq Scopes
      BY <1>2, <2>4 DEF CampaignMerged, TypeOK, Scopes
    <3>6. camp' \in Broad \cup {None} /\ staged' \in [Regions -> Leaf \cup {None}]
      BY <2>4 DEF CampaignMerged
    <3> QED
      BY <1>2, <3>2, <3>3, <3>4, <3>5, <3>6, TypedStore, TypedTime DEF TypeOK
  <2>5. ASSUME NEW b \in Broad, NEW r \in LeavesOf(b), NEW seen \in SUBSET In(r),
               LeafStaged(b, r, seen)
        PROVE  TypeOK'
    <3>1. Tick /\ (\E gone : Absent(gone)) /\ UNCHANGED <<listing, baselined, ended, marks>>
      BY <2>5 DEF LeafStaged
    <3>2. seen \in SUBSET Listings
      BY DEF In
    <3>3. camp' \in Broad \cup {None} /\ staged' = [staged EXCEPT ![r] = Observation(seen)]
      BY <2>5 DEF LeafStaged
    <3>4. staged' \in [Regions -> Leaf \cup {None}]
      BY <1>2, <3>1, <3>2, <3>3, TypedTime DEF TypeOK
    <3> QED
      BY <1>2, <3>1, <3>3, <3>4, TypedTime DEF TypeOK
  <2>6. ASSUME NEW l \in Dated, DatePasses(l) PROVE TypeOK'
    BY <1>2, <2>6, ListingsAssumption DEF DatePasses, TypeOK
  <2>7. CASE UNCHANGED vars
    BY <1>2, <2>7 DEF vars, TypeOK
  <2> QED
    BY <1>2, <2>2, <2>3, <2>4, <2>5, <2>6, <2>6, <2>7 DEF Next, Regional
<1> QED
  BY <1>1, <1>2, PTL DEF Spec
------------------------------------------------------------------------------
(***************************************************************************)
(* Whose evidence it is.                                                   *)
(***************************************************************************)
\* Only what has a say in a listing has counted against it.
MarksHaveSay == \A l \in Listings, c \in Sources : marks[l][c] > 0 => HasSay(c, l)

LEMMA OnlyThoseCount == Spec => []MarksHaveSay
<1>1. Init => MarksHaveSay
  BY DEF Init, MarksHaveSay
<1>2. ASSUME TypeOK, MarksHaveSay, [Next]_vars PROVE MarksHaveSay'
  <2> SUFFICES ASSUME NEW l \in Listings, NEW c \in Sources, marks'[l][c] > 0
               PROVE  HasSay(c, l)
    BY DEF MarksHaveSay, HasSay, Eligible, LeavesOf, EvidenceStates
  <2>1. marks[l] \in [Sources -> Nat] /\ (marks[l][c] > 0 => HasSay(c, l))
    BY <1>2 DEF TypeOK, MarksHaveSay
  <2>2. CASE Unmarked(l)
    BY <2>1, <2>2 DEF Unmarked, NoMarks
  <2>3. ASSUME NEW d \in Sources, Marked(l, d) PROVE HasSay(c, l)
    <3>1. c # d => marks'[l][c] = marks[l][c]
      BY <2>1, <2>3 DEF Marked
    <3> QED
      BY <2>1, <2>3, <3>1 DEF Marked
  <2> QED
    BY <1>2, <2>2, <2>3, EveryStep
<1> QED
  BY <1>1, <1>2, TypeCorrect, PTL DEF Spec

\* As long as no island is left to two broad scopes, and none of them is scraped
\* directly beyond the island left to it, the evidence a campaign adds to is its own
\* scope's alone (_missing_evidence_states, excluded_missing_regions).
THEOREM OneOwner ==
    ASSUME \A b, c \in Broad : EvidenceStates(b) \cap EvidenceStates(c) # {} => b = c,
           \A b \in Direct \cap Broad : \A l \in Covered[b] :
               IslandOf[RegionOf[l]] \in EvidenceStates(b)
    PROVE  Spec => []EvidenceHasOneOwner
<1>1. ASSUME MarksHaveSay PROVE EvidenceHasOneOwner
  <2> SUFFICES ASSUME NEW l \in Listings, NEW b \in Broad, marks[l][<<b, "campaign">>] > 0,
                      NEW c \in Sources, marks[l][c] > 0
               PROVE  c[1] = b
    BY DEF EvidenceHasOneOwner
  <2>1. RegionOf[l] # Auckland /\ IslandOf[RegionOf[l]] \in EvidenceStates(b)
    <3>1. PICK d \in Sources : d = <<b, "campaign">> /\ d[1] = b /\ d[2] = "campaign"
      BY DEF Sources
    <3>2. HasSay(d, l)
      BY <1>1, <3>1 DEF MarksHaveSay
    <3> QED
      BY <3>1, <3>2 DEF HasSay, Eligible
  <2>2. HasSay(c, l)
    BY <1>1 DEF MarksHaveSay
  <2>3. ASSUME c[1] \in Direct, l \in Covered[c[1]] PROVE c[1] = b
    <3>1. c[1] \notin Golden
      BY <2>1, <2>3, ScopesAssumption
    <3>2. c[1] \in Direct \cap Broad
      BY <2>3, <3>1, ScopesAssumption DEF Scopes
    <3> QED
      BY <2>1, <2>3, <3>2
  <2>4. ASSUME c[1] \in Broad, RegionOf[l] \in Eligible(c[1]) PROVE c[1] = b
    BY <2>1, <2>4 DEF Eligible
  <2> QED
    BY <2>2, <2>3, <2>4 DEF HasSay
<1> QED
  BY <1>1, OnlyThoseCount, PTL

\* Whatever the thresholds of the scopes, the one that confirms a listing missing
\* has been baselined and has its own threshold reached
\* (mark_missing_listings_for_scope, missing_threshold_runs).
THEOREM ConfirmedByOne == Spec => ConfirmedByThreshold
<1> DEFINE Confirmed(l) ==
        listing[l].status # "missing_confirmed" /\ listing'[l].status = "missing_confirmed"
        => \E c \in Sources :
              /\ marks'[l][c] > marks[l][c]
              /\ c[1] \in baselined /\ listing'[l].misses >= Threshold[c[1]]
<1>1. ASSUME TypeOK, [Next]_vars, NEW l \in Listings PROVE Confirmed(l)
  <2>1. CASE Unmarked(l)
    BY <2>1 DEF Unmarked, Kept, KeptBy, Sighted, SeenIn
  <2>2. ASSUME NEW c \in Sources, Marked(l, c) PROVE Confirmed(l)
    <3>1. marks[l] \in [Sources -> Nat] /\ marks'[l] = [marks[l] EXCEPT ![c] = @ + 1]
      BY <1>1, <2>2 DEF Marked, TypeOK
    <3>2. marks'[l][c] > marks[l][c]
      BY <3>1
    <3>3. c[1] \in baselined
      BY <2>2 DEF Marked, Counted
    <3>4. listing'[l].status = "missing_confirmed" => listing'[l].misses >= Threshold[c[1]]
      BY <2>2 DEF Marked, Counted, MissedBy, StatusAfter
    <3> QED
      BY <3>2, <3>3, <3>4
  <2> QED
    BY <1>1, <2>1, <2>2, EveryStep
<1>2. TypeOK /\ [Next]_vars => [\A l \in Listings : Confirmed(l)]_vars
  BY <1>1
<1> QED
  BY <1>2, TypeCorrect, PTL DEF Spec, ConfirmedByThreshold

\* What a run stores leaves no listing open whose end date has passed
\* (mark_expired_by_date).
THEOREM EndedStaysClosed == Spec => EndedIsClosed
<1> DEFINE Closed == listing' # listing => \A l \in ended : listing'[l].status \notin Open
<1>1. ASSUME NEW l \in ended, NEW r, Expired(l, r) \in Row PROVE Expired(l, r).status \notin Open
  <2>1. CASE r.status \in Open
    <3>1. Expired(l, r) = [r EXCEPT !.status = "expired_by_date"]
      BY <2>1 DEF Expired
    <3>2. DOMAIN Expired(l, r) = DOMAIN r /\ "status" \in DOMAIN Expired(l, r)
      BY <1>1, <3>1 DEF Row
    <3> QED
      BY <3>1, <3>2 DEF Open
  <2>2. CASE r.status \notin Open
    BY <2>2 DEF Expired
  <2> QED
    BY <2>1, <2>2
<1>2. ASSUME TypeOK, [Next]_vars PROVE Closed
  <2>1. ASSUME \A l \in Listings : \E r : listing'[l] = Expired(l, r) PROVE Closed
    BY <1>1, <1>2, <2>1, EveryStep DEF TypeOK
  <2>2. ASSUME NEW s \in Direct, NEW seen, DirectRun(s, seen)
        PROVE  \A l \in Listings : \E r : listing'[l] = Expired(l, r)
    BY <2>2 DEF DirectRun, Store
  <2>3. ASSUME NEW b \in Broad, NEW seen, FullMerged(b, seen)
        PROVE  \A l \in Listings : \E r : listing'[l] = Expired(l, r)
    BY <2>3 DEF FullMerged, Store
  <2>4. ASSUME NEW b \in Broad, NEW r \in LeavesOf(b), NEW seen, CampaignMerged(b, r, seen)
        PROVE  listing' = listing \/ \A l \in Listings : \E n : listing'[l] = Expired(l, n)
    BY <2>4 DEF CampaignMerged, Store
  <2> QED
    BY <1>2, <2>1, <2>2, <2>3, <2>4 DEF Next, Regional, LeafStaged, DatePasses, vars
<1> QED
  BY <1>2, TypeCorrect, PTL DEF Spec, EndedIsClosed
------------------------------------------------------------------------------
(***************************************************************************)
(* When it was made.                                                       *)
(***************************************************************************)
\* What is stored or staged was made before now.
Past ==
    /\ \A l \in Listings :
          /\ listing[l].status = "none" => listing[l].misses = 0
          /\ listing[l].status # "none" => listing[l].seenAt < now
          /\ \A t \in absentAt[l] : t < now
    /\ \A r \in Regions : staged[r] # None => staged[r].at < now

\* An absence at t would be evidence against l.
Later(l, t) == listing[l].status # "none" /\ t > listing[l].seenAt

AbsencesAreLater == \A l \in Listings : \A t \in absentAt[l] : Later(l, t)

\* A staged leaf has l's region and does not show l.
AbsenceStaged(l) == staged[RegionOf[l]] # None /\ l \notin staged[RegionOf[l]].seen

\* Such an absence is one of those recorded, if it is later than the last sighting,
\* and never of the same instant.
StagedIsAbsence ==
    \A l \in Listings : AbsenceStaged(l) =>
        LET at == staged[RegionOf[l]].at IN
        /\ Later(l, at) => at \in absentAt[l]
        /\ listing[l].status # "none" => listing[l].seenAt # at

\* The absences of l that have been merged.
Merged(l) == absentAt[l] \ (IF AbsenceStaged(l) THEN {staged[RegionOf[l]].at} ELSE {})

MissesAreMerged == \A l \in Listings : listing[l].misses <= Cardinality(Merged(l))

IInv == TypeOK /\ Past /\ AbsencesAreLater /\ StagedIsAbsence /\ MissesAreMerged

LEMMA MergedIsFinite ==
    ASSUME TypeOK, NEW l \in Listings
    PROVE  IsFiniteSet(Merged(l)) /\ Cardinality(Merged(l)) \in Nat
<1>1. IsFiniteSet(0..MaxTime)
  BY BoundAssumption, FS_Interval
<1>2. Merged(l) \in SUBSET (0..MaxTime)
  BY DEF Merged, TypeOK, Time
<1> QED
  BY <1>1, <1>2, FS_Subset, FS_CardinalityType

\* A set that gains a member has room for one count more.
LEMMA OneMore ==
    ASSUME NEW S, NEW T, IsFiniteSet(T), S \subseteq T
    PROVE  /\ Cardinality(S) \in Nat /\ Cardinality(T) \in Nat /\ Cardinality(S) <= Cardinality(T)
           /\ \A x \in T \ S : Cardinality(S) + 1 <= Cardinality(T)
<1>1. IsFiniteSet(S) /\ Cardinality(S) <= Cardinality(T)
  BY FS_Subset
<1>2. Cardinality(S) \in Nat /\ Cardinality(T) \in Nat
  BY <1>1, FS_CardinalityType
<1>3. ASSUME NEW x \in T \ S PROVE Cardinality(S) + 1 <= Cardinality(T)
  <2>1. Cardinality(S \cup {x}) = Cardinality(S) + 1
    BY <1>1, <1>3, FS_AddElement
  <2>2. (S \cup {x}) \in SUBSET T
    BY <1>3
  <2> QED
    BY <2>1, <2>2, FS_Subset
<1> QED
  BY <1>1, <1>2, <1>3

\* What has to be shown of a step for the counts to keep within the absences.
KeepsWithin(l) ==
    \/ \E at \in Time : Sighted(l, at)
    \/ Kept(l) /\ Merged(l) \subseteq Merged(l)'
    \/ \E s \in Scopes, at \in Merged(l)' \ Merged(l) :
           Counted(l, s, at) /\ Merged(l) \subseteq Merged(l)'

LEMMA CountsKeepWithin ==
    ASSUME TypeOK, TypeOK', MissesAreMerged,
           \A l \in Listings : KeepsWithin(l)
    PROVE  MissesAreMerged'
<1> SUFFICES ASSUME NEW l \in Listings PROVE listing'[l].misses <= Cardinality(Merged(l)')
  BY DEF MissesAreMerged
<1>1. IsFiniteSet(Merged(l)') /\ Cardinality(Merged(l)') \in Nat
  <2>1. Merged(l)' \in SUBSET (0..MaxTime)
    BY DEF Merged, TypeOK, Time
  <2> QED
    <3>1. IsFiniteSet(0..MaxTime)
      BY BoundAssumption, FS_Interval
    <3>2. IsFiniteSet(Merged(l)')
      BY <2>1, <3>1, FS_Subset
    <3> QED
      BY <3>2, FS_CardinalityType
<1>2. listing[l].misses \in Nat /\ listing[l].misses <= Cardinality(Merged(l))
  BY DEF TypeOK, Row, MissesAreMerged
<1>3. ASSUME NEW at \in Time, Sighted(l, at)
      PROVE  listing'[l].misses <= Cardinality(Merged(l)')
  BY <1>1, <1>3 DEF Sighted, SeenIn
<1>4. CASE Kept(l) /\ Merged(l) \subseteq Merged(l)'
  <2>1. listing'[l].misses = listing[l].misses
    BY <1>4 DEF Kept, KeptBy
  <2> QED
    BY <1>1, <1>2, <1>4, <2>1, OneMore
<1>5. ASSUME NEW s \in Scopes, NEW at \in Merged(l)' \ Merged(l), Counted(l, s, at),
             Merged(l) \subseteq Merged(l)'
      PROVE  listing'[l].misses <= Cardinality(Merged(l)')
  <2>1. listing'[l].misses = listing[l].misses + 1
    BY <1>5 DEF Counted, MissedBy
  <2>2. Cardinality(Merged(l)) + 1 <= Cardinality(Merged(l)') /\ Cardinality(Merged(l)) \in Nat
    BY <1>1, <1>5, OneMore
  <2> QED
    BY <1>1, <1>2, <2>1, <2>2
<1> QED
  BY <1>3, <1>4, <1>5 DEF KeepsWithin

LEMMA RowStaysPast ==
    ASSUME TypeOK, Past, now' = now + 1, NEW l \in Listings, NEW at \in Time, at <= now,
           Kept(l) \/ Sighted(l, at) \/ \E s \in Scopes : Counted(l, s, at)
    PROVE  /\ listing'[l].status = "none" => listing'[l].misses = 0
           /\ listing'[l].status # "none" => listing'[l].seenAt < now'
<1>1. now \in Nat /\ at \in Nat /\ listing[l].seenAt \in Nat
  BY DEF TypeOK, Time, Row
<1>2. /\ listing[l].status = "none" => listing[l].misses = 0
      /\ listing[l].status # "none" => listing[l].seenAt < now
  BY DEF Past
<1>3. CASE Kept(l)
  BY <1>1, <1>2, <1>3 DEF Kept, KeptBy
<1>4. CASE Sighted(l, at)
  BY <1>1, <1>4 DEF Sighted, SeenIn
<1>5. ASSUME NEW s \in Scopes, Counted(l, s, at)
      PROVE  listing'[l].status # "none" /\ listing'[l].seenAt < now'
  BY <1>1, <1>2, <1>5 DEF Counted, MissedBy, StatusAfter
<1> QED
  BY <1>3, <1>4, <1>5

\* What a complete scrape adds to the absences, and what stays of them.
LEMMA AbsencesStayPast ==
    ASSUME TypeOK, Past, now' = now + 1, NEW gone, Absent(gone), NEW l \in Listings
    PROVE  /\ \A t \in absentAt'[l] : t < now' /\ Later(l, t)'
           /\ absentAt'[l] \subseteq absentAt[l] \cup {now}
<1>1. absentAt'[l] = {t \in absentAt[l] \cup (IF l \in gone THEN {now} ELSE {}) : Later(l, t)'}
  BY DEF Absent, Later
<1>2. \A t \in absentAt[l] : t \in Nat /\ t < now
  BY DEF Past, TypeOK, Time
<1> QED
  BY <1>1, <1>2 DEF TypeOK, Time

LEMMA AbsencesStay ==
    ASSUME IInv, NEW gone, Absent(gone), NEW l \in Listings,
           Kept(l) \/ \E s \in Scopes, at \in Time : Counted(l, s, at)
    PROVE  /\ \A t : Later(l, t)' <=> Later(l, t)
           /\ absentAt[l] \subseteq absentAt'[l]
           /\ l \in gone /\ listing[l].status # "none" => now \in absentAt'[l]
<1>1. absentAt'[l] = {t \in absentAt[l] \cup (IF l \in gone THEN {now} ELSE {}) : Later(l, t)'}
  BY DEF Absent, Later
<1>2. /\ listing'[l].seenAt = listing[l].seenAt
      /\ listing'[l].status = "none" <=> listing[l].status = "none"
  BY DEF Kept, KeptBy, Counted, MissedBy, StatusAfter
<1>3. \A t : Later(l, t)' <=> Later(l, t)
  BY <1>2 DEF Later
<1>4. \A t \in absentAt[l] : Later(l, t)
  BY DEF IInv, AbsencesAreLater
<1>5. listing[l].status # "none" => Later(l, now)
  BY DEF IInv, Past, TypeOK, Row, Time, Later
<1> QED
  BY <1>1, <1>3, <1>4, <1>5

LEMMA StagedInPast ==
    ASSUME TypeOK, Past, NEW r \in Regions, staged[r] # None
    PROVE  staged[r].at \in Time /\ staged[r].at \in Nat /\ staged[r].at < now
<1>1. staged[r] \in Leaf
  BY DEF TypeOK
<1>2. staged[r].at \in Time
  BY <1>1 DEF Leaf
<1>3. staged[r].at < now
  BY DEF Past
<1> QED
  BY <1>2, <1>3 DEF Time

LEMMA RegionOfListing == ASSUME NEW l \in Listings PROVE RegionOf[l] \in Regions
BY ListingsAssumption

\* A step that stages nothing, and sees or counts with its own instant.
LEMMA StoresNow ==
    ASSUME IInv, Tick, UNCHANGED staged, NEW gone \in SUBSET Listings, Absent(gone),
           \A l \in Listings : \/ Kept(l) \/ Sighted(l, now)
                               \/ l \in gone /\ \E s \in Scopes : Counted(l, s, now)
    PROVE  /\ Past' /\ AbsencesAreLater' /\ StagedIsAbsence'
           /\ \A l \in Listings : KeepsWithin(l)
<1>1. /\ TypeOK /\ Past /\ now \in Nat /\ now \in Time /\ now' = now + 1 /\ staged' = staged
  BY DEF IInv, TypeOK, Tick, Time
<1>2. ASSUME NEW l \in Listings
      PROVE  Kept(l) \/ Sighted(l, now) \/ (l \in gone /\ \E s \in Scopes : Counted(l, s, now))
  OBVIOUS
<1>3. Past'
  <2>1. ASSUME NEW r \in Regions, staged[r] # None PROVE staged[r].at < now'
    <3>1. staged[r].at < now /\ staged[r].at \in Nat
      BY <1>1, <2>1, StagedInPast
    <3> QED
      BY <1>1, <3>1
  <2>2. ASSUME NEW l \in Listings
        PROVE  /\ listing'[l].status = "none" => listing'[l].misses = 0
               /\ listing'[l].status # "none" => listing'[l].seenAt < now'
    BY <1>1, <1>2, RowStaysPast
  <2>3. \A l \in Listings : \A t \in absentAt'[l] : t < now'
    BY <1>1, AbsencesStayPast
  <2> QED
    BY <1>1, <2>1, <2>2, <2>3 DEF Past
<1>4. AbsencesAreLater'
  BY <1>1, AbsencesStayPast DEF AbsencesAreLater
<1>5. StagedIsAbsence'
  <2> SUFFICES ASSUME NEW l \in Listings, AbsenceStaged(l), NEW at, at = staged[RegionOf[l]].at
               PROVE  /\ Later(l, at)' => at \in absentAt'[l]
                      /\ listing'[l].status # "none" => listing'[l].seenAt # at
    BY <1>1 DEF StagedIsAbsence, AbsenceStaged, Later
  <2>1. /\ Later(l, at) => at \in absentAt[l]
        /\ listing[l].status # "none" => listing[l].seenAt # at
    BY DEF IInv, StagedIsAbsence
  <2>2. at < now /\ at \in Nat
    BY <1>1, StagedInPast, RegionOfListing DEF AbsenceStaged
  <2>3. CASE Sighted(l, now)
    BY <1>1, <2>2, <2>3 DEF Sighted, SeenIn, Later
  <2>4. CASE Kept(l) \/ \E s \in Scopes : Counted(l, s, now)
    <3>1. (Later(l, at)' <=> Later(l, at)) /\ absentAt[l] \subseteq absentAt'[l]
      BY <1>1, <2>4, AbsencesStay
    <3>2. listing'[l].status # "none" => listing[l].status # "none" /\ listing'[l].seenAt = listing[l].seenAt
      BY <2>4 DEF Kept, KeptBy, Counted, MissedBy
    <3> QED
      BY <2>1, <3>1, <3>2
  <2> QED
    BY <1>2, <2>3, <2>4
<1>6. ASSUME NEW l \in Listings PROVE KeepsWithin(l)
  <2>1. CASE Sighted(l, now)
    BY <1>1, <2>1 DEF KeepsWithin
  <2>2. CASE Kept(l)
    <3>1. absentAt[l] \subseteq absentAt'[l]
      BY <2>2, AbsencesStay
    <3>2. Merged(l) \subseteq Merged(l)'
      BY <1>1, <3>1 DEF Merged, AbsenceStaged
    <3> QED
      BY <2>2, <3>2 DEF KeepsWithin
  <2>3. ASSUME l \in gone, NEW s \in Scopes, Counted(l, s, now) PROVE KeepsWithin(l)
    <3>1. absentAt[l] \subseteq absentAt'[l] /\ now \in absentAt'[l]
      BY <1>1, <2>3, AbsencesStay DEF Counted, MissedBy
    <3>2. Merged(l) \subseteq Merged(l)'
      BY <1>1, <3>1 DEF Merged, AbsenceStaged
    <3>3. now \notin Merged(l)
      BY <1>1 DEF Merged, Past
    <3>4. AbsenceStaged(l) => staged[RegionOf[l]].at # now
      BY <1>1, RegionOfListing DEF AbsenceStaged, Past
    <3>5. now \in Merged(l)'
      BY <1>1, <3>1, <3>4 DEF Merged, AbsenceStaged
    <3> QED
      BY <1>1, <2>3, <3>2, <3>3, <3>5 DEF KeepsWithin
  <2> QED
    BY <1>2, <2>1, <2>2, <2>3
<1> QED
  BY <1>3, <1>4, <1>5, <1>6

\* A leaf that is staged adds absences, and leaves them to the merge.
LEMMA LeafStagedKeeps ==
    ASSUME IInv, NEW b \in Broad, NEW r \in LeavesOf(b), NEW seen \in SUBSET In(r),
           LeafStaged(b, r, seen)
    PROVE  /\ Past' /\ AbsencesAreLater' /\ StagedIsAbsence'
           /\ \A l \in Listings : KeepsWithin(l)
<1>1. /\ TypeOK /\ Past /\ now \in Nat /\ now \in Time /\ now' = now + 1 /\ listing' = listing
      /\ Absent(In(r) \ seen) /\ r \in Regions /\ staged[r] = None
      /\ staged' = [staged EXCEPT ![r] = Observation(seen)]
  BY DEF IInv, TypeOK, LeafStaged, IsNextLeaf, Tick, Time, LeavesOf
<1>2. ASSUME NEW l \in Listings PROVE Kept(l)
  BY <1>1 DEF Kept, KeptBy, TypeOK, Row
<1>3. /\ staged'[r].at = now /\ staged'[r].seen = seen
      /\ \A q \in Regions \ {r} : staged'[q] = staged[q]
  BY <1>1 DEF TypeOK, Observation
<1>4. Past'
  <2>1. ASSUME NEW q \in Regions, staged'[q] # None PROVE staged'[q].at < now'
    <3>1. CASE q = r
      BY <1>1, <1>3, <3>1
    <3>2. CASE q # r
      <4>1. staged[q].at < now /\ staged[q].at \in Nat
        BY <1>1, <1>3, <2>1, <3>2, StagedInPast
      <4> QED
        BY <1>1, <1>3, <3>2, <4>1
    <3> QED
      BY <3>1, <3>2
  <2>2. ASSUME NEW l \in Listings
        PROVE  /\ listing'[l].status = "none" => listing'[l].misses = 0
               /\ listing'[l].status # "none" => listing'[l].seenAt < now'
    BY <1>1, <1>2, RowStaysPast
  <2>3. \A l \in Listings : \A t \in absentAt'[l] : t < now'
    BY <1>1, AbsencesStayPast
  <2> QED
    BY <2>1, <2>2, <2>3 DEF Past
<1>5. ASSUME NEW l \in Listings
      PROVE  /\ \A t : Later(l, t)' <=> Later(l, t)
             /\ absentAt[l] \subseteq absentAt'[l]
             /\ RegionOf[l] = r /\ l \notin seen /\ listing[l].status # "none" => now \in absentAt'[l]
  BY <1>1, <1>2, AbsencesStay DEF In
<1>6. StagedIsAbsence'
  <2> SUFFICES ASSUME NEW l \in Listings, AbsenceStaged(l)', NEW at, at = staged'[RegionOf[l]].at
               PROVE  /\ Later(l, at)' => at \in absentAt'[l]
                      /\ listing'[l].status # "none" => listing'[l].seenAt # at
    BY DEF StagedIsAbsence, Later
  <2>1. CASE RegionOf[l] = r
    <3>1. at = now /\ l \notin seen
      BY <1>3, <2>1 DEF AbsenceStaged
    <3>2. listing[l].status # "none" => listing[l].seenAt # now
      BY <1>1 DEF Past, TypeOK, Row, Time
    <3>3. Later(l, at)' => listing[l].status # "none"
      BY <1>1 DEF Later
    <3> QED
      BY <1>1, <1>5, <2>1, <3>1, <3>2, <3>3
  <2>2. CASE RegionOf[l] # r
    <3>1. staged'[RegionOf[l]] = staged[RegionOf[l]]
      BY <1>3, <2>2, RegionOfListing
    <3>2. AbsenceStaged(l) /\ at = staged[RegionOf[l]].at
      BY <3>1 DEF AbsenceStaged
    <3>3. /\ Later(l, at) => at \in absentAt[l]
          /\ listing[l].status # "none" => listing[l].seenAt # at
      BY <3>2 DEF IInv, StagedIsAbsence
    <3> QED
      BY <1>1, <1>5, <3>3
  <2> QED
    BY <2>1, <2>2
<1>7. ASSUME NEW l \in Listings PROVE KeepsWithin(l)
  <2>1. absentAt[l] \subseteq absentAt'[l]
    BY <1>5
  <2>2. CASE RegionOf[l] = r
    <3>1. now \notin absentAt[l]
      BY <1>1 DEF Past
    <3>2. Merged(l) \subseteq Merged(l)'
      BY <1>1, <1>3, <2>1, <2>2, <3>1 DEF Merged, AbsenceStaged
    <3> QED
      BY <1>2, <3>2 DEF KeepsWithin
  <2>3. CASE RegionOf[l] # r
    <3>1. staged'[RegionOf[l]] = staged[RegionOf[l]]
      BY <1>3, <2>3, RegionOfListing
    <3>2. Merged(l) \subseteq Merged(l)'
      BY <2>1, <3>1 DEF Merged, AbsenceStaged
    <3> QED
      BY <1>2, <3>2 DEF KeepsWithin
  <2> QED
    BY <2>2, <2>3
<1>8. AbsencesAreLater'
  BY <1>1, AbsencesStayPast DEF AbsencesAreLater
<1> QED
  BY <1>4, <1>6, <1>7, <1>8

\* The merge counts the absences of its leaves, each at most once.
LEMMA CampaignMergedKeeps ==
    ASSUME IInv, NEW b \in Broad, NEW r \in LeavesOf(b), NEW seen \in SUBSET In(r),
           CampaignMerged(b, r, seen)
    PROVE  /\ Past' /\ AbsencesAreLater' /\ StagedIsAbsence'
           /\ \A l \in Listings : KeepsWithin(l)
<1>1. /\ TypeOK /\ Past /\ now \in Nat /\ now \in Time /\ now' = now + 1
      /\ Absent(In(r) \ seen) /\ r \in Regions /\ staged[r] = None
      /\ staged' = [q \in Regions |-> None]
  BY DEF IInv, TypeOK, CampaignMerged, IsNextLeaf, Tick, Time, LeavesOf
<1>2. AbsencesAreLater'
  BY <1>1, AbsencesStayPast DEF AbsencesAreLater
<1>3. \A l \in Listings : ~AbsenceStaged(l)'
  BY <1>1, RegionOfListing DEF AbsenceStaged
<1>4. ASSUME NEW l \in Listings, RegionOf[l] \in LeavesOf(b)
      PROVE  LET leaf == Leaves(r, seen)[RegionOf[l]] IN
             /\ leaf.at \in Time /\ leaf.at <= now
             /\ IF RegionOf[l] = r THEN leaf.at = now /\ leaf.seen = seen
                                  ELSE leaf = staged[RegionOf[l]] /\ leaf # None
  <2> DEFINE leaf == Leaves(r, seen)[RegionOf[l]]
  <2>1. /\ RegionOf[l] = r => leaf = Observation(seen)
        /\ RegionOf[l] # r => leaf = staged[RegionOf[l]] /\ leaf # None
    BY <1>1, <1>4, AllLeavesAreIn
  <2>2. CASE RegionOf[l] = r
    BY <1>1, <2>1, <2>2 DEF Observation
  <2>3. CASE RegionOf[l] # r
    <3>1. leaf.at \in Time /\ leaf.at \in Nat /\ leaf.at < now
      BY <1>1, <2>1, <2>3, StagedInPast, RegionOfListing
    <3> QED
      BY <1>1, <2>1, <2>3, <3>1
  <2> QED
    BY <2>2, <2>3
<1>5. ASSUME NEW l \in Listings
      PROVE  LET leaf == Leaves(r, seen)[RegionOf[l]] IN
             \/ Kept(l) \/ (Sighted(l, leaf.at) /\ RegionOf[l] \in LeavesOf(b))
             \/ Counted(l, b, leaf.at) /\ RegionOf[l] \in LeavesOf(b) /\ l \notin leaf.seen
  BY <1>1, CampaignMergedStores
<1>6. Past'
  <2>1. \A q \in Regions : staged'[q] = None
    BY <1>1
  <2>2. ASSUME NEW l \in Listings
        PROVE  /\ listing'[l].status = "none" => listing'[l].misses = 0
               /\ listing'[l].status # "none" => listing'[l].seenAt < now'
    <3>1. b \in Scopes
      BY DEF Scopes
    <3>2. CASE Kept(l)
      BY <1>1, <3>2, RowStaysPast
    <3>3. CASE ~Kept(l)
      BY <1>1, <1>4, <1>5, <3>1, <3>3, RowStaysPast
    <3> QED
      BY <3>2, <3>3
  <2>3. \A l \in Listings : \A t \in absentAt'[l] : t < now'
    BY <1>1, AbsencesStayPast
  <2> QED
    BY <2>1, <2>2, <2>3 DEF Past
<1>7. StagedIsAbsence'
  BY <1>3 DEF StagedIsAbsence
<1>8. ASSUME NEW l \in Listings PROVE KeepsWithin(l)
  <2> DEFINE leaf == Leaves(r, seen)[RegionOf[l]]
  <2>1. CASE Sighted(l, leaf.at) /\ RegionOf[l] \in LeavesOf(b)
    BY <1>4, <2>1 DEF KeepsWithin
  <2>2. CASE Kept(l)
    <3>1. Merged(l) \subseteq Merged(l)'
      BY <1>1, <1>3, <2>2, AbsencesStay DEF Merged
    <3> QED
      BY <2>2, <3>1 DEF KeepsWithin
  <2>3. CASE Counted(l, b, leaf.at) /\ RegionOf[l] \in LeavesOf(b) /\ l \notin leaf.seen
    <3>1. /\ listing[l].status # "none" /\ listing[l].seenAt <= leaf.at
          /\ b \in Scopes /\ leaf.at \in Time
      BY <1>4, <2>3 DEF Counted, MissedBy, Scopes
    <3>2. /\ absentAt[l] \subseteq absentAt'[l]
          /\ l \in In(r) \ seen => now \in absentAt'[l]
      BY <1>1, <2>3, <3>1, AbsencesStay
    <3>3. Merged(l) \subseteq Merged(l)' /\ absentAt'[l] \subseteq Merged(l)'
      BY <1>3, <3>2 DEF Merged
    <3>4. CASE RegionOf[l] = r
      <4>1. leaf.at = now /\ l \in In(r) \ seen
        BY <1>4, <2>3, <3>4 DEF In
      <4>2. now \in Merged(l)' /\ now \notin Merged(l)
        BY <1>1, <3>2, <3>3, <4>1 DEF Merged, Past
      <4> QED
        BY <2>3, <3>1, <3>3, <4>1, <4>2 DEF KeepsWithin
    <3>5. CASE RegionOf[l] # r
      <4>1. AbsenceStaged(l) /\ leaf = staged[RegionOf[l]]
        BY <1>4, <2>3, <3>5 DEF AbsenceStaged
      <4>2. listing[l].seenAt # leaf.at /\ (Later(l, leaf.at) => leaf.at \in absentAt[l])
        BY <3>1, <4>1 DEF IInv, StagedIsAbsence
      <4>3. Later(l, leaf.at)
        <5>1. listing[l].seenAt \in Nat /\ leaf.at \in Nat
          BY <1>1, <3>1 DEF TypeOK, Row, Time
        <5> HIDE DEF leaf
        <5> QED
          BY <3>1, <4>2, <5>1 DEF Later
      <4>4. leaf.at \in Merged(l)' /\ leaf.at \notin Merged(l)
        BY <3>2, <3>3, <4>1, <4>2, <4>3 DEF Merged
      <4> QED
        BY <2>3, <3>1, <3>3, <4>4 DEF KeepsWithin
    <3> QED
      BY <3>4, <3>5
  <2> QED
    BY <1>5, <2>1, <2>2, <2>3
<1> QED
  BY <1>2, <1>6, <1>7, <1>8

LEMMA InvariantHolds == Spec => []IInv
<1>1. Init => IInv
  <2> SUFFICES ASSUME Init PROVE IInv
    OBVIOUS
  <2>1. TypeOK
    BY InitTyped
  <2>2. Past /\ AbsencesAreLater
    BY DEF Init, Past, NoRow, AbsencesAreLater
  <2>3. StagedIsAbsence
    BY RegionOfListing DEF Init, StagedIsAbsence, AbsenceStaged
  <2>4. ASSUME NEW l \in Listings PROVE listing[l].misses <= Cardinality(Merged(l))
    <3>1. Cardinality(Merged(l)) \in Nat /\ listing[l].misses = 0
      BY <2>1, MergedIsFinite DEF Init, NoRow
    <3> QED
      BY <3>1
  <2> QED
    BY <2>1, <2>2, <2>3, <2>4 DEF MissesAreMerged, IInv
<1>2. ASSUME IInv, TypeOK', [Next]_vars PROVE IInv'
  <2>1. SUFFICES Past' /\ AbsencesAreLater' /\ StagedIsAbsence' /\ \A l \in Listings : KeepsWithin(l)
    BY <1>2, CountsKeepWithin DEF IInv
  <2>2. ASSUME NEW s \in Direct, NEW seen \in SUBSET Covered[s], DirectRun(s, seen)
        PROVE  Past' /\ AbsencesAreLater' /\ StagedIsAbsence' /\ \A l \in Listings : KeepsWithin(l)
    <3>1. \A l \in Listings : \/ Kept(l) \/ Sighted(l, now)
                              \/ l \in Covered[s] \ seen /\ \E t \in Scopes : Counted(l, t, now)
      BY <1>2, <2>2, DirectRunStores, ScopesAssumption DEF SightedOrStale, IInv
    <3>2. (Covered[s] \ seen) \in SUBSET Listings
      BY ScopesAssumption
    <3>3. Tick /\ UNCHANGED staged /\ Absent(Covered[s] \ seen)
      BY <2>2 DEF DirectRun
    <3> QED
      BY <1>2, <3>1, <3>2, <3>3, StoresNow
  <2>3. ASSUME NEW b \in Broad, NEW seen \in SUBSET Covered[b], FullMerged(b, seen)
        PROVE  Past' /\ AbsencesAreLater' /\ StagedIsAbsence' /\ \A l \in Listings : KeepsWithin(l)
    <3>1. \A l \in Listings : Kept(l) \/ Sighted(l, now)
      BY <1>2, <2>3, FullMergedStores DEF SightedOrStale, IInv
    <3>2. Tick /\ UNCHANGED staged /\ Absent({})
      BY <2>3 DEF FullMerged
    <3> QED
      BY <1>2, <3>1, <3>2, StoresNow
  <2>4. ASSUME UNCHANGED listing, NEW l \in Listings PROVE Kept(l)
    BY <1>2, <2>4 DEF Kept, KeptBy, IInv, TypeOK, Row
  <2>5. CASE UNCHANGED <<listing, staged, now, absentAt>>
    <3>1. Past' /\ AbsencesAreLater' /\ StagedIsAbsence'
      BY <1>2, <2>5 DEF IInv, Past, AbsencesAreLater, Later, StagedIsAbsence, AbsenceStaged
    <3>2. ASSUME NEW l \in Listings PROVE Merged(l)' = Merged(l)
      BY <2>5 DEF Merged, AbsenceStaged
    <3> QED
      BY <2>4, <2>5, <3>1, <3>2 DEF KeepsWithin
  <2> QED
    BY <1>2, <2>2, <2>3, <2>5, LeafStagedKeeps, CampaignMergedKeeps
       DEF Next, Regional, DatePasses, vars
<1> QED
  BY <1>1, <1>2, TypeCorrect, PTL DEF Spec

\* However many scopes there are, campaigns and direct runs alike, and in whatever
\* order their results come, old evidence never counts
\* (mark_missing_listings_for_scope with observed_no_later_than).
THEOREM EvidenceIsFresh == Spec => []MissesAreAbsences
<1>1. ASSUME IInv PROVE MissesAreAbsences
  <2> SUFFICES ASSUME NEW l \in Listings
               PROVE  listing[l].misses <= Cardinality(absentAt[l])
    BY DEF MissesAreAbsences
  <2>1. IsFiniteSet(absentAt[l])
    <3>1. IsFiniteSet(0..MaxTime) /\ absentAt[l] \in SUBSET (0..MaxTime)
      BY <1>1, BoundAssumption, FS_Interval DEF IInv, TypeOK, Time
    <3> QED
      BY <3>1, FS_Subset
  <2>2. Merged(l) \subseteq absentAt[l]
    BY DEF Merged
  <2>3. listing[l].misses \in Nat /\ listing[l].misses <= Cardinality(Merged(l))
    BY <1>1 DEF IInv, MissesAreMerged, TypeOK, Row
  <2> QED
    BY <2>1, <2>2, <2>3, OneMore
<1> QED
  BY <1>1, InvariantHolds, PTL

\* No merge takes a last_seen_at back (upsert_listing).
THEOREM SightingsGoForward == Spec => LaterSightingWins
<1> DEFINE Forward(l) == listing[l].status # "none" => listing'[l].seenAt >= listing[l].seenAt
<1>1. ASSUME TypeOK, [Next]_vars, NEW l \in Listings PROVE Forward(l)
  <2>1. listing[l].seenAt \in Nat
    BY <1>1 DEF TypeOK, Row, Time
  <2>2. CASE Unmarked(l)
    BY <2>1, <2>2 DEF Unmarked, Kept, KeptBy, Sighted, SeenIn, Time
  <2>3. ASSUME NEW c \in Sources, Marked(l, c) PROVE Forward(l)
    BY <2>1, <2>3 DEF Marked, Counted, MissedBy
  <2> QED
    BY <1>1, <2>2, <2>3, EveryStep
<1>2. TypeOK /\ [Next]_vars => [\A l \in Listings : Forward(l)]_vars
  BY <1>1
<1> QED
  BY <1>2, TypeCorrect, PTL DEF Spec, LaterSightingWins
==============================================================================
