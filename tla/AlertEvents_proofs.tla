-------------------------- MODULE AlertEvents_proofs --------------------------
(***************************************************************************)
(* AlertEvents and the rules of AlertMatching, for all listings, contents, *)
(* filters and quiet hours.                                                *)
(***************************************************************************)
EXTENDS AlertEvents, TLAPS

\* Listings of one fingerprint agree on each of its fields (alert_fingerprint).
LEMMA SameFields ==
    ASSUME NEW l, NEW m, AlertFingerprint(l) = AlertFingerprint(m)
    PROVE  \A x \in FingerprintFields : l[x] = m[x]
<1> TAKE x \in FingerprintFields
<1>1. AlertFingerprint(l)[x] = AlertFingerprint(m)[x]
  OBVIOUS
<1> QED
  BY <1>1 DEF AlertFingerprint

\* Every filter that asks for no words, rating or house type takes listings of
\* one fingerprint alike (listing_matches_filter, alert_fingerprint).
THEOREM FingerprintDecides ==
    ASSUME NEW l, NEW m, NEW w, OfNoTaste(w), AlertFingerprint(l) = AlertFingerprint(m)
    PROVE  ListingMatches(l, w) <=> ListingMatches(m, w)
<1>1. \A x \in FingerprintFields : l[x] = m[x]
  BY SameFields
<1>2. /\ l.place = m.place /\ l.days = m.days /\ l.start = m.start /\ l.end = m.end
      /\ l.total = m.total /\ l.animals = m.animals /\ l.noPets = m.noPets
  BY <1>1 DEF FingerprintFields
<1>3. MatchesSite(l, w) <=> MatchesSite(m, w)
  BY <1>2 DEF MatchesSite, InPlace, OfLength
<1>4. MatchesTaste(l, w) /\ MatchesTaste(m, w)
  BY DEF MatchesTaste, OfNoTaste, AtLeast, Allowed
<1>5. MatchesLocal(l, w) <=> MatchesLocal(m, w)
  BY <1>2, <1>4 DEF MatchesLocal, InWindow, AnimalsAllowed
<1> QED
  BY <1>3, <1>5 DEF ListingMatches

\* Whatever the window, an event waits for its end and no longer, and not at
\* all outside it (deliver_after).
LEMMA DeferredToTheEnd ==
    ASSUME NEW q \in QuietHours, NEW minute \in Minutes
    PROVE  LET t == [day |-> 0, minute |-> minute] IN IsFirstChance(t, DeliverAfter(t, q), q)
<1> DEFINE t == [day |-> 0, minute |-> minute]
           u == DeliverAfter(t, q)
<1>1. /\ DayLength \in Nat /\ minute \in 0..DayLength - 1
      /\ q.start \in 0..DayLength - 1 /\ q.end \in 0..DayLength - 1 /\ q.start # q.end
  BY QuietHoursAssumption DEF Minutes, Windows
<1>2. /\ u.day \in {0, 1} /\ u.minute \in 0..DayLength - 1
      /\ u = IF q.start < q.end
             THEN IF q.start <= minute /\ minute < q.end
                  THEN [day |-> 0, minute |-> q.end] ELSE t
             ELSE IF q.start <= minute THEN [day |-> 1, minute |-> q.end]
             ELSE IF minute < q.end THEN [day |-> 0, minute |-> q.end] ELSE t
  BY <1>1 DEF DeliverAfter
<1>3. NoLater(t, u)
  BY <1>1, <1>2 DEF NoLater
<1>4. ~IsQuiet(u, q)
  BY <1>1, <1>2 DEF IsQuiet
<1>5. ASSUME NEW v \in [day : {t.day, t.day + 1}, minute : Minutes], NoLater(t, v), ~IsQuiet(v, q)
      PROVE  NoLater(u, v)
  <2>1. v.day \in {0, 1} /\ v.minute \in 0..DayLength - 1
    BY <1>5 DEF Minutes
  <2> QED
    BY <1>1, <1>2, <1>5, <2>1 DEF NoLater, IsQuiet
<1> QED
  BY <1>3, <1>4, <1>5 DEF IsFirstChance
------------------------------------------------------------------------------
\* A listing that has a row has appeared, and no other.
HasAppeared == \A l \in Listings : row[l].status = "none" <=> row[l].appearance = 0

\* Every event describes a content that its filter takes.
Describes(e, f) == \E c \in Contents : e.fp = AlertFingerprint(c) /\ ListingMatches(c, Rules[f])
AllDescribe ==
    \A l \in Listings, f \in Filters : \A i \in 1..Len(events[l][f]) : Describes(events[l][f][i], f)

\* No event is of an appearance that is yet to come.
AllDated ==
    \A l \in Listings, f \in Filters :
        \A i \in 1..Len(events[l][f]) : events[l][f][i].appearance <= row[l].appearance

IInv ==
    /\ TypeOK /\ HasAppeared /\ AllDescribe /\ AllDated
    /\ CurrentIsAnnounced /\ NothingSaidTwiceRunning /\ TypesTellTheHistory

\* What the code makes of an event of row r that comes after history h.
IsTold(e, h, r) ==
    /\ e.appearance >= r.appearance
    /\ e.type = "first_match" => h = <<>> /\ e.appearance = 1
    /\ e.type = "confirmed_reappearance" => h # <<>> /\ e.appearance > r.appearance

\* The upsert leaves a row that is typed and has appeared (upsert_listing).
LEMMA UpsertedRow ==
    ASSUME NEW r \in Row, r.status = "none" <=> r.appearance = 0, NEW c \in Contents,
           Upserted(r, c).appearance <= MaxAppearance
    PROVE  /\ Upserted(r, c) \in Row /\ Upserted(r, c).content = c
           /\ Upserted(r, c).appearance >= 1 /\ Upserted(r, c).appearance >= r.appearance
<1>1. r.appearance \in Nat /\ MaxAppearance \in Nat
  BY AppearanceAssumption DEF Row
<1>2. /\ Upserted(r, c).appearance \in Nat
      /\ Upserted(r, c).appearance >= 1 /\ Upserted(r, c).appearance >= r.appearance
  BY <1>1 DEF Upserted
<1>3. Upserted(r, c).appearance \in 0..MaxAppearance
  BY <1>1, <1>2
<1> QED
  BY <1>2, <1>3 DEF Upserted, Row, Status

\* What an observation adds to the events of a filter: nothing, or one event of
\* the content observed, which is not what the latest said already; and
\* some event of that fingerprint there is (create_alert_events).
LEMMA AnnouncedHistory ==
    ASSUME NEW h \in Seq(Event), NEW r \in Row, r.status = "none" <=> r.appearance = 0,
           NEW c \in Contents, Upserted(r, c).appearance <= MaxAppearance
    PROVE  /\ \/ Announced(h, r, c) = h
              \/ \E e \in Event : /\ Announced(h, r, c) = Append(h, e)
                                  /\ e.fp = AlertFingerprint(c)
                                  /\ e.appearance = Upserted(r, c).appearance
                                  /\ h # <<>> => Last(h).fp # e.fp
                                  /\ IsTold(e, h, r)
           /\ \E i \in 1..Len(Announced(h, r, c)) :
                 Announced(h, r, c)[i].fp = AlertFingerprint(c)
<1> DEFINE fp  == AlertFingerprint(c)
           seq == Upserted(r, c).appearance
           new == {[type |-> t, appearance |-> seq, fp |-> fp] : t \in EventTypes(h, r, fp)}
<1>1. seq \in 1..MaxAppearance /\ fp \in Prints
  BY UpsertedRow DEF Row, Prints
<1>2. CASE IsStored(h, seq, fp)
  BY <1>2 DEF IsStored, Announced
<1>3. CASE ~IsStored(h, seq, fp) /\ h # <<>> /\ Last(h).fp = fp
  <2>1. EventTypes(h, r, fp) = {}
    BY <1>3 DEF EventTypes
  <2>2. Announced(h, r, c) = h
    BY <2>1 DEF Announced
  <2> QED
    BY <1>3, <2>2 DEF Last
<1>4. CASE ~IsStored(h, seq, fp) /\ (h # <<>> => Last(h).fp # fp)
  <2>1. PICK t \in Types : EventTypes(h, r, fp) = {t}
    BY <1>4 DEF EventTypes, Types
  <2> DEFINE e == [type |-> t, appearance |-> seq, fp |-> fp]
  <2>2. new = {e}
    BY <2>1
  <2>3. (CHOOSE x \in new : TRUE) = e
    BY <2>2
  <2>4. Announced(h, r, c) = Append(h, e)
    <3> HIDE DEF e
    <3> QED
      BY <1>4, <2>2, <2>3 DEF Announced
  <2>5. e \in Event
    BY <1>1 DEF Event
  <2>6. e.fp = fp /\ e.appearance = seq
    OBVIOUS
  <2>7. IsTold(e, h, r)
    <3>1. seq >= r.appearance
      BY UpsertedRow
    <3>2. t = "first_match" => h = <<>> /\ seq = 1
      BY <2>1, <1>4 DEF EventTypes, Created, Upserted, Reappeared
    <3>3. t = "confirmed_reappearance" => h # <<>> /\ r.status = "missing_confirmed"
      BY <2>1, <1>4 DEF EventTypes, Created, Reappeared
    <3>4. r.status = "missing_confirmed" => seq > r.appearance
      BY DEF Upserted, Row
    <3> QED
      BY <3>1, <3>2, <3>3, <3>4 DEF IsTold
  <2> HIDE DEF e
  <2>8. Len(Append(h, e)) \in 1..Len(Append(h, e)) /\ Append(h, e)[Len(Append(h, e))] = e
    BY <2>5
  <2> QED
    BY <1>4, <2>4, <2>5, <2>6, <2>7, <2>8
<1> QED
  BY <1>2, <1>3, <1>4
------------------------------------------------------------------------------
LEMMA InitIInv == Init => IInv
<1> SUFFICES ASSUME Init PROVE IInv
  OBVIOUS
<1>1. TypeOK
  <2>1. NoRow \in Row
    BY AppearanceAssumption DEF NoRow, Row, Status
  <2>2. 0 \in Minutes
    BY QuietHoursAssumption DEF Minutes
  <2> QED
    BY <2>1, <2>2 DEF Init, TypeOK
<1>2. HasAppeared
  BY DEF Init, HasAppeared, NoRow
<1>3. AllDescribe
  BY DEF Init, AllDescribe
<1>4. CurrentIsAnnounced
  BY DEF Init, CurrentIsAnnounced
<1>5. AllDated /\ NothingSaidTwiceRunning /\ TypesTellTheHistory
  BY DEF Init, AllDated, NothingSaidTwiceRunning, TypesTellTheHistory
<1> QED
  BY <1>1, <1>2, <1>3, <1>4, <1>5 DEF IInv

LEMMA ObserveIInv ==
    ASSUME IInv, NEW k \in Listings, NEW c \in Contents, Observe(k, c)
    PROVE  IInv'
<1> DEFINE r == row[k]
<1>1. /\ row \in [Listings -> Row] /\ r \in Row /\ (r.status = "none" <=> r.appearance = 0)
      /\ events \in [Listings -> [Filters -> Seq(Event)]]
      /\ judged \in [Listings -> SUBSET Filters] /\ enabled \subseteq Filters
  BY DEF IInv, TypeOK, HasAppeared
<1>2. /\ Upserted(r, c).appearance <= MaxAppearance
      /\ row' = [row EXCEPT ![k] = Upserted(r, c)]
      /\ events' = [events EXCEPT ![k] = [f \in Filters |->
            IF f \in enabled /\ ListingMatches(c, Rules[f])
            THEN Announced(events[k][f], r, c) ELSE events[k][f]]]
      /\ judged' = [judged EXCEPT ![k] = enabled]
      /\ detected' \in Minutes /\ enabled' = enabled
  BY <1>1 DEF Observe
<1>3. /\ Upserted(r, c) \in Row /\ Upserted(r, c).content = c
      /\ Upserted(r, c).appearance >= 1 /\ Upserted(r, c).appearance >= r.appearance
  <2> HIDE DEF r
  <2> QED
    BY <1>1, <1>2, UpsertedRow
\* A history stays as it is, or that of k gains an event of c if the filter takes c.
<1>4. ASSUME NEW l \in Listings, NEW f \in Filters
      PROVE  \/ events'[l][f] = events[l][f]
             \/ \E e \in Event : /\ events'[l][f] = Append(events[l][f], e)
                                 /\ Describes(e, f)
                                 /\ events[l][f] # <<>> => Last(events[l][f]).fp # e.fp
                                 /\ e.appearance = row'[l].appearance
                                 /\ IsTold(e, events[l][f], row[l])
  <2>1. CASE l = k /\ f \in enabled /\ ListingMatches(c, Rules[f])
    <3>1. events'[l][f] = Announced(events[l][f], r, c) /\ events[l][f] \in Seq(Event)
      BY <1>1, <1>2, <2>1
    <3>2. row'[l] = Upserted(r, c) /\ row[l] = r
      BY <1>1, <1>2, <2>1
    <3> HIDE DEF r
    <3> QED
      BY <1>1, <1>2, <2>1, <3>1, <3>2, AnnouncedHistory DEF Describes
  <2>2. CASE ~(l = k /\ f \in enabled /\ ListingMatches(c, Rules[f]))
    BY <1>1, <1>2, <2>2
  <2> QED
    BY <2>1, <2>2
<1>5. ASSUME NEW l \in Listings, NEW f \in Filters
      PROVE  events'[l][f] \in Seq(Event) /\ events[l][f] \in Seq(Event)
  <2>1. events[l][f] \in Seq(Event)
    BY <1>1
  <2>2. ASSUME NEW e \in Event, events'[l][f] = Append(events[l][f], e)
        PROVE  events'[l][f] \in Seq(Event)
    BY <2>1, <2>2
  <2> QED
    BY <1>4, <2>1, <2>2
<1>6. TypeOK'
  <2>1. events' \in [Listings -> [Filters -> Seq(Event)]]
    <3>1. DOMAIN events' = Listings /\ events' = [l \in Listings |-> events'[l]]
      BY <1>1, <1>2
    <3>2. ASSUME NEW l \in Listings PROVE events'[l] \in [Filters -> Seq(Event)]
      <4>1. events'[l] = [f \in Filters |-> events'[l][f]]
        BY <1>1, <1>2
      <4> QED
        BY <1>5, <4>1
    <3> QED
      BY <3>1, <3>2
  <2> QED
    BY <1>1, <1>2, <1>3, <2>1 DEF TypeOK
<1>7. HasAppeared'
  <2>1. Upserted(r, c).status # "none" /\ Upserted(r, c).appearance # 0
    BY <1>3 DEF Upserted
  <2>2. ASSUME NEW l \in Listings PROVE row'[l] = IF l = k THEN Upserted(r, c) ELSE row[l]
    BY <1>1, <1>2
  <2> QED
    BY <2>1, <2>2 DEF HasAppeared, IInv
<1>8. AllDescribe'
  <2> SUFFICES ASSUME NEW l \in Listings, NEW f \in Filters, NEW i \in 1..Len(events'[l][f])
               PROVE  Describes(events'[l][f][i], f)
    BY DEF AllDescribe, Describes
  <2>1. \A j \in 1..Len(events[l][f]) : Describes(events[l][f][j], f)
    BY DEF IInv, AllDescribe
  <2> QED
    BY <1>4, <1>5, <2>1
<1>9. CurrentIsAnnounced'
  <2> SUFFICES ASSUME NEW l \in Listings, NEW f \in judged'[l], ListingMatches(row'[l].content, Rules[f])
               PROVE  \E i \in 1..Len(events'[l][f]) :
                         events'[l][f][i].fp = AlertFingerprint(row'[l].content)
    BY DEF CurrentIsAnnounced
  <2>1. CASE l = k
    <3>1. row'[l].content = c /\ f \in enabled /\ f \in Filters
      BY <1>1, <1>2, <1>3, <2>1
    <3>2. events'[l][f] = Announced(events[l][f], r, c) /\ events[l][f] \in Seq(Event)
      BY <1>1, <1>2, <2>1, <3>1
    <3>3. \E i \in 1..Len(Announced(events[l][f], r, c)) :
             Announced(events[l][f], r, c)[i].fp = AlertFingerprint(c)
      <4> HIDE DEF r
      <4> QED
        BY <1>1, <1>2, <3>2, AnnouncedHistory
    <3> HIDE DEF r
    <3> QED
      BY <3>1, <3>2, <3>3
  <2>2. CASE l # k
    <3>1. row'[l] = row[l] /\ events'[l] = events[l] /\ judged'[l] = judged[l]
      BY <1>1, <1>2, <2>2
    <3> QED
      BY <3>1 DEF IInv, CurrentIsAnnounced
  <2> QED
    BY <2>1, <2>2
<1>10. NothingSaidTwiceRunning'
  <2> SUFFICES ASSUME NEW l \in Listings, NEW f \in Filters, NEW i \in 1..Len(events'[l][f]) - 1
               PROVE  events'[l][f][i].fp # events'[l][f][i + 1].fp
    BY DEF NothingSaidTwiceRunning
  <2>1. \A j \in 1..Len(events[l][f]) - 1 : events[l][f][j].fp # events[l][f][j + 1].fp
    BY DEF IInv, NothingSaidTwiceRunning
  <2>2. CASE events'[l][f] = events[l][f]
    BY <2>1, <2>2
  <2>3. ASSUME NEW e \in Event, events'[l][f] = Append(events[l][f], e),
               events[l][f] # <<>> => Last(events[l][f]).fp # e.fp
        PROVE  events'[l][f][i].fp # events'[l][f][i + 1].fp
    BY <1>5, <2>1, <2>3 DEF Last
  <2> QED
    BY <1>4, <2>2, <2>3
<1>11. ASSUME NEW l \in Listings
       PROVE  row'[l].appearance \in Nat /\ row[l].appearance \in Nat /\ row'[l].appearance >= row[l].appearance
  BY <1>1, <1>2, <1>3, <1>6 DEF TypeOK, Row
<1>12. AllDated'
  <2> SUFFICES ASSUME NEW l \in Listings, NEW f \in Filters, NEW i \in 1..Len(events'[l][f])
               PROVE  events'[l][f][i].appearance <= row'[l].appearance
    BY DEF AllDated
  <2>1. \A j \in 1..Len(events[l][f]) :
            events[l][f][j].appearance <= row[l].appearance /\ events[l][f][j].appearance \in Nat
    <3>1. ASSUME NEW j \in 1..Len(events[l][f]) PROVE events[l][f][j] \in Event
      BY <1>5
    <3> QED
      BY <3>1, AppearanceAssumption DEF IInv, AllDated, Event
  <2>2. CASE events'[l][f] = events[l][f]
    BY <1>11, <2>1, <2>2
  <2>3. ASSUME NEW e \in Event, events'[l][f] = Append(events[l][f], e), e.appearance = row'[l].appearance
        PROVE  events'[l][f][i].appearance <= row'[l].appearance
    BY <1>5, <1>11, <2>1, <2>3
  <2> QED
    BY <1>4, <2>2, <2>3
<1>13. TypesTellTheHistory'
  <2> SUFFICES ASSUME NEW l \in Listings, NEW f \in Filters, NEW i \in 1..Len(events'[l][f])
               PROVE  LET e == events'[l][f][i] IN
                      /\ e.type = "confirmed_reappearance" =>
                            i > 1 /\ e.appearance > events'[l][f][i - 1].appearance
                      /\ e.type = "first_match" => i = 1 /\ e.appearance = 1
    BY DEF TypesTellTheHistory
  <2> DEFINE h == events[l][f]
  <2>1. h \in Seq(Event) /\ (\A j \in 1..Len(h) : h[j].appearance <= row[l].appearance)
    BY <1>5 DEF IInv, AllDated
  <2>2. \A j \in 1..Len(h) :
            /\ h[j].type = "confirmed_reappearance" => j > 1 /\ h[j].appearance > h[j - 1].appearance
            /\ h[j].type = "first_match" => j = 1 /\ h[j].appearance = 1
    BY DEF IInv, TypesTellTheHistory
  <2>3. CASE events'[l][f] = h
    BY <2>2, <2>3
  <2>4. ASSUME NEW e \in Event, events'[l][f] = Append(h, e), IsTold(e, h, row[l])
        PROVE  LET g == events'[l][f][i] IN
               /\ g.type = "confirmed_reappearance" =>
                     i > 1 /\ g.appearance > events'[l][f][i - 1].appearance
               /\ g.type = "first_match" => i = 1 /\ g.appearance = 1
    <3> HIDE DEF h
    <3>1. CASE i \in 1..Len(h)
      <4>1. events'[l][f][i] = h[i] /\ (i > 1 => events'[l][f][i - 1] = h[i - 1])
        BY <2>1, <2>4, <3>1
      <4> QED
        BY <2>2, <3>1, <4>1
    <3>2. CASE i = Len(h) + 1
      <4>1. events'[l][f][i] = e /\ (h = <<>> => i = 1)
        BY <2>1, <2>4, <3>2
      <4>2. ASSUME h # <<>>, e.appearance > row[l].appearance
            PROVE  i > 1 /\ e.appearance > events'[l][f][i - 1].appearance
        <5>1. i > 1 /\ i - 1 \in 1..Len(h) /\ events'[l][f][i - 1] = h[i - 1]
          BY <2>1, <2>4, <3>2, <4>2
        <5>2. h[i - 1].appearance <= row[l].appearance /\ h[i - 1] \in Event
          BY <2>1, <5>1
        <5>3. h[i - 1].appearance \in Nat /\ e.appearance \in Nat
          BY <5>2, AppearanceAssumption DEF Event
        <5> QED
          BY <1>11, <4>2, <5>1, <5>2, <5>3
      <4> QED
        BY <2>4, <4>1, <4>2 DEF IsTold
    <3> QED
      BY <2>1, <2>4, <3>1, <3>2
  <2> QED
    BY <1>4, <2>3, <2>4
<1> QED
  BY <1>6, <1>7, <1>8, <1>9, <1>10, <1>12, <1>13 DEF IInv

LEMMA CloseIInv ==
    ASSUME IInv, NEW k \in Listings, NEW status \in Status, Close(k, status)
    PROVE  IInv'
<1>1. row \in [Listings -> Row]
  BY DEF IInv, TypeOK
<1>2. /\ row' = [row EXCEPT ![k] = [row[k] EXCEPT !.status = status]]
      /\ row[k].status # "none" /\ status # "none"
      /\ UNCHANGED <<enabled, events, judged, detected>>
  BY <1>1 DEF Close
<1>3. ASSUME NEW l \in Listings
      PROVE  /\ row'[l] \in Row /\ row'[l].content = row[l].content
             /\ row'[l].appearance = row[l].appearance
             /\ row'[l].status = "none" <=> row[l].status = "none"
  BY <1>1, <1>2 DEF Row
<1>4. TypeOK'
  BY <1>1, <1>2, <1>3 DEF IInv, TypeOK
<1>5. HasAppeared'
  BY <1>3 DEF IInv, HasAppeared
<1>6. AllDescribe' /\ NothingSaidTwiceRunning' /\ TypesTellTheHistory'
  BY <1>2 DEF IInv, AllDescribe, Describes, NothingSaidTwiceRunning, TypesTellTheHistory
<1>7. CurrentIsAnnounced' /\ AllDated'
  BY <1>2, <1>3 DEF IInv, CurrentIsAnnounced, AllDated
<1> QED
  BY <1>4, <1>5, <1>6, <1>7 DEF IInv

LEMMA NextIInv == IInv /\ [Next]_vars => IInv'
<1> SUFFICES ASSUME IInv, [Next]_vars PROVE IInv'
  OBVIOUS
<1>1. ASSUME NEW l \in Listings, NEW c \in Contents, Observe(l, c) PROVE IInv'
  BY <1>1, ObserveIInv
<1>2. ASSUME NEW l \in Listings, NEW status \in Status, Close(l, status) PROVE IInv'
  BY <1>2, CloseIInv
<1>3. ASSUME NEW f \in Filters, EditFilter(f) PROVE IInv'
  BY <1>3 DEF EditFilter, IInv, TypeOK, HasAppeared, AllDescribe, Describes, AllDated,
              CurrentIsAnnounced, NothingSaidTwiceRunning, TypesTellTheHistory
<1>4. CASE UNCHANGED vars
  BY <1>4 DEF vars, IInv, TypeOK, HasAppeared, AllDescribe, Describes, AllDated,
              CurrentIsAnnounced, NothingSaidTwiceRunning, TypesTellTheHistory
<1> QED
  BY <1>1, <1>2, <1>3, <1>4 DEF Next

LEMMA Inductive == Spec => []IInv
<1> QED
  BY InitIInv, NextIInv, PTL DEF Spec

\* The state is typed.
THEOREM TypeCorrect == Spec => []TypeOK
<1>1. IInv => TypeOK
  BY DEF IInv
<1> QED
  BY <1>1, Inductive, PTL

\* A listing that matched a filter when last observed has been announced by it
\* as it stands (create_alert_events).
THEOREM NothingMissed == Spec => []CurrentIsAnnounced
<1>1. IInv => CurrentIsAnnounced
  BY DEF IInv
<1> QED
  BY <1>1, Inductive, PTL

\* No two events in a row say the same of a listing (_event_type).
THEOREM NothingRepeated == Spec => []NothingSaidTwiceRunning
<1>1. IInv => NothingSaidTwiceRunning
  BY DEF IInv
<1> QED
  BY <1>1, Inductive, PTL

\* The types of events tell what has happened to the listing (_event_type).
THEOREM TypesAreTrue == Spec => []TypesTellTheHistory
<1>1. IInv => TypesTellTheHistory
  BY DEF IInv
<1> QED
  BY <1>1, Inductive, PTL

\* A listing that is as its latest event described it is one the filter takes:
\* the event described a content of the same fingerprint that it took.
THEOREM EventsStand == Spec => []AnnouncementsStand
<1>1. IInv => AnnouncementsStand
  <2> SUFFICES ASSUME IInv, NEW l \in Listings, NEW f \in Filters, OfNoTaste(Rules[f]),
                      events[l][f] # <<>>,
                      Last(events[l][f]).fp = AlertFingerprint(row[l].content)
               PROVE  ListingMatches(row[l].content, Rules[f])
    BY DEF AnnouncementsStand
  <2>1. events[l][f] \in Seq(Event)
    BY DEF IInv, TypeOK
  <2>2. Len(events[l][f]) \in 1..Len(events[l][f])
    BY <2>1
  <2>3. Describes(Last(events[l][f]), f)
    BY <2>2 DEF IInv, AllDescribe, Last
  <2> QED
    BY <2>3, FingerprintDecides DEF Describes
<1> QED
  BY <1>1, Inductive, PTL

\* An event is due at the first instant outside the quiet hours of its filter.
THEOREM FirstChance == Spec => []DeliveredAtFirstChance
<1>1. IInv => DeliveredAtFirstChance
  BY DeferredToTheEnd DEF IInv, TypeOK, DeliveredAtFirstChance
<1> QED
  BY <1>1, Inductive, PTL
==============================================================================
