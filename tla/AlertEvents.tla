----------------------------- MODULE AlertEvents -----------------------------
(***************************************************************************)
(* Which alert events come of the observations of one listing after        *)
(* another (create_alert_events in alerts/events.py), given what the       *)
(* upsert makes of the row and what the lifecycle does to it in between.   *)
(* An observation and its events are stored in one transaction.            *)
(*                                                                         *)
(* What a listing says is a content.  Which contents a filter takes and    *)
(* which of them are the same news are told by AlertMatching.  A filter is *)
(* switched on and off; that its rules are edited under its name is left   *)
(* out.                                                                    *)
(***************************************************************************)
EXTENDS AlertMatching, Sequences

CONSTANTS
    Listings, Contents, Filters,
    Rules,          \* Rules[f]: what filter f asks of a listing
    None,
    MaxAppearance   \* bound: appearances of a listing

ASSUME ContentsAssumption == None \notin Contents
ASSUME AppearanceAssumption == MaxAppearance \in Nat

VARIABLES
    row,            \* row[l]: what listings holds of l
    enabled,        \* filters enabled in config/alert_filters.json
    events,         \* events[l][f]: rows of alert_events, oldest first
    judged,         \* history: the filters enabled when l was last observed
    detected        \* history: the local minute of the last observation

vars == <<row, enabled, events, judged, detected>>

Prints == {AlertFingerprint(c) : c \in Contents}
Types  == {"first_match", "became_match", "material_change", "confirmed_reappearance"}
Event  == [type : Types, appearance : 1..MaxAppearance, fp : Prints]
Status == {"none", "active", "missing_once", "missing_confirmed", "expired_by_date"}
Row    == [status : Status, content : Contents \cup {None}, appearance : 0..MaxAppearance]
NoRow  == [status |-> "none", content |-> None, appearance |-> 0]

TypeOK ==
    /\ row \in [Listings -> Row]
    /\ enabled \subseteq Filters
    /\ events \in [Listings -> [Filters -> Seq(Event)]]
    /\ judged \in [Listings -> SUBSET Filters]
    /\ detected \in Minutes

Last(h) == h[Len(h)]
------------------------------------------------------------------------------
\* upsert_listing: what is stored of an observation that is applied.
Upserted(r, c) ==
    [status |-> "active", content |-> c,
     appearance |-> IF r.status = "none" THEN 1
                    ELSE IF r.status = "missing_confirmed" THEN r.appearance + 1
                    ELSE r.appearance]

Created(r) == r.status = "none"

\* ListingUpsertResult.confirmed_reappearance.
\* Mutant: one missing run is evidence enough.
ReappearedAfterAny(r) == r.status \in {"missing_once", "missing_confirmed"}
Reappeared(r) == r.status = "missing_confirmed"

\* _event_type, given the earlier events h of the listing and the filter; none
\* when the latest of them is of the same fingerprint.
\* Mutant: a listing that comes to match later is not announced.
TypesIfNew(h, r, fp) ==
    CASE h = <<>> -> IF Created(r) THEN {"first_match"} ELSE {}
      [] h # <<>> /\ Last(h).fp = fp -> {}
      [] OTHER -> IF Reappeared(r) THEN {"confirmed_reappearance"} ELSE {"material_change"}
\* Mutant: any observation of a listing announced before is a change.
TypesUncompared(h, r, fp) ==
    CASE h = <<>> -> IF Created(r) THEN {"first_match"} ELSE {"became_match"}
      [] OTHER -> IF Reappeared(r) THEN {"confirmed_reappearance"} ELSE {"material_change"}
EventTypes(h, r, fp) ==
    CASE h = <<>> -> IF Created(r) THEN {"first_match"} ELSE {"became_match"}
      [] h # <<>> /\ Last(h).fp = fp -> {}
      [] OTHER -> IF Reappeared(r) THEN {"confirmed_reappearance"} ELSE {"material_change"}

\* The unique constraint of alert_events, on which the insert does nothing.
IsStored(h, appearance, fp) ==
    \E i \in 1..Len(h) : h[i].appearance = appearance /\ h[i].fp = fp

\* The history of one listing and filter after content c of row r is stored.
Announced(h, r, c) ==
    LET fp  == AlertFingerprint(c)
        seq == Upserted(r, c).appearance
        new == {[type |-> t, appearance |-> seq, fp |-> fp] : t \in EventTypes(h, r, fp)}
    IN IF IsStored(h, seq, fp) \/ new = {} THEN h ELSE Append(h, CHOOSE e \in new : TRUE)
------------------------------------------------------------------------------
Init ==
    /\ row = [l \in Listings |-> NoRow]
    /\ enabled = Filters
    /\ events = [l \in Listings |-> [f \in Filters |-> <<>>]]
    /\ judged = [l \in Listings |-> {}]
    /\ detected = 0

\* A successful run shows listing l with content c, at any time of the day.
Observe(l, c) ==
    /\ Upserted(row[l], c).appearance <= MaxAppearance
    /\ row' = [row EXCEPT ![l] = Upserted(@, c)]
    /\ events' = [events EXCEPT ![l] = [f \in Filters |->
          IF f \in enabled /\ ListingMatches(c, Rules[f])
          THEN Announced(events[l][f], row[l], c) ELSE events[l][f]]]
    /\ judged' = [judged EXCEPT ![l] = enabled]
    /\ detected' \in Minutes
    /\ UNCHANGED enabled

\* What the lifecycle of the listing does meanwhile (ListingLifecycle).
Close(l, status) ==
    /\ \/ status = "missing_once" /\ row[l].status = "active"
       \/ status = "missing_confirmed" /\ row[l].status \in {"active", "missing_once"}
       \/ status = "expired_by_date"
             /\ row[l].status \in {"active", "missing_once", "missing_confirmed"}
    /\ row' = [row EXCEPT ![l].status = status]
    /\ UNCHANGED <<enabled, events, judged, detected>>

\* The owner enables or disables a filter; the next run reads the file again.
EditFilter(f) ==
    /\ enabled' = IF f \in enabled THEN enabled \ {f} ELSE enabled \cup {f}
    /\ UNCHANGED <<row, events, judged, detected>>

Next ==
    \/ \E l \in Listings : \/ \E c \in Contents : Observe(l, c)
                           \/ \E status \in Status : Close(l, status)
    \/ \E f \in Filters : EditFilter(f)

Spec == Init /\ [][Next]_vars
------------------------------------------------------------------------------
\* A stored listing that matched a filter when it was last observed has been
\* announced by that filter as it stands, whether it matched from the start,
\* changed, came back, or the filter was enabled later (create_alert_events).
CurrentIsAnnounced ==
    \A l \in Listings : \A f \in judged[l] :
        ListingMatches(row[l].content, Rules[f]) =>
            \E i \in 1..Len(events[l][f]) : events[l][f][i].fp = AlertFingerprint(row[l].content)

\* No two events in a row say the same of a listing, whatever changed in its
\* title or rating, went missing and came back, or did not match in between.
NothingSaidTwiceRunning ==
    \A l \in Listings, f \in Filters :
        \A i \in 1..Len(events[l][f]) - 1 : events[l][f][i].fp # events[l][f][i + 1].fp

\* An event says confirmed_reappearance only if the listing has begun another
\* appearance since the event before it, and first_match only of a listing
\* that has never been away.
TypesTellTheHistory ==
    \A l \in Listings, f \in Filters :
        \A i \in 1..Len(events[l][f]) :
            LET e == events[l][f][i] IN
            /\ e.type = "confirmed_reappearance" =>
                  i > 1 /\ e.appearance > events[l][f][i - 1].appearance
            /\ e.type = "first_match" => i = 1 /\ e.appearance = 1

\* A listing that is as the latest event of a filter described it is still one
\* that the filter takes: no change of place, dates, length or animals is
\* silent.  It is so of a filter that does not ask for words, rating or house
\* type, and because whatever else a rule is asked of is in the list of
\* ALERT_FINGERPRINT_FIELDS, which the code keeps apart from the rules.
AnnouncementsStand ==
    \A l \in Listings, f \in Filters :
        /\ OfNoTaste(Rules[f])
        /\ events[l][f] # <<>>
        /\ Last(events[l][f]).fp = AlertFingerprint(row[l].content)
        => ListingMatches(row[l].content, Rules[f])

\* Whatever the quiet hours of a filter, an event is due at the first instant
\* from its detection on that is outside of them (deliver_after).
DeliveredAtFirstChance ==
    \A q \in QuietHours :
        LET t == [day |-> 0, minute |-> detected] IN IsFirstChance(t, DeliverAfter(t, q), q)
==============================================================================
