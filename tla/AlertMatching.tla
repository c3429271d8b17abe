---------------------------- MODULE AlertMatching ----------------------------
(***************************************************************************)
(* The pure part of alerts (alerts/matcher.py, alerts/filter_config.py):   *)
(* which listings a filter takes, which changes of a listing are news, and *)
(* when an event may be delivered.                                         *)
(*                                                                         *)
(* A filter has a field for every rule, with Unset where the code has None *)
(* or no key; a listing has Unset where the site gave no value.  A text is *)
(* the set of the keywords found in it, and the hash of a fingerprint is   *)
(* the fields it is taken of.  Instants are local; the two days a year on  *)
(* which the clock is changed are not told from others.                    *)
(***************************************************************************)
EXTENDS Naturals

CONSTANTS
    Unset,
    LengthRange,    \* SIT_LENGTH_RANGES: the least and the greatest duration
    QuietHours,     \* the quiet hours a filter may have
    DayLength       \* minutes in a day

Minutes == 0..DayLength - 1

\* _parse_quiet_hours: a window has two ends, and may span midnight.
Windows == {q \in [start : Minutes, end : Minutes] : q.start # q.end}

ASSUME QuietHoursAssumption == DayLength \in Nat \ {0} /\ QuietHours \subseteq Windows

\* What a named filter or its quiet hours leave out comes from the defaults,
\* field by field (_parse_filter, _parse_delivery_override).
Effective(overrides, defaults) ==
    [x \in DOMAIN defaults |-> IF x \in DOMAIN overrides THEN overrides[x] ELSE defaults[x]]
------------------------------------------------------------------------------
AtLeast(value, least) == least = Unset \/ (value # Unset /\ value >= least)
AtMost(value, most)   == most = Unset \/ (value # Unset /\ value <= most)
Allowed(value, set)   == set = Unset \/ value \in set

\* A site filter names an island, a region and a subregion, or fewer of them.
InPlace(l, w) == \A i \in 1..3 : w.place[i] \in {Unset, l.place[i]}

OfLength(l, w) ==
    w.length # Unset =>
        /\ AtLeast(l.days, LengthRange[w.length][1])
        /\ AtMost(l.days, LengthRange[w.length][2])

\* _matches_site_filter.
MatchesSite(l, w) == InPlace(l, w) /\ OfLength(l, w)

\* The sit lies within the window, or has a day in it.
InWindow(l, w) ==
    IF w.mode = "contained"
    THEN AtLeast(l.start, w.from) /\ AtMost(l.end, w.to)
    ELSE AtLeast(l.end, w.from) /\ AtMost(l.start, w.to)

\* Every kind of animal has to be allowed, and so has a sit without any.
AnimalsAllowed(l, w) ==
    /\ \A kind \in DOMAIN l.animals : l.animals[kind] > 0 => kind \in w.kinds
    /\ l.noPets => w.noPets

\* Rating, house type and words: what is no part of the fingerprint.
MatchesTaste(l, w) ==
    /\ AtLeast(l.rating, w.minRating)
    /\ Allowed(l.house, w.houses) /\ l.house \notin w.noHouses
    /\ w.include \subseteq l.words /\ w.exclude \cap l.words = {}

\* _matches_local_filter.
MatchesLocal(l, w) ==
    /\ InWindow(l, w)
    /\ AtLeast(l.days, w.minDays) /\ AtMost(l.days, w.maxDays)
    /\ \A i \in 1..3 : Allowed(l.place[i], w.places[i])
    /\ AtMost(l.total, w.maxTotal) /\ AtMost(l.animals["dogs"], w.maxDogs)
    /\ AnimalsAllowed(l, w)
    /\ MatchesTaste(l, w)

\* listing_matches_filter, of an enabled filter.
ListingMatches(l, w) == MatchesSite(l, w) /\ MatchesLocal(l, w)

\* ALERT_FINGERPRINT_FIELDS.
\* Mutant: the list counts the animals and forgets their kinds.
FieldsButKinds == {"place", "city", "days", "start", "end", "total", "noPets"}
FingerprintFields == {"place", "city", "days", "start", "end", "total", "animals", "noPets"}

AlertFingerprint(l) == [x \in FingerprintFields |-> l[x]]
------------------------------------------------------------------------------
Instant == [day : Nat, minute : Minutes]

\* Mutant: a window that spans midnight ends on the day it began.
DeliverAfterSameDay(t, q) ==
    IF q.start < q.end
    THEN IF q.start <= t.minute /\ t.minute < q.end
         THEN [day |-> t.day, minute |-> q.end] ELSE t
    ELSE IF q.start <= t.minute \/ t.minute < q.end
         THEN [day |-> t.day, minute |-> q.end] ELSE t
\* deliver_after, in local time: the time of an event detected at t.
DeliverAfter(t, q) ==
    IF q.start < q.end
    THEN IF q.start <= t.minute /\ t.minute < q.end
         THEN [day |-> t.day, minute |-> q.end] ELSE t
    ELSE CASE q.start <= t.minute -> [day |-> t.day + 1, minute |-> q.end]
           [] t.minute < q.end    -> [day |-> t.day, minute |-> q.end]
           [] OTHER               -> t
------------------------------------------------------------------------------
\* A filter that asks for nothing outside the fingerprint.
OfNoTaste(w) ==
    /\ w.minRating = Unset /\ w.houses = Unset
    /\ w.noHouses = {} /\ w.include = {} /\ w.exclude = {}

IsQuiet(t, q) ==
    IF q.start < q.end THEN t.minute \in q.start..q.end - 1
    ELSE t.minute \notin q.end..q.start - 1

NoLater(t, u) == t.day < u.day \/ (t.day = u.day /\ t.minute <= u.minute)

\* u is t, or the end of the quiet hours t is in, and nothing later: what
\* deliver_after promises of every window, one that spans midnight included.
IsFirstChance(t, u, q) ==
    /\ NoLater(t, u) /\ ~IsQuiet(u, q)
    /\ \A v \in [day : {t.day, t.day + 1}, minute : Minutes] :
          NoLater(t, v) /\ ~IsQuiet(v, q) => NoLater(u, v)
==============================================================================
