---------------------------- MODULE MCAlertEvents ----------------------------
(***************************************************************************)
(* Instance of AlertEvents for TLC: one listing, since no listing's events *)
(* depend on another's, in versions that differ in what is alert-relevant  *)
(* (the length, the kind of animal) and in what is not (the words).  One   *)
(* filter takes sits of any length with dogs; the other the longer sits    *)
(* with the word in their title, whatever the animal.                      *)
(***************************************************************************)
EXTENDS AlertEvents

CONSTANTS sit, dog_sit, long_sit

Central == <<"north-island", "auckland", "auckland-central">>
Short == [place |-> Central, city |-> Unset, days |-> 5, start |-> 2, end |-> 7, total |-> 1,
          animals |-> [dogs |-> 1, cats |-> 0], noPets |-> FALSE,
          rating |-> Unset, house |-> "House", words |-> {}]
Long     == [Short EXCEPT !.days = 20, !.end = 22]
Retitled == [Long EXCEPT !.words = {"wifi"}]
WithCat  == [Retitled EXCEPT !.animals = [dogs |-> 0, cats |-> 1]]

\* alert_filter_defaults.json, and two filters that override it.
Defaults == [place |-> Central, length |-> Unset, mode |-> "contained", from |-> Unset, to |-> Unset,
             minDays |-> Unset, maxDays |-> Unset, places |-> <<Unset, Unset, Unset>>,
             maxTotal |-> Unset, maxDogs |-> Unset, kinds |-> {"dogs"}, noPets |-> FALSE,
             minRating |-> Unset, houses |-> Unset, noHouses |-> {}, include |-> {}, exclude |-> {}]
DogWish  == Effective([to |-> 30], Defaults)
LongWish == Effective([length |-> "61", mode |-> "overlaps", kinds |-> {"dogs", "cats"},
                       include |-> {"wifi"}], Defaults)

TheListings == {sit}
TheContents == {Short, Long, Retitled, WithCat}
TheFilters  == {dog_sit, long_sit}
TheRules    == [f \in TheFilters |-> IF f = dog_sit THEN DogWish ELSE LongWish]
TheLengths  == [k \in {"60", "61"} |-> IF k = "60" THEN <<0, 7>> ELSE <<8, Unset>>]
==============================================================================
