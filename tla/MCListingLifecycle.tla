-------------------------- MODULE MCListingLifecycle --------------------------
(***************************************************************************)
(* Instances of ListingLifecycle for TLC: listings named by the place they *)
(* are in, two golden scopes of which one covers the other, and two broad  *)
(* scopes of which one covers the other.                                   *)
(***************************************************************************)
EXTENDS ListingLifecycle, TLC

CONSTANTS
    auckland_central, auckland_region, north_island, all_nz,
    central, city, waikato

\* Bounds: three listings.  Two of them share a leaf and both golden scopes, so
\* that a result may show one and not the other; the third is outside Auckland and
\* the only one with an end date.
TwoInAuckland == {central, city, waikato}
OnlyWaikato   == {waikato}
SameScopes    == Permutations({central, city})

\* Bounds: three of the regions, auckland < waikato < wellington as in
\* REGION_FILTERS, so that the leaf of waikato is followed by another and waits for
\* the merge.  The South Island, which north_island does not select and the
\* evidence of which is all_nz's, is left out.
TheRegionOf    == [l \in Listings |-> CASE l \in {central, city} -> 1
                                        [] l = waikato -> 2]
TheIslandOf    == [r \in 1..3 |-> "north-island"]
TheStateFilter == [b \in Broad |-> "north-island"]

\* Both listings of Auckland are in the golden scopes' overlap.
TheCovered == [s \in Scopes |->
    CASE s \in {auckland_central, auckland_region} -> Listings \cap {central, city}
      [] s \in Broad           -> Listings]

TheNarrower == [s \in Scopes |->
    CASE s = auckland_central -> {auckland_central}
      [] s = auckland_region  -> Golden
      [] s = north_island     -> Scopes \ {all_nz}
      [] s = all_nz           -> Scopes]

\* auckland_central asks for more runs than the others (6 and 3 in the seed).
TheThreshold == [s \in Scopes |-> IF s = auckland_central THEN 3 ELSE 2]

GoldenScopes == {auckland_central, auckland_region}
BothBroad    == {north_island, all_nz}

\* An operator scrapes north_island by hand, too.
GoldenAndByHand == GoldenScopes \cup {north_island}

\* A campaign of each broad scope has been completed before, which advances no
\* golden scope.
BroadBaselined == {BothBroad}
==============================================================================
