---------------------------- MODULE MCScrapeSplit ----------------------------
(***************************************************************************)
(* An instance of ScrapeSplit for TLC: three or four listings in three     *)
(* subregions, two of them of one region, and a cap of two that shows a    *)
(* listing a page, so that a cap is met on a first and on a later page of  *)
(* every kind of search; a fourth listing that is new, and two changes.    *)
(***************************************************************************)
EXTENDS ScrapeSplit

FourListings  == 1..4
ThreePlaces   == {<<"north", "auckland", "central">>, <<"north", "auckland", "manukau">>,
                  <<"south", "otago", "dunedin">>}
TwoLengths    == {"60", "61"}
OneLength     == {{"60"}, {"61"}}
AllOrAllButOne == {1..3, 1..4}
AllScopes     == {<<>>, <<"north">>, <<"north", "auckland">>, <<"north", "auckland", "central">>}
==============================================================================
