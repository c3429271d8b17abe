--------------------------- MODULE MCBroadCampaign ---------------------------
(***************************************************************************)
(* Instances of BroadCampaign for TLC.  all_nz covers north_island.  The   *)
(* times are scaled down and keep their order: one or two ticks between    *)
(* leaves, a split rests as long, any other failure longer, a WAF          *)
(* challenge longest and twice as long the second time.                    *)
(***************************************************************************)
EXTENDS BroadCampaign, TLC

CONSTANTS runner, cli, north_island, all_nz, c1, c2, c3

\* Bound: north_island has 2 regions and all_nz 3 (10 and 15 in the code).
TheScopes    == {north_island, all_nz}
TheRegionsOf == [s \in TheScopes |-> IF s = all_nz THEN {1, 2, 3} ELSE {1, 2}]

OneProcess   == {runner}
TwoProcesses == {runner, cli}
\* One id for every process that may still hold one, and one for the next campaign.
TwoIds       == {c1, c2}
ThreeIds     == {c1, c2, c3}

IdSymmetry   == Permutations(ThreeIds)
==============================================================================
