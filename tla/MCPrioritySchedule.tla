-------------------------- MODULE MCPrioritySchedule --------------------------
(***************************************************************************)
(* Instances of PrioritySchedule for TLC.  A tick is two units of time and *)
(* the grace is one, so that a scrape may still succeed within the grace   *)
(* or beyond it; Central is due at every tick, as every 5 minutes, North   *)
(* Shore at every second one, as every 10, and the region at every fourth. *)
(* The cooldown of a challenge is three ticks, as it is 15 minutes, and    *)
(* that of a failure the scope's own interval.                             *)
(***************************************************************************)
EXTENDS PrioritySchedule

CONSTANTS auckland_central, north_shore_city, auckland_region

ThreeScopes == {auckland_central, north_shore_city, auckland_region}

Rows == [s \in ThreeScopes |->
            CASE s = auckland_central -> 2
              [] s = north_shore_city -> 3
              [] OTHER -> 1]

Map == [s \in ThreeScopes |->
           CASE s = auckland_central -> {"central"}
             [] s = north_shore_city -> {"shore"}
             [] OTHER -> {"central", "shore", "rodney"}]

Cadence == [s \in ThreeScopes |->
               CASE s = auckland_central -> 2
                 [] s = north_shore_city -> 4
                 [] OTHER -> 8]
==============================================================================
