-------------------------- MODULE RegionCollection --------------------------
(***************************************************************************)
(* What a broad scope promises, whatever the schedule, the site and the    *)
(* database do: at most one broad scope is being collected at a time; what *)
(* has been collected of it is only ever added to, one piece at a time; it *)
(* is published in one step, together with the last piece it lacked, and   *)
(* what is published is the whole scope.  A piece is what one search       *)
(* covers: the whole scope, or one of its regions.                         *)
(***************************************************************************)
CONSTANTS
    Scopes,         \* the broad logical scopes
    RegionsOf       \* RegionsOf[s]: the regions scope s is made of

VARIABLES
    open,           \* the scopes being collected
    gathered,       \* gathered[s]: the regions of s collected so far
    published       \* the regions of the last result that was published

vars == <<open, gathered, published>>

Pieces(s) == {RegionsOf[s]} \cup {{r} : r \in RegionsOf[s]}

Missing(s) == RegionsOf[s] \ gathered[s]

Init ==
    /\ open = {}
    /\ gathered = [s \in Scopes |-> {}]
    /\ published = {}

\* A collection starts from nothing, and only when no other one is open.
Open(s) ==
    /\ open = {}
    /\ open' = {s}
    /\ UNCHANGED <<gathered, published>>

\* One more piece is collected and something is still missing.
Gather(s) ==
    /\ s \in open
    /\ \E piece \in Pieces(s) :
          /\ piece \subseteq Missing(s)
          /\ piece # Missing(s)
          /\ gathered' = [gathered EXCEPT ![s] = @ \cup piece]
    /\ UNCHANGED <<open, published>>

\* The last piece is collected and the whole scope is published with it.
Publish(s) ==
    /\ s \in open
    /\ Missing(s) \in Pieces(s)
    /\ open' = {}
    /\ gathered' = [gathered EXCEPT ![s] = {}]
    /\ published' = RegionsOf[s]

Next == \E s \in Scopes : Open(s) \/ Gather(s) \/ Publish(s)

Spec == Init /\ [][Next]_vars
=============================================================================
