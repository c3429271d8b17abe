----------------------------- MODULE AlertOutbox -----------------------------
(***************************************************************************)
(* What the delivery of alerts promises, whichever processes do it and     *)
(* wherever they die: an event, once stored, is never forgotten; a message *)
(* leaves for a channel only when its event is due; a delivery is          *)
(* confirmed once, for good, and only when the provider has told the       *)
(* program that it took the message.  That a message leaves only once is   *)
(* not promised: the provider's answer may be lost on the way.             *)
(***************************************************************************)
CONSTANTS
    Events,         \* alert events
    Deliveries      \* an event and the name of a channel

VARIABLES
    promised,       \* the events that have been stored
    due,            \* those that may be sent
    taken,          \* the deliveries a provider has taken
    acknowledged,   \* those it has told the program of
    confirmed       \* those the program knows it need not make again

vars == <<promised, due, taken, acknowledged, confirmed>>

Init ==
    /\ promised = {}
    /\ due = {}
    /\ taken = {}
    /\ acknowledged = {}
    /\ confirmed = {}

Promise(e) ==
    /\ e \notin promised
    /\ promised' = promised \cup {e}
    /\ UNCHANGED <<due, taken, acknowledged, confirmed>>

FallDue(e) ==
    /\ e \in promised \ due
    /\ due' = due \cup {e}
    /\ UNCHANGED <<promised, taken, acknowledged, confirmed>>

\* A message leaves, for the first time or again; the answer may get lost.
Deliver(d, told) ==
    /\ d[1] \in due
    /\ taken' = taken \cup {d}
    /\ acknowledged' = IF told THEN acknowledged \cup {d} ELSE acknowledged
    /\ UNCHANGED <<promised, due, confirmed>>

Confirm(d) ==
    /\ d \in acknowledged \ confirmed
    /\ confirmed' = confirmed \cup {d}
    /\ UNCHANGED <<promised, due, taken, acknowledged>>

Next ==
    \/ \E e \in Events : Promise(e) \/ FallDue(e)
    \/ \E d \in Deliveries :
          \/ \E told \in BOOLEAN : Deliver(d, told)
          \/ Confirm(d)

Spec == Init /\ [][Next]_vars
==============================================================================
