---------------------------- MODULE MCSearchClient ----------------------------
(***************************************************************************)
(* An instance of SearchClient for TLC: the values of settings.py in half  *)
(* seconds, with the least budget a broad step is given and twice as much. *)
(* A deadline comes nearer while the client works, so that it is met from  *)
(* every distance.                                                         *)
(***************************************************************************)
EXTENDS SearchClient

SomeBudgets == {120, 240}
==============================================================================
