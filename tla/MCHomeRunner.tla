----------------------------- MODULE MCHomeRunner -----------------------------
(***************************************************************************)
(* Instances of HomeRunner for TLC, with the values of settings.py in      *)
(* minutes and a whole day of 1440 of them.                                *)
(***************************************************************************)
EXTENDS HomeRunner

CONSTANTS first, second

OneRunner  == {first}
TwoRunners == {first, second}
TelegramOnly == {"telegram"}
==============================================================================
