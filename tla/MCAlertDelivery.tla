--------------------------- MODULE MCAlertDelivery ---------------------------
(***************************************************************************)
(* An instance of AlertDelivery for TLC: two events and two channels, of   *)
(* which email comes first and has no provider, as in the program.         *)
(***************************************************************************)
EXTENDS AlertDelivery

CONSTANTS home_runner, cli

TwoEvents    == {1, 2}
TwoChannels  == <<"email", "telegram">>
TelegramOnly == {"telegram"}
OneProcess   == {home_runner}
TwoProcesses == {home_runner, cli}
==============================================================================
