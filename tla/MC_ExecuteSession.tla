--------------------------- MODULE MC_ExecuteSession ---------------------------
(* Small instances of ExecuteSession.                                         *)
EXTENDS ExecuteSession

CONSTANTS gw0, gw1, gw2

TwoWorkers == {gw0, gw1}
OneSpare == {gw2}
================================================================================
