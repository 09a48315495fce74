---------------------------- MODULE MC_FillPhases ----------------------------
(* A test that has every format, and one that has no grouped format.          *)
EXTENDS FillPhases

CONSTANTS paris, frontier

MCTests == {paris, frontier}
MCGrouped == {paris}
==============================================================================
