--------------------------- MODULE MC_HiveSession ----------------------------
(* Small instances of HiveSession.                                            *)
EXTENDS HiveSession, TLC

CONSTANTS gw0, gw1, gw2

TwoWorkers == {gw0, gw1}
ThreeWorkers == {gw0, gw1, gw2}
ThirdLevel == {3}

WorkerSymmetry == Permutations(ThreeWorkers)
==============================================================================
