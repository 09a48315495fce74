-------------------------- MODULE MC_ChainBuilder ----------------------------
(* Small instances of ChainBuilder: two workers, each with the transactions   *)
(* of one or two tests.                                                       *)
EXTENDS ChainBuilder, TLC

CONSTANTS gw0, gw1

TwoWorkers == {gw0, gw1}

\* Workers differ in nothing but their name: sound for the runs without liveness.
WorkerSymmetry == Permutations(TwoWorkers)
==============================================================================
