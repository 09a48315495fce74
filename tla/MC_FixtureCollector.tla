------------------------- MODULE MC_FixtureCollector -------------------------
(* Two modules: one with two functions, of two tests and of one, and one with *)
(* one function of one test.                                                  *)
EXTENDS FixtureCollector, TLC

CONSTANTS gw0, gw1, gw2, t1, t2, t3, t4

MCWorkers == {gw0, gw1, gw2}
MCTests == {t1, t2, t3, t4}
MCFunctionOf == t1 :> "f" @@ t2 :> "f" @@ t3 :> "g" @@ t4 :> "h"
MCModuleOf == t1 :> "m" @@ t2 :> "m" @@ t3 :> "m" @@ t4 :> "n"

\* Workers differ in nothing but their name, and so do the two tests of a function.
Perms == Permutations(MCWorkers) \union Permutations({t1, t2})
==============================================================================
