----------------------------- MODULE GasSession ------------------------------
(* `fill --optimize-gas` over a few state tests in one process: the search of *)
(* GasOptimizer whose every probe is a request of T8nServer, which may be     *)
(* repeated, answered late by a server that was started again, or fail the    *)
(* test.                                                                      *)
EXTENDS GasOptimizer, T8nServer

CONSTANT Tests                  \* bound: the tests of the session

ASSUME TestsAssumption == Tests \in Nat \ {0}

VARIABLES test,                 \* the one that is filled; Tests + 1 at the end
          number,               \* its block
          compared              \* its own outcome is known

sessionVars == <<searchVars, serverVars, test, number, compared>>

SessionInit ==
  /\ SearchInit /\ ServerInit
  /\ test = 1 /\ number \in {0, 1} /\ compared = FALSE

SearchOver == pc \in {"impossible", "too much", "assertion", "reported"}
TestOver == stage = "raised" \/ SearchOver
SessionOver == test > Tests

\* The test itself first, then one gas limit after the other.
Ask ==
  /\ ~SessionOver /\ ~TestOver
  /\ Evaluate(number)
  /\ UNCHANGED <<searchVars, test, number, compared>>

Serve == /\ ServerStep
         /\ UNCHANGED <<searchVars, test, number, compared>>

\* Without traces there is nothing to compare.
CompareOwn ==
  /\ stage = "answered" /\ ~compared
  /\ IF trace THEN compared' = TRUE /\ stage' = "idle"
              ELSE stage' = "raised" /\ UNCHANGED compared
  /\ UNCHANGED <<searchVars, settings, server, retries, test, number>>

Probe ==
  /\ stage = "answered" /\ compared
  /\ SearchNext
  /\ stage' = "idle"
  /\ UNCHANGED <<settings, server, retries, test, number, compared>>

\* The next test, with the same options and the same tool.
NextTest ==
  /\ TestOver /\ test < Tests
  /\ test' = test + 1 /\ number' \in {0, 1} /\ compared' = FALSE /\ stage' = "idle"
  /\ gasLimit' \in 1..MaxGasLimit
  /\ same' \in {s \in SUBSET (0..gasLimit') : gasLimit' \in s}
  /\ pc' = "first"
  /\ minimum' = None /\ maximum' = None /\ current' = None /\ reported' = None
  /\ UNCHANGED <<wanted, settings, server, retries>>

EndSession ==
  /\ TestOver /\ test = Tests
  /\ test' = Tests + 1
  /\ Shutdown
  /\ UNCHANGED <<searchVars, settings, serverUrl, left, health, stage, retries, number, compared>>

SessionNext == Ask \/ Serve \/ CompareOwn \/ Probe \/ NextTest \/ EndSession

SessionSpec == SessionInit /\ [][SessionNext]_sessionVars

\* A request is answered, refused or given up after its timeout; a start ends in time or
\* raises.  No answer is ever promised.
FairSession == SessionSpec /\ WF_sessionVars(SessionNext)

------------------------------------------------------------------------------
(* Properties.                                                                *)

\* A daemon is never forgotten while it runs: at most the one the tool holds does, and none
\* after the session.  No request is posted to a server that has left one unanswered, not
\* even the first one of the next test; only one that did not come up is tried again.
OneServer ==
  /\ left = 0
  /\ SessionOver => process # "running"
  /\ stage = "post" => health # "unanswered"

\* Whatever the tool does, every request comes to its end, and the session with them.
SessionEnds == <>SessionOver
==============================================================================
