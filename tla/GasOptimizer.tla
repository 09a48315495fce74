---------------------------- MODULE GasOptimizer -----------------------------
(* `fill --optimize-gas`: the binary search for the least gas limit at which  *)
(* a state test behaves the same (src/ethereum_test_specs/state.py).          *)
(*                                                                            *)
(* Each verification is one evaluation by the transition tool.  `same` is the *)
(* set of gas limits at which it finds the outcome unchanged: any set that    *)
(* holds the limit of the test itself.  Nothing makes it upward closed: a     *)
(* contract can read the gas it has left.                                     *)
EXTENDS Integers, FiniteSets

CONSTANT MaxGasLimit            \* bound: the gas limits of the tests tried

ASSUME MaxGasLimitAssumption == MaxGasLimit \in Nat \ {0}

VARIABLES gasLimit,             \* tx.gas_limit
          wanted,               \* --optimize-gas-max-gas-limit, or None
          same,                 \* the limits that verify_modified_gas_limit accepts
          pc, minimum, maximum, current,
          reported              \* _gas_optimization

searchVars == <<gasLimit, wanted, same, pc, minimum, maximum, current, reported>>
input == <<gasLimit, wanted, same>>

None == -1

SearchInit == /\ gasLimit \in 1..MaxGasLimit
        /\ wanted \in 0..MaxGasLimit \union {None}
        /\ same \in {s \in SUBSET (0..gasLimit) : gasLimit \in s}
        /\ pc = "first"
        /\ minimum = None /\ maximum = None /\ current = None /\ reported = None

Accepted(gas) == gas \in same

\* One less gas must be the same, or nothing can be compared.
First ==
  /\ pc = "first"
  /\ IF Accepted(gasLimit - 1)
     THEN pc' = "search" /\ minimum' = 0 /\ maximum' = gasLimit
     ELSE pc' = "impossible" /\ UNCHANGED <<minimum, maximum>>
  /\ UNCHANGED <<input, current, reported>>

Middle == (maximum + minimum) \div 2

TooMuch(gas) == wanted # None /\ gas > wanted

\* Mutant: the limit that succeeded is excluded.
LowerBelow ==
  /\ pc = "search"
  /\ minimum < maximum
  /\ Accepted(Middle)
  /\ current' = Middle
  /\ maximum' = IF Middle > minimum THEN Middle - 1 ELSE minimum
  /\ UNCHANGED <<input, pc, minimum, reported>>

Lower ==
  /\ pc = "search"
  /\ minimum < maximum
  /\ Accepted(Middle)
  /\ current' = Middle
  /\ maximum' = Middle
  /\ UNCHANGED <<input, pc, minimum, reported>>

Raise ==
  /\ pc = "search"
  /\ minimum < maximum
  /\ ~Accepted(Middle)
  /\ current' = Middle
  /\ minimum' = Middle + 1
  /\ pc' = IF TooMuch(minimum') THEN "too much" ELSE pc
  /\ UNCHANGED <<input, maximum, reported>>

\* The last probe is reported, once the limit the search ended at has been verified.
Report ==
  /\ pc = "search"
  /\ minimum = maximum
  /\ IF Accepted(minimum)
     THEN pc' = "reported" /\ reported' = current
     ELSE pc' = "assertion" /\ UNCHANGED reported
  /\ UNCHANGED <<input, minimum, maximum, current>>

SearchNext == First \/ Lower \/ Raise \/ Report

SearchSpec == SearchInit /\ [][SearchNext]_searchVars

------------------------------------------------------------------------------
(* The comparison of the two post states, verify_modified_gas_limit: base and *)
(* modified map addresses to nonces, or to no account.                        *)

\* The comparison of the keys is of modified with itself, as in the code.
AllocsAgree(base, modified) ==
  /\ Cardinality(DOMAIN base) = Cardinality(DOMAIN modified)
  /\ DOMAIN modified = DOMAIN modified
  /\ \A address \in DOMAIN base : /\ address \in DOMAIN modified
                                  /\ base[address] = modified[address]

------------------------------------------------------------------------------
(* Properties.                                                                *)

SearchTypeOK ==
  /\ gasLimit \in 1..MaxGasLimit
  /\ wanted \in 0..MaxGasLimit \union {None}
  /\ same \in SUBSET (0..gasLimit) /\ gasLimit \in same
  /\ pc \in {"first", "search", "impossible", "too much", "assertion", "reported"}
  /\ minimum \in 0..gasLimit \union {None} /\ maximum \in 0..gasLimit \union {None}
  /\ current \in 0..gasLimit \union {None} /\ reported \in 0..gasLimit \union {None}

\* The search narrows down a limit that is good and whose predecessor is bad: what is above
\* was verified, what is just below failed.  The loop ran at least once when it ends.
Bracket ==
  /\ pc # "assertion"
  /\ pc = "first" => current = None
  /\ pc \in {"search", "reported", "too much"} =>
       /\ minimum \in 0..maximum /\ maximum \in same
       /\ minimum = 0 \/ minimum - 1 \notin same
       /\ current \in {minimum - 1, maximum} \/ (current = None /\ minimum # maximum)
  /\ pc \in {"search", "reported"} => ~TooMuch(minimum)
  /\ pc = "too much" => TooMuch(minimum) /\ minimum > 0
  /\ pc = "reported" => minimum = maximum /\ reported = current

\* The limit the search ends at keeps the outcome and one less does not, whether or not
\* more gas always does: the assertion after the loop cannot fail.
EndsAtEdge ==
  /\ pc # "assertion"
  /\ pc = "reported" => minimum \in same /\ (minimum = 0 \/ minimum - 1 \notin same)

\* When more gas never changes the outcome, that limit is the least one.
EndsAtLeast ==
  pc = "reported" /\ (\A g \in same : g..gasLimit \subseteq same)
    => \A g \in same : minimum <= g

\* What is reported is that limit or one less: the last probe.
ReportsLastProbe == pc = "reported" => reported \in {minimum, minimum - 1}

\* A test that is reported needs no more than the limit wanted, and one that is refused has
\* a limit above it which the search could not go below.
WantedKept == /\ pc = "reported" => ~TooMuch(minimum)
              /\ pc = "too much" => minimum - 1 \notin same /\ minimum - 1 >= wanted

\* "print the minimum amount of gas at which the test still produces a correct post state
\* and the exact same trace": what is reported is at least such an amount.
ReportedIsEnough == pc = "reported" => reported \in same
==============================================================================
