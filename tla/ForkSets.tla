------------------------------ MODULE ForkSets ------------------------------
(***************************************************************************)
(* Which forks a session fills for and which a test is valid for:          *)
(* ethereum_test_forks/helpers.py and the validity markers and covariant   *)
(* markers of pytest_plugins/forks/forks.py.                               *)
(***************************************************************************)
EXTENDS ForkBase

(***************************************************************************)
(* Ranges of forks.                                                        *)
(***************************************************************************)
get_from_until_fork_set(from, until) ==
    {f \in ALL_FORKS : \E a \in from, b \in until : Le(f, b) /\ Le(a, f)}

get_forks_with_no_parents(forks) == {f \in forks : \A g \in forks \ {f} : ~Lt(g, f)}
get_forks_with_no_descendants(forks) == {f \in forks : \A g \in forks \ {f} : ~Lt(f, g)}

get_last_descendants(forks, from) ==
    {f \in get_forks_with_no_descendants(forks) : \E a \in from : Le(a, f)}

get_deployed_forks == {f \in ALL_FORKS : Class[f].is_deployed}

transition_fork_to(to) == {f \in ALL_TRANSITION_FORKS : Transitions[f].to = to}
TransitionsTo(forks) == UNION {transition_fork_to(f) : f \in forks}

\* Mutant: without --until, up to the newest fork there is.
SelectedWithoutDeployed(single, from, until, transitions) ==
    LET first == IF from = {} THEN get_forks_with_no_parents(ALL_FORKS) ELSE from
        last == IF until = {} THEN get_last_descendants(ALL_FORKS, first) ELSE until
        forks == IF single # {} THEN single ELSE get_from_until_fork_set(first, last)
    IN  forks \union IF transitions THEN TransitionsTo(forks) ELSE {}

\* Without --from from the first fork on, without --until up to the last one that
\* is deployed; with the transitions to what was selected.
get_selected_fork_set(single, from, until, transitions) ==
    LET first == IF from = {} THEN get_forks_with_no_parents(ALL_FORKS) ELSE from
        last == IF until = {} THEN get_last_descendants(get_deployed_forks, first) ELSE until
        forks == IF single # {} THEN single ELSE get_from_until_fork_set(first, last)
    IN  forks \union IF transitions THEN TransitionsTo(forks) ELSE {}

(***************************************************************************)
(* Validity markers: the forks each names, {} where it is absent.          *)
(***************************************************************************)
ValidFrom(forks) == {f \in ALL_FORKS : \E a \in forks : Le(a, f)}
ValidUntil(forks) == {f \in ALL_FORKS : \E a \in forks : Le(f, a)}

\* until is looked at only with subsequent_forks.
ValidAtTransitionTo(forks, subsequent_forks, until) ==
    LET later == {f \in ALL_FORKS : \E a \in forks : Lt(a, f)}
        limited == {t \in TransitionsTo(later) : until = {} \/ \E u \in until : Le(t, u)}
    IN  TransitionsTo(forks) \union IF subsequent_forks THEN limited ELSE {}

BpoForks == {f \in ALL_FORKS : Class[f].bpo_fork}
ValidForBPOForks(flag) == IF flag THEN {} ELSE BpoForks \union TransitionsTo(BpoForks)

\* get_all_validity_markers and ValidAtTransitionTo refuse these.
MarkersRefused(m) ==
    m.to # {} /\ (m.from \union m.until \union m.at # {} \/ Cardinality(m.to) > 1)

NoMarker(m) == m.from \union m.until \union m.at \union m.to = {}

get_test_fork_set(m) ==
    LET Marked(by, valid) == IF by = {} THEN Forks_ ELSE valid
        all == IF NoMarker(m) THEN ALL_FORKS ELSE Forks_
        between == Marked(m.from, ValidFrom(m.from)) \intersect Marked(m.until, ValidUntil(m.until))
        at == Marked(m.at, m.at)
        to == Marked(m.to, ValidAtTransitionTo(m.to, m.subsequent_forks, m.transition_until))
    IN  (all \intersect between \intersect at \intersect to) \ ValidForBPOForks(m.bpo)

(***************************************************************************)
(* Covariant markers: a test for each value of the fork, read at the first *)
(* block; two lists that share a parameter are joined on it.               *)
(***************************************************************************)
CodeType(op) ==
    IF op \in {"EXTCALL", "EXTSTATICCALL", "EXTDELEGATECALL"} THEN "eof_v1" ELSE "legacy"

Covariants(c) ==
    LET Joined(ops) == {p \in ops \X c.evm_code_types : p[2] = CodeType(p[1])}
    IN  [tx_types |-> c.tx_types, contract_creating_tx_types |-> c.contract_creating_tx_types,
         precompiles |-> c.precompiles, system_contracts |-> c.system_contracts,
         calls |-> Joined(c.call_opcodes), creates |-> Joined(c.create_opcodes)]

\* Mutant: no block is named, so that a transition answers as the fork after it.
ParametersOfTo(o) == Covariants(AskedOfNone(o))

ParametersOf(o) == Covariants(Asked(o, 0, 0))

=============================================================================
