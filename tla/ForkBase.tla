------------------------------ MODULE ForkBase ------------------------------
(***************************************************************************)
(* What holds of forks whatever they answer: base_fork.py and              *)
(* transition_base_fork.py.  A transition fork answers as the fork before  *)
(* it or the one after, by number and time of a block; forks are ordered   *)
(* by inheritance.                                                         *)
(***************************************************************************)
EXTENDS Integers, Sequences, FiniteSets, TLC

CONSTANTS
    Class,       \* for the name of each fork what its class answers
    Transitions  \* for each transition fork [from, to, at_block, at_timestamp]

None == 0
ALL_FORKS == DOMAIN Class
ALL_TRANSITION_FORKS == DOMAIN Transitions
Forks_ == ALL_FORKS \union ALL_TRANSITION_FORKS

\* Inheritance is a partial order, and a transition goes from a fork to one that inherits
\* from it.
ASSUME LineageAssumption ==
    /\ IsFiniteSet(ALL_FORKS) /\ ALL_FORKS \intersect ALL_TRANSITION_FORKS = {}
    /\ \A f \in ALL_FORKS :
          /\ Class[f].name = f /\ f \in Class[f].ancestors /\ Class[f].ancestors \subseteq ALL_FORKS
          /\ \A a \in Class[f].ancestors :
                /\ Class[a].ancestors \subseteq Class[f].ancestors
                /\ f \in Class[a].ancestors => a = f
    /\ \A t \in ALL_TRANSITION_FORKS :
          /\ Transitions[t].to \in ALL_FORKS
          /\ Transitions[t].from \in Class[Transitions[t].to].ancestors
          /\ Transitions[t].at_block \in Nat /\ Transitions[t].at_timestamp \in Nat

(***************************************************************************)
(* The abstract methods, by subject: what every fork must answer, and a    *)
(* transition fork answers by the block it is asked about.                 *)
(***************************************************************************)
HeaderMethods ==
    {"base_fee", "prev_randao", "zero_difficulty", "withdrawals", "excess_blob_gas",
     "blob_gas_used", "beacon_root", "requests", "bal_hash"}

GasMethods ==
    {"gas", "base_fee_max_change_denominator", "base_fee_elasticity_multiplier",
     "max_refund_quotient"}

BlobMethods ==
    {"min_base_fee_per_blob_gas", "blob_gas_per_blob", "blob_base_fee_update_fraction",
     "supports_blobs", "target_blobs_per_block", "max_blobs_per_tx", "max_blobs_per_block",
     "blob_reserve_price_active", "blob_base_cost", "full_blob_tx_wrapper_version"}

RuleMethods ==
    {"get_reward", "tx_types", "contract_creating_tx_types", "transaction_gas_limit_cap",
     "block_rlp_size_limit", "precompiles", "system_contracts"}

EngineMethods ==
    {"engine_new_payload_version", "engine_new_payload_blob_hashes",
     "engine_new_payload_beacon_root", "engine_new_payload_requests",
     "engine_execution_payload_block_access_list", "forkchoice_updated_override",
     "get_payload_override", "engine_get_blobs_version"}

CodeMethods ==
    {"evm_code_types", "max_code_size", "max_stack_height", "max_initcode_size", "call_opcodes",
     "valid_opcodes", "create_opcodes", "max_request_type"}

base_fork_abstract_methods ==
    HeaderMethods \union GasMethods \union BlobMethods \union RuleMethods \union EngineMethods
    \union CodeMethods

\* prefer_transition_to_method: as the fork after the transition, whatever the block.
PreferredMethods == {"pre_allocation_blockchain", "bpo_fork"}

\* A transition fork is its from-fork by inheritance in all that is not abstract;
\* now is the fork its block falls in.
Transitioned(from, to, now) ==
    [m \in PreferredMethods \union base_fork_abstract_methods \union DOMAIN from |->
        IF m \in PreferredMethods THEN to[m]
        ELSE IF m \in base_fork_abstract_methods THEN now[m]
        ELSE from[m]]

\* A fork: the one before it and the one after it, what it answers before and after
\* its transition, and where that is. For a plain fork all are itself.
Fork(f) ==
    IF f \in ALL_FORKS
    THEN [name |-> f, from |-> Class[f], to |-> Class[f], before |-> Class[f], after |-> Class[f],
          at_block |-> 0, at_timestamp |-> 0]
    ELSE LET t == Transitions[f]
             from == Class[t.from]
             to == Class[t.to]
         IN  [name |-> f, from |-> from, to |-> to, before |-> Transitioned(from, to, from),
              after |-> Transitioned(from, to, to),
              at_block |-> t.at_block, at_timestamp |-> t.at_timestamp]

Reached(o, number, time) == number >= o.at_block /\ time >= o.at_timestamp

fork_at(o, number, time) == IF Reached(o, number, time) THEN o.to ELSE o.from

\* make_transition_method: any method of a fork, asked about a block.
Asked(o, number, time) == IF Reached(o, number, time) THEN o.after ELSE o.before

\* And asked about none: the defaults are long after any transition.
ALWAYS_TRANSITIONED_BLOCK_NUMBER == 10000
ALWAYS_TRANSITIONED_BLOCK_TIMESTAMP == 10000000
AskedOfNone(o) ==
    Asked(o, ALWAYS_TRANSITIONED_BLOCK_NUMBER, ALWAYS_TRANSITIONED_BLOCK_TIMESTAMP)

transitions_to(f) == IF f \in ALL_FORKS THEN f ELSE Transitions[f].to

\* Mutant: a fork that does not override the version has none.
OnlyOverridden(c) == c.forkchoice_updated_override

engine_forkchoice_updated_version(c) ==
    IF c.forkchoice_updated_override # None THEN c.forkchoice_updated_override
    ELSE c.engine_new_payload_version
engine_get_payload_version(c) ==
    IF c.get_payload_override # None THEN c.get_payload_override ELSE c.engine_new_payload_version

(***************************************************************************)
(* Descent: a fork is older than those that inherit from it, and a         *)
(* transition counts as the fork after it.                                 *)
(***************************************************************************)
Inherits(a, b) == transitions_to(b) \in Class[transitions_to(a)].ancestors

Le(a, b) == a = b \/ Inherits(b, a)
Lt(a, b) == a # b /\ Inherits(b, a)

\* The parameters of blobs of a fork and of those before it.
BlobEntries(c) ==
    {[fork |-> a, target |-> Class[a].target_blobs_per_block, max |-> Class[a].max_blobs_per_block,
      fraction |-> Class[a].blob_base_fee_update_fraction] :
        a \in {a \in c.ancestors : Class[a].supports_blobs}}

blob_schedule(o) == BlobEntries(o.to)
=============================================================================
