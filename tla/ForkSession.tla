---------------------------- MODULE ForkSession ----------------------------
(***************************************************************************)
(* From the forks of the command line and the markers of a test to the     *)
(* headers and payloads of its blocks.  A session selects forks, collects  *)
(* one test of any validity, and fills it for one of its forks: a genesis  *)
(* and blocks whose numbers and times may cross the transition, each with  *)
(* the fields, fees and Engine API versions of the fork it falls in.       *)
(***************************************************************************)
EXTENDS ForkSets, ForkFees, AccessLists, Ruleset

CONSTANTS
    CommandLines,  \* [single, from, until: sets of forks, skip_transitions, single_fork_mode]
    MarkerSets,    \* [from, until, at, to, transition_until: sets of forks, subsequent_forks, bpo]
    Tools,         \* for each transition tool the forks it supports
    Geneses,       \* [number, base_fee, excess_blob_gas] of the genesis environment
    Blocks,        \* [number, timestamp, base_fee, excess_blob_gas, tx, invalid, access]
    StateTests,    \* as blocks, number and timestamp given
    MaxBlocks

VARIABLES
    stage,     \* "configure", "collect", "start", "genesis", "fill" or how the session ended
    selected,  \* the forks of the command line
    named,     \* the forks the command line names
    skipped,   \* those selected that the transition tool lacks
    markers,   \* of the test
    tests,     \* the forks it was parametrized with
    fork,      \* the one it is filled for, as its classes
    fixed,     \* before any block: covariant values, pre-allocation, blob schedule, and the
               \* variables a client for the fixture is started with
    env,       \* of the last block of the chain, with that block as the parent
    parent,    \* the header of that block
    block,     \* built last
    header,
    payload,   \* the parameters of its Engine API call
    count      \* blocks built

selection == <<selected, named, skipped, markers, tests>>
chain == <<fixed, env, parent, block, header, payload, count>>
forkVars == <<stage, selection, fork, chain>>

Missing == -1
Absent == [number |-> Missing]
NoMarkers == [from |-> {}, until |-> {}, at |-> {}, to |-> {}, transition_until |-> {},
              subsequent_forks |-> FALSE, bpo |-> FALSE]

(***************************************************************************)
(* What is assumed of the forks and of what a test gives.                  *)
(***************************************************************************)

\* Which fork brought which field of the header.
ASSUME FieldsAssumption ==
    \A f \in ALL_FORKS :
        LET c == Class[f]
        IN  /\ c.base_fee <=> "London" \in c.ancestors
            /\ c.zero_difficulty <=> "Paris" \in c.ancestors
            /\ c.withdrawals <=> "Shanghai" \in c.ancestors
            /\ c.excess_blob_gas <=> "Cancun" \in c.ancestors
            /\ c.blob_gas_used <=> "Cancun" \in c.ancestors
            /\ c.beacon_root <=> "Cancun" \in c.ancestors
            /\ c.requests <=> "Prague" \in c.ancestors
            /\ c.bal_hash <=> "Amsterdam" \in c.ancestors

\* Which version and which parameters of the Engine API.
ASSUME EngineAssumption ==
    \A f \in ALL_FORKS :
        LET c == Class[f]
        IN  /\ c.engine_new_payload_version \in Nat
            /\ c.engine_new_payload_version >= 3 <=> "Cancun" \in c.ancestors
            /\ c.engine_new_payload_version >= 4 <=> "Prague" \in c.ancestors
            /\ c.engine_new_payload_version >= 5 <=> "Amsterdam" \in c.ancestors
            /\ c.engine_new_payload_blob_hashes <=> "Cancun" \in c.ancestors
            /\ c.engine_new_payload_beacon_root <=> "Cancun" \in c.ancestors
            /\ c.engine_new_payload_requests <=> "Prague" \in c.ancestors
            /\ c.engine_execution_payload_block_access_list <=> "Amsterdam" \in c.ancestors
            /\ c.forkchoice_updated_override = IF "Prague" \in c.ancestors THEN 3 ELSE None
            /\ \A a \in c.ancestors :
                  Class[a].engine_new_payload_version <= c.engine_new_payload_version

\* What a test is parametrized with is never taken back by a later fork.
CovariantMethods == {"tx_types", "contract_creating_tx_types", "precompiles", "system_contracts",
                     "evm_code_types", "call_opcodes", "create_opcodes"}

ASSUME ValuesAssumption ==
    \A f \in ALL_FORKS : \A a \in Class[f].ancestors, m \in CovariantMethods :
        Class[a][m] \subseteq Class[f][m]

\* All forks come from one; what a deployed fork inherits from is deployed; and the
\* forks of blob parameters, if they come from the first, say so.
ASSUME DeployedAssumption ==
    /\ \E root \in ALL_FORKS : \A f \in ALL_FORKS : root \in Class[f].ancestors
    /\ \A f \in get_deployed_forks : Class[f].ancestors \subseteq get_deployed_forks
    /\ "BPO1" \in ALL_FORKS
    /\ \A f \in ALL_FORKS : "BPO1" \in Class[f].ancestors => Class[f].bpo_fork

\* The numbers the fees are made from.
GasFields == {"access_list_address", "access_list_storage", "initcode_word", "tx_data_zero",
              "tx_data_non_zero", "standard_token", "floor_token", "transaction",
              "transaction_create", "authorization"}

ASSUME FeesAssumption ==
    \A f \in ALL_FORKS :
        LET c == Class[f]
        IN  /\ \A k \in GasFields : c.gas[k] \in Nat
            /\ "London" \in c.ancestors => /\ c.base_fee_elasticity_multiplier = 2
                                           /\ c.base_fee_max_change_denominator = 8
            /\ c.blob_gas_per_blob \in Nat /\ c.max_blobs_per_block \in Nat
            /\ c.target_blobs_per_block \in 0..c.max_blobs_per_block /\ c.max_blobs_per_tx \in Nat
            /\ c.blob_gas_per_blob > 0 <=> "Cancun" \in c.ancestors
            /\ "Cancun" \in c.ancestors => c.max_blobs_per_block > 0 /\ "London" \in c.ancestors
            /\ c.blob_reserve_price_active => "Osaka" \in c.ancestors

\* A transaction of a fork with blobs still fits a block of a later one.
ASSUME BlobsAssumption ==
    \A f \in ALL_FORKS : \A a \in Class[f].ancestors :
        "Cancun" \in Class[a].ancestors =>
            /\ Class[a].blob_gas_per_blob = Class[f].blob_gas_per_blob
            /\ Class[a].max_blobs_per_tx <= Class[f].max_blobs_per_block

\* The defaults of an environment are before any transition, and a transition by number
\* alone brings none of the fields that are asked for at zero.
ASSUME TransitionAssumption ==
    \A t \in ALL_TRANSITION_FORKS :
        LET trans == Transitions[t]
        IN  /\ trans.at_block > 1 \/ trans.at_timestamp > 1000
            /\ trans.at_timestamp = 0 =>
                  /\ Class[trans.from].requests <=> Class[trans.to].requests
                  /\ Class[trans.from].bal_hash <=> Class[trans.to].bal_hash

\* What is allocated for a fork, its system contracts among it, is allocated for those
\* that inherit from it; Cancun brought the blobs.
ASSUME AllocationAssumption ==
    \A f \in ALL_FORKS :
        /\ \A a \in Class[f].ancestors :
              Class[a].system_contracts \union Class[a].pre_allocation_blockchain
                  \subseteq Class[f].pre_allocation_blockchain
        /\ Class[f].supports_blobs <=> "Cancun" \in Class[f].ancestors

\* The forks that have an entry in the ruleset are what their names say.
Mainnet == {"Frontier", "Paris"} \union ToSet(Numbered_) \union ToSet(Timed)
TimedTransitions ==
    <<"ParisToShanghaiAtTime15k", "ShanghaiToCancunAtTime15k", "CancunToPragueAtTime15k",
      "PragueToOsakaAtTime15k", "OsakaToBPO1AtTime15k", "BPO1ToBPO2AtTime15k",
      "BPO2ToBPO3AtTime15k", "BPO3ToBPO4AtTime15k">>
Goes(t, from, to, number, time) ==
    t \in ALL_TRANSITION_FORKS =>
        /\ Transitions[t].from = from /\ Transitions[t].at_block = number
        /\ Transitions[t].to = to /\ Transitions[t].at_timestamp = time

ASSUME NamesAssumption ==
    /\ Mainnet \intersect ALL_TRANSITION_FORKS = {}
    /\ (ToSet(TimedTransitions) \union {"BerlinToLondonAt5"}) \intersect ALL_FORKS = {}
    /\ Goes("BerlinToLondonAt5", "Berlin", "London", 5, 0)
    /\ \A k \in 1..8 :
          Goes(TimedTransitions[k], IF k = 1 THEN "Paris" ELSE Timed[k - 1], Timed[k], 0, 15000)
    /\ \A f \in Mainnet \intersect ALL_FORKS :
          "Cancun" \in Class[f].ancestors => f \in ToSet(Timed)

Optional == Nat \union {Missing}
Tx == [type : Nat \union {Missing}, zeros : Nat, nonzeros : Nat, creation : BOOLEAN, addresses : Nat,
       keys : Nat, authorizations : Nat, blobs : Nat]
GivenFees(b) == b.base_fee \in Optional /\ b.excess_blob_gas \in Optional

\* Transactions a test would send in this block: of a type of its fork.
Allowed(c, tx) ==
    /\ tx.type # Missing => tx.type \in c.tx_types
    /\ tx.creation => tx.type \in c.contract_creating_tx_types
    /\ tx.blobs <= c.max_blobs_per_tx

GasLimit == 100000

\* What a test gives is a number or nothing, and its transactions fit into a block.
ASSUME InputsAssumption ==
    /\ MaxBlocks \in Nat
    /\ \A c \in CommandLines : c.single \union c.from \union c.until \subseteq Forks_
    /\ \A g \in Geneses : g.number \in Optional /\ GivenFees(g)
    /\ \A b \in Blocks : b.number \in Optional /\ b.timestamp \in Optional /\ GivenFees(b) /\ b.tx \in Tx
    /\ \A s \in StateTests :
          /\ DOMAIN s = {"number", "timestamp", "base_fee", "excess_blob_gas", "tx", "invalid", "access"}
          /\ s.number \in Nat \ {0} /\ s.timestamp \in Nat /\ GivenFees(s) /\ s.tx \in Tx
    /\ \A b \in Blocks \union StateTests, f \in ALL_FORKS :
          Allowed(Class[f], b.tx) => transaction_intrinsic_cost(Class[f], b.tx) <= GasLimit

\* The lists of the tool, and what a test expects of them, are well formed.
ASSUME AccessAssumption ==
    \A b \in Blocks \union StateTests :
        /\ b.access.bal \in Seq(BalAccount)
        /\ \A address \in DOMAIN b.access.expectations : IsExpectation(b.access.expectations[address])

ForkInit ==
    /\ stage = "configure" /\ fork = Absent /\ count = 0
    /\ selected = {} /\ named = {} /\ skipped = {} /\ markers = NoMarkers /\ tests = {}
    /\ fixed = Absent /\ env = Absent /\ parent = Absent
    /\ block = Absent /\ header = Absent /\ payload = Absent

(***************************************************************************)
(* Selection.                                                              *)
(***************************************************************************)

\* pytest_configure
Configure ==
    /\ stage = "configure"
    /\ \E c \in CommandLines, tool \in Tools :
          LET both == c.single # {} /\ c.from \union c.until # {}
              forks == get_selected_fork_set(c.single, c.from, c.until, ~c.skip_transitions)
          IN  IF both \/ forks = {} \/ (c.single_fork_mode /\ Cardinality(forks) # 1)
              THEN stage' = "usage error" /\ UNCHANGED selection
              ELSE /\ stage' = "collect" /\ selected' = forks
                   /\ named' = c.single \union c.from \union c.until
                   /\ skipped' = forks \ tool /\ UNCHANGED <<markers, tests>>
    /\ UNCHANGED <<fork, chain>>

\* pytest_generate_tests, of a test that takes a fork
Collect ==
    /\ stage = "collect"
    /\ \E m \in MarkerSets :
          LET valid == get_test_fork_set(m)
          IN  IF MarkersRefused(m) \/ valid = {}
              THEN stage' = "failed" /\ UNCHANGED <<markers, tests>>
              ELSE stage' = "start" /\ markers' = m /\ tests' = valid \intersect selected
    /\ UNCHANGED <<selected, named, skipped, fork, chain>>

\* One of the tests runs; what the command line and the markers said is used up.
Start ==
    /\ stage = "start" /\ stage' = "genesis"
    /\ \E f \in tests \ skipped : fork' = Fork(f)
    /\ selected' = {} /\ named' = {} /\ skipped' = {} /\ markers' = NoMarkers /\ tests' = {}
    /\ UNCHANGED chain

(***************************************************************************)
(* Environments and headers.                                               *)
(***************************************************************************)
At(e) == Asked(fork, e.number, e.timestamp)
ForkOf(e) == fork_at(fork, e.number, e.timestamp)
Or(value, default) == IF value = Missing THEN default ELSE value
If(required, value) == IF required THEN value ELSE Missing

\* Mutant: the fork before the transition is asked, whatever the block.
RequirementsOfFrom(e) ==
    LET c == fork.before
    IN  [e EXCEPT
            !.withdrawals = Or(@, If(c.withdrawals, 0)),
            !.base_fee = IF c.base_fee /\ @ = Missing /\ e.parent_base_fee = Missing THEN 7 ELSE @,
            !.difficulty = IF c.zero_difficulty THEN 0
                           ELSE IF @ = Missing /\ e.parent_difficulty = Missing THEN 131072 ELSE @,
            !.excess = IF c.excess_blob_gas /\ @ = Missing /\ e.parent_excess = Missing THEN 0
                       ELSE @,
            !.beacon_root = Or(@, If(c.beacon_root, 0))]

\* Environment.set_fork_requirements
set_fork_requirements(e) ==
    LET c == At(e)
    IN  [e EXCEPT
            !.withdrawals = Or(@, If(c.withdrawals, 0)),
            !.base_fee = IF c.base_fee /\ @ = Missing /\ e.parent_base_fee = Missing THEN 7 ELSE @,
            !.difficulty = IF c.zero_difficulty THEN 0
                           ELSE IF @ = Missing /\ e.parent_difficulty = Missing THEN 131072 ELSE @,
            !.excess = IF c.excess_blob_gas /\ @ = Missing /\ e.parent_excess = Missing THEN 0
                       ELSE @,
            !.beacon_root = Or(@, If(c.beacon_root, 0))]

Environment == [
    number |-> 1, timestamp |-> 1000, base_fee |-> Missing, excess |-> Missing,
    withdrawals |-> Missing, beacon_root |-> Missing, difficulty |-> Missing,
    parent_base_fee |-> Missing, parent_excess |-> Missing, parent_blob_gas_used |-> Missing,
    parent_gas_used |-> Missing, parent_difficulty |-> Missing, parent_timestamp |-> Missing,
    latest |-> Missing]

\* apply_new_parent, and environment_from_parent_header for the genesis
apply_new_parent(e, h) ==
    [e EXCEPT !.parent_base_fee = h.base_fee, !.parent_excess = h.excess,
              !.parent_blob_gas_used = h.blob_gas_used, !.parent_gas_used = h.gas_used,
              !.parent_difficulty = h.difficulty, !.parent_timestamp = h.timestamp,
              !.latest = Larger(@, h.number)]

\* Mutant: the excess of the block before stays, where the block gives none.
set_environment_keeps(b, e) ==
    [e EXCEPT !.number = Or(b.number, e.latest + 1),
              !.timestamp = Or(b.timestamp, e.parent_timestamp + 12),
              !.base_fee = b.base_fee, !.excess = Or(b.excess_blob_gas, @),
              !.withdrawals = Missing, !.beacon_root = Missing, !.difficulty = Missing]

\* Block.set_environment
set_environment(b, e) ==
    [e EXCEPT !.number = Or(b.number, e.latest + 1),
              !.timestamp = Or(b.timestamp, e.parent_timestamp + 12),
              !.base_fee = b.base_fee, !.excess = b.excess_blob_gas,
              !.withdrawals = Missing, !.beacon_root = Missing, !.difficulty = Missing]

\* The transition tool, run as the fork of the block, fills in what is not given.
Evaluate(e, tx) ==
    LET c == ForkOf(e)
    IN  [base_fee |-> If(c.base_fee,
                         IF e.base_fee # Missing THEN e.base_fee
                         ELSE base_fee_per_gas(c, e.parent_base_fee, e.parent_gas_used, GasLimit)),
         excess |-> If(c.excess_blob_gas,
                       IF e.excess # Missing THEN e.excess
                       ELSE excess_blob_gas(c, e.parent_excess, e.parent_blob_gas_used,
                                            e.parent_base_fee)),
         difficulty |-> Or(e.difficulty, e.parent_difficulty),
         gas_used |-> IF tx.type = Missing THEN 0 ELSE transaction_intrinsic_cost(c, tx),
         requests |-> If(c.requests, 0), bal_hash |-> If(c.bal_hash, 0)]

\* The header: what the tool says, and over it what the environment gives.
Header(e, tx) ==
    LET c == At(e)
        result == Evaluate(e, tx)
    IN  [number |-> e.number, timestamp |-> e.timestamp,
         base_fee |-> Or(e.base_fee, result.base_fee), excess |-> Or(e.excess, result.excess),
         blob_gas_used |-> If(c.blob_gas_per_blob > 0, tx.blobs * c.blob_gas_per_blob),
         withdrawals |-> e.withdrawals, beacon_root |-> e.beacon_root,
         difficulty |-> Or(e.difficulty, result.difficulty), gas_used |-> result.gas_used,
         requests |-> result.requests, bal_hash |-> result.bal_hash, bal_of |-> <<>>]

\* FixtureHeader.genesis, of an environment whose requirements were asked before the
\* defaults of a genesis came under it; what no tool fills in is asked at zero.
GenesisHeader(asked, number) ==
    LET zero == At([asked EXCEPT !.number = 0, !.timestamp = 0])
    IN  [number |-> Or(number, 0), timestamp |-> 0,
         base_fee |-> asked.base_fee, excess |-> asked.excess,
         blob_gas_used |-> If(At(asked).blob_gas_used, 0),
         withdrawals |-> asked.withdrawals, beacon_root |-> asked.beacon_root,
         difficulty |-> asked.difficulty, gas_used |-> 0,
         requests |-> If(zero.requests, 0), bal_hash |-> If(zero.bal_hash, 0),
         bal_of |-> <<>>]

\* FixtureHeader.model_post_init: a required field that is missing is an error.
HasRequired(h) ==
    LET c == At(h)
    IN  /\ c.base_fee => h.base_fee # Missing
        /\ c.withdrawals => h.withdrawals # Missing
        /\ c.excess_blob_gas => h.excess # Missing
        /\ c.blob_gas_used => h.blob_gas_used # Missing
        /\ c.beacon_root => h.beacon_root # Missing
        /\ c.requests => h.requests # Missing
        /\ c.bal_hash => h.bal_hash # Missing

\* The access list of a block: what the tool says, whether the test expects
\* something of it, and the modifiers of a block that is to be invalid.
NoAccess == [bal |-> <<>>, checked |-> FALSE, expectations |-> <<>>, modifiers |-> <<>>]

\* The list that goes into the fixture, and whether the checks pass.
Listed(c, access) ==
    IF ~c.bal_hash THEN [fails |-> FALSE, bal |-> <<>>]
    ELSE IF ~access.checked THEN [fails |-> FALSE, bal |-> access.bal]
    ELSE LET changed == compose(access.modifiers, access.bal)
         IN  [fails |-> ~verify_against(access.bal, access.expectations) \/ changed.raised,
              bal |-> changed.bal]

\* FixtureEngineNewPayload.from_fixture_header, with the parameters behind the payload
Payload(h, bal) ==
    LET c == At(h)
    IN  [version |-> c.engine_new_payload_version,
         forkchoice |-> engine_forkchoice_updated_version(c),
         list |-> c.engine_execution_payload_block_access_list,
         accesses |-> IF c.engine_execution_payload_block_access_list THEN bal ELSE <<>>,
         params |-> {p \in {"blob hashes", "beacon root", "requests"} :
                        \/ p = "blob hashes" /\ c.engine_new_payload_blob_hashes
                        \/ p = "beacon root" /\ c.engine_new_payload_beacon_root
                        \/ p = "requests" /\ c.engine_new_payload_requests}]

(***************************************************************************)
(* Filling.                                                                *)
(***************************************************************************)

\* What the values a test gives are for: fields its fork has at that block.
HasFieldsFor(c, given) ==
    /\ given.base_fee # Missing => c.base_fee
    /\ given.excess_blob_gas # Missing => c.excess_blob_gas

\* make_genesis; state is the state test it is for.
MakeGenesis(g, state) ==
    LET given == [Environment EXCEPT !.number = Or(g.number, @),
                                     !.timestamp = IF g.number = Missing THEN @ ELSE 0,
                                     !.base_fee = g.base_fee, !.excess = g.excess_blob_gas]
        h == GenesisHeader(set_fork_requirements(given), g.number)
    IN  /\ stage = "genesis" /\ HasFieldsFor(At(h), g)
        /\ stage' = IF HasRequired(h) THEN "fill" ELSE "error"
        /\ fixed' = [covariants |-> ParametersOf(fork), state |-> state,
                     pre |-> AskedOfNone(fork).pre_allocation_blockchain,
                     schedule |-> blob_schedule(fork), rules |-> environment(fork.name)]
        /\ env' = apply_new_parent(Environment, h) /\ parent' = h
        /\ UNCHANGED <<fork, selection, block, header, payload, count>>

BlockchainTest == \E g \in Geneses : MakeGenesis(g, Absent)

TargetBlobGas(c) == c.target_blobs_per_block * c.blob_gas_per_blob

\* Mutant: the base fee of the block is given to the genesis.
GenesisOfSameFee(s) ==
    [number |-> s.number - 1, base_fee |-> s.base_fee,
     excess_blob_gas |-> IF s.excess_blob_gas \in {Missing, 0} THEN Missing
                         ELSE s.excess_blob_gas + TargetBlobGas(AskedOfNone(fork))]

\* _generate_blockchain_genesis_environment
GenesisOf(s) ==
    [number |-> s.number - 1,
     base_fee |-> IF s.base_fee = Missing THEN Missing ELSE (s.base_fee * 8) \div 7,
     excess_blob_gas |-> IF s.excess_blob_gas \in {Missing, 0} THEN Missing
                         ELSE s.excess_blob_gas + TargetBlobGas(AskedOfNone(fork))]

StateTest ==
    /\ stage = "genesis"
    /\ \E s \in StateTests : HasFieldsFor(At(s), s) /\ MakeGenesis(GenesisOf(s), s)

\* make_fixture: the chain goes on from blocks that are not expected to fail.
Join(b, e, access, h) ==
    /\ stage' = IF HasRequired(h) /\ ~access.fails THEN "fill" ELSE "error"
    /\ block' = b /\ header' = h /\ payload' = Payload(h, access.bal) /\ count' = count + 1
    /\ env' = IF b.invalid THEN env ELSE apply_new_parent(e, h)
    /\ parent' = IF b.invalid THEN parent ELSE h
    /\ UNCHANGED <<fork, selection, fixed>>

\* generate_block_data, in the environment of the block
GenerateBlockData(b, e) ==
    /\ Allowed(At(e), b.tx) /\ HasFieldsFor(At(e), b)
    /\ b.access.checked => At(e).bal_hash
    /\ LET access == Listed(At(e), b.access)
       IN  Join(b, e, access, [Header(e, b.tx) EXCEPT !.bal_of = access.bal])

Fill(b) ==
    /\ stage = "fill" /\ count < MaxBlocks
    /\ b.number = Missing \/ b.number > env.latest
    /\ b.timestamp = Missing \/ b.timestamp > env.parent_timestamp
    /\ GenerateBlockData(b, set_fork_requirements(set_environment(b, env)))

\* A state test is one block, which gets neither its base fee nor its excess.
FillStateTest ==
    /\ fixed # Absent /\ fixed.state # Absent /\ count = 0
    /\ Fill([fixed.state EXCEPT !.base_fee = Missing, !.excess_blob_gas = Missing])

FillBlock ==
    /\ fixed # Absent /\ fixed.state = Absent
    /\ \E b \in Blocks : Fill(b)

ForkNext == Configure \/ Collect \/ Start \/ BlockchainTest \/ StateTest \/ FillStateTest \/ FillBlock

ForkSpec == ForkInit /\ [][ForkNext]_forkVars

(***************************************************************************)
(* Properties.  What each fork brought is named by the fork.               *)
(***************************************************************************)
Since(h, f) == f \in ForkOf(h).ancestors

\* A session fills for a fork that is not deployed only when the command line names
\* such a fork, and without a range for every deployed one; a test runs at a
\* transition, or at a blob-parameter fork, only when its markers say so.
SelectedAsAsked ==
    /\ stage \in {"collect", "start"} =>
          /\ \A f \in selected : \/ transitions_to(f) \in get_deployed_forks
                               \/ \E n \in named \ get_deployed_forks : Le(f, n)
          /\ named = {} => selected \intersect ALL_FORKS = get_deployed_forks
    /\ \A f \in tests :
          /\ f \in ALL_TRANSITION_FORKS => f \in markers.at \/ markers.to # {}
          /\ Inherits(f, "BPO1") => markers.bpo

\* Every header, the genesis too, has the fields of the fork of its own number and
\* time and none of a later one: what a transition changes, it changes at its block.
HeaderFits ==
    \A h \in {parent, header} \ {Absent} :
        /\ h.base_fee # Missing <=> Since(h, "London")
        /\ h.difficulty = 0 <=> Since(h, "Paris")
        /\ h.withdrawals # Missing <=> Since(h, "Shanghai")
        /\ {h.excess, h.blob_gas_used, h.beacon_root} = {Missing} \/ Since(h, "Cancun")
        /\ Since(h, "Cancun") => Missing \notin {h.excess, h.blob_gas_used, h.beacon_root}
        /\ h.requests # Missing <=> Since(h, "Prague")
        /\ h.bal_hash # Missing <=> Since(h, "Amsterdam")

\* Every Engine API call has the version of its block's fork and just the parameters
\* of that version; from one block of the chain to the next no version goes back.
PayloadFits ==
    [][count' > count =>
          /\ payload'.params =
                CASE payload'.version < 3 -> {}
                  [] payload'.version = 3 -> {"blob hashes", "beacon root"}
                  [] payload'.version > 3 -> {"blob hashes", "beacon root", "requests"}
          /\ payload'.list <=> payload'.version >= 5
          /\ payload'.version >= 4 <=> header'.requests # Missing
          /\ payload'.forkchoice \in {payload'.version, 3}
          /\ payload'.forkchoice <= payload'.version
          /\ count > 0 /\ ~block.invalid => payload'.version >= payload.version]_forkVars

\* What is fixed before the first block serves every block: its system contracts are
\* in the pre-allocation, its blob parameters in the schedule of the fixture; and a
\* client that is started for the fork of the fixture is in the fork of the block, with
\* those parameters, before the block number that stands for never in its rules.
ServesEveryBlock ==
    header # Absent =>
        LET c == ForkOf(header)
            Given(entries) ==
                \E entry \in entries :
                    /\ entry.fork = c.name /\ entry.max = c.max_blobs_per_block
                    /\ entry.target = c.target_blobs_per_block
                    /\ entry.fraction = c.blob_base_fee_update_fraction
        IN  /\ c.system_contracts \union c.pre_allocation_blockchain \subseteq fixed.pre
            /\ Since(header, "Cancun") => Given(fixed.schedule)
            /\ fixed.rules # NoClient /\ header.number < NotYet =>
                  /\ ClientFork(fixed.rules, header.number, header.timestamp) = c.name
                  /\ Since(header, "Cancun") => Given(fixed.rules.blobs)

\* The covariant values a test was parametrized with, which are those of the fork it
\* starts in, are still values of the fork of every block.
ParametersStayValid ==
    header # Absent =>
        LET now == Covariants(ForkOf(header))
        IN  \A kind \in DOMAIN now : fixed.covariants[kind] \subseteq now[kind]

\* Over a transition too the fees of a block follow from its parent: the base fee
\* moves by an eighth at most, against the gas left, and starts at 7; the excess of
\* blob gas starts at 0 and pays off the target of the block's own fork.
FeesFollow ==
    [][count' > count =>
          /\ Since(header', "London") =>
                LET fee == parent.base_fee
                    new == header'.base_fee
                IN  IF block'.base_fee # Missing THEN new = block'.base_fee
                    ELSE IF fee = Missing THEN new = 7
                    ELSE IF parent.gas_used > GasLimit \div 2
                    THEN new > fee /\ new <= fee + Larger(1, fee \div 8)
                    ELSE new <= fee /\ new >= fee - fee \div 8
          /\ Since(header', "Cancun") =>
                LET sum == parent.excess + parent.blob_gas_used
                    target == TargetBlobGas(ForkOf(header'))
                    new == header'.excess
                IN  IF block'.excess_blob_gas # Missing THEN new = block'.excess_blob_gas
                    ELSE IF parent.excess = Missing \/ sum < target THEN new = 0
                    ELSE /\ new >= sum - target /\ new <= sum
                         /\ new = sum - target \/ Since(header', "Osaka")]_forkVars

\* A block whose access list a test expects something of is filled just when the
\* list of the tool is in order and lists what is expected, in that order, and
\* nothing that was ruled out; the list its payload carries is the one its header
\* has the hash of, also when the test has modified it.
AccessListFits ==
    header # Absent =>
        /\ block.access.checked =>
              (stage = "fill" <=> /\ FitsExpectation(block.access.bal, block.access.expectations)
                                  /\ ~compose(block.access.modifiers, block.access.bal).raised)
        /\ stage = "fill" /\ payload.list => payload.accesses = header.bal_of
        /\ stage = "fill" /\ block.access.modifiers = <<>> =>
              payload.accesses = IF payload.list THEN block.access.bal ELSE <<>>

\* A state test filled as a blockchain test runs at the base fee of its environment,
\* 7 where it gives none: the one block gets it from its genesis.
StateTestFee ==
    count > 0 /\ fixed.state # Absent /\ Since(header, "London") =>
        header.base_fee = Or(fixed.state.base_fee, 7)

\* And at its excess of blob gas, as the comment on the target added to it says.
StateTestExcess ==
    count > 0 /\ fixed.state # Absent /\ Since(header, "Cancun") =>
        header.excess = Or(fixed.state.excess_blob_gas, 0)
=============================================================================
