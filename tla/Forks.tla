------------------------------- MODULE Forks -------------------------------
(***************************************************************************)
(* ethereum_test_forks/forks: the forks, each with what its class answers  *)
(* as a change of its parent, and the transition forks.  Lists are sets; a *)
(* method that answers None or raises is 0; hashes and code are left out.  *)
(***************************************************************************)
EXTENDS ForkBase, TLC

(***************************************************************************)
(* Frontier, by subject.                                                   *)
(***************************************************************************)
FrontierHeader == [
    name |-> "Frontier", ancestors |-> {"Frontier"}, bpo_fork |-> FALSE, is_deployed |-> TRUE,
    base_fee |-> FALSE, prev_randao |-> FALSE, zero_difficulty |-> FALSE,
    withdrawals |-> FALSE, excess_blob_gas |-> FALSE, blob_gas_used |-> FALSE]

GasCosts == [
    access_list_address |-> 2400, access_list_storage |-> 1900, initcode_word |-> 2,
    tx_data_zero |-> 4, tx_data_non_zero |-> 68, standard_token |-> 0, floor_token |-> 0,
    transaction |-> 21000, transaction_create |-> 32000, authorization |-> 0]

FrontierBaseFee ==
    [base_fee_max_change_denominator |-> None, base_fee_elasticity_multiplier |-> None]

FrontierBlobs == [
    min_base_fee_per_blob_gas |-> None, blob_base_fee_update_fraction |-> None,
    blob_gas_per_blob |-> 0, supports_blobs |-> FALSE, target_blobs_per_block |-> None,
    max_blobs_per_block |-> None, blob_reserve_price_active |-> FALSE, blob_base_cost |-> None]
FrontierBlobTxs == [full_blob_tx_wrapper_version |-> None, max_blobs_per_tx |-> None]

FrontierEngine == [
    requests |-> FALSE, bal_hash |-> FALSE, engine_new_payload_version |-> None,
    beacon_root |-> FALSE, engine_new_payload_blob_hashes |-> FALSE,
    engine_new_payload_beacon_root |-> FALSE, engine_new_payload_requests |-> FALSE,
    engine_execution_payload_block_access_list |-> FALSE,
    forkchoice_updated_override |-> None, get_payload_override |-> None,
    engine_get_blobs_version |-> None]

FrontierRules == [
    get_reward |-> 5, tx_types |-> {0}, contract_creating_tx_types |-> {0},
    transaction_gas_limit_cap |-> None, block_rlp_size_limit |-> None, precompiles |-> {},
    system_contracts |-> {}, evm_code_types |-> {"legacy"}]
FrontierSizes == [max_code_size |-> 24576, max_stack_height |-> 1024, max_initcode_size |-> 49152]

Numbered(family, from, to) == {family \o ToString(n) : n \in from..to}

FrontierOpcodes == [
    call_opcodes |-> {"CALL", "CALLCODE"},
    valid_opcodes |->
        {"STOP", "ADD", "MUL", "SUB", "DIV", "SDIV", "MOD", "SMOD", "ADDMOD", "MULMOD", "EXP",
         "SIGNEXTEND", "LT", "GT", "SLT", "SGT", "EQ", "ISZERO", "AND", "OR", "XOR", "NOT", "BYTE",
         "SHA3", "ADDRESS", "BALANCE", "ORIGIN", "CALLER", "CALLVALUE", "CALLDATALOAD",
         "CALLDATASIZE", "CALLDATACOPY", "CODESIZE", "CODECOPY", "GASPRICE", "EXTCODESIZE",
         "EXTCODECOPY", "BLOCKHASH", "COINBASE", "TIMESTAMP", "NUMBER", "PREVRANDAO", "GASLIMIT",
         "POP", "MLOAD", "MSTORE", "MSTORE8", "SLOAD", "SSTORE", "PC", "MSIZE", "GAS", "JUMP",
         "JUMPI", "JUMPDEST", "CREATE", "CALL", "CALLCODE", "RETURN", "SELFDESTRUCT"}
        \union Numbered("PUSH", 1, 32) \union Numbered("DUP", 1, 16)
        \union Numbered("SWAP", 1, 16) \union Numbered("LOG", 0, 4)]

FrontierLimits == [create_opcodes |-> {"CREATE"}, max_refund_quotient |-> 2,
                   max_request_type |-> -1, pre_allocation_blockchain |-> {}]

Frontier ==
    FrontierHeader @@ [gas |-> GasCosts] @@ FrontierBaseFee @@ FrontierBlobs @@ FrontierBlobTxs
    @@ FrontierEngine @@ FrontierRules @@ FrontierSizes @@ FrontierOpcodes @@ FrontierLimits

(***************************************************************************)
(* The later forks: what each overrides of its parent, and what it adds to *)
(* the lists of its parent.                                                *)
(***************************************************************************)
Nothing == [m \in {} |-> None]
Homestead == [
    parent |-> "Frontier", overrides |-> Nothing,
    adds |-> [precompiles |-> 1..4, call_opcodes |-> {"DELEGATECALL"},
              valid_opcodes |-> {"DELEGATECALL"}]]

Byzantium == [
    parent |-> "Homestead", overrides |-> [get_reward |-> 3],
    adds |-> [precompiles |-> 5..8, call_opcodes |-> {"STATICCALL"},
              valid_opcodes |-> {"REVERT", "RETURNDATASIZE", "RETURNDATACOPY", "STATICCALL"}]]

Constantinople == [
    parent |-> "Byzantium", overrides |-> [get_reward |-> 2],
    adds |-> [create_opcodes |-> {"CREATE2"},
              valid_opcodes |-> {"SHL", "SHR", "SAR", "EXTCODEHASH", "CREATE2"}]]

ConstantinopleFix == [parent |-> "Constantinople", overrides |-> Nothing, adds |-> Nothing]

Istanbul == [
    parent |-> "ConstantinopleFix", overrides |-> [gas |-> [tx_data_non_zero |-> 16]],
    adds |-> [precompiles |-> {9}, valid_opcodes |-> {"CHAINID", "SELFBALANCE"}]]

Berlin == [
    parent |-> "Istanbul", overrides |-> Nothing,
    adds |-> [tx_types |-> {1}, contract_creating_tx_types |-> {1}]]

London == [
    parent |-> "Berlin",
    overrides |-> [base_fee |-> TRUE, max_refund_quotient |-> 5,
                   base_fee_max_change_denominator |-> 8, base_fee_elasticity_multiplier |-> 2],
    adds |-> [tx_types |-> {2}, contract_creating_tx_types |-> {2}, valid_opcodes |-> {"BASEFEE"}]]

Paris == [
    parent |-> "London",
    overrides |-> [prev_randao |-> TRUE, zero_difficulty |-> TRUE, get_reward |-> 0,
                   engine_new_payload_version |-> 1],
    adds |-> Nothing]

Shanghai == [
    parent |-> "Paris", overrides |-> [withdrawals |-> TRUE, engine_new_payload_version |-> 2],
    adds |-> [valid_opcodes |-> {"PUSH0"}]]

CancunBlobs == [
    min_base_fee_per_blob_gas |-> 1, blob_base_fee_update_fraction |-> 3338477,
    blob_gas_per_blob |-> 131072, supports_blobs |-> TRUE, target_blobs_per_block |-> 3,
    max_blobs_per_block |-> 6, max_blobs_per_tx |-> 6]

Cancun == [
    parent |-> "Shanghai",
    overrides |-> CancunBlobs @@
        [excess_blob_gas |-> TRUE, blob_gas_used |-> TRUE, beacon_root |-> TRUE,
         engine_new_payload_version |-> 3, engine_get_blobs_version |-> 1,
         engine_new_payload_blob_hashes |-> TRUE, engine_new_payload_beacon_root |-> TRUE],
    adds |-> [tx_types |-> {3}, precompiles |-> {10}, system_contracts |-> {"BEACON_ROOTS"},
              pre_allocation_blockchain |-> {"BEACON_ROOTS"},
              valid_opcodes |-> {"BLOBHASH", "BLOBBASEFEE", "TLOAD", "TSTORE", "MCOPY"}]]

PragueContracts ==
    {"DEPOSIT_CONTRACT", "WITHDRAWAL_REQUEST", "CONSOLIDATION_REQUEST", "HISTORY_STORAGE"}

PragueRules == [
    gas |-> [standard_token |-> 4, floor_token |-> 10, authorization |-> 25000],
    max_request_type |-> 2, requests |-> TRUE, blob_base_fee_update_fraction |-> 5007716,
    target_blobs_per_block |-> 6, max_blobs_per_block |-> 9, max_blobs_per_tx |-> 9]

PragueEngine ==
    [engine_new_payload_requests |-> TRUE, forkchoice_updated_override |-> 3,
     engine_new_payload_version |-> 4]

\* max_blobs_per_tx is the maximum of the block, until Osaka overrides it.
Prague == [
    parent |-> "Cancun", overrides |-> PragueRules @@ PragueEngine,
    adds |-> [precompiles |-> 11..17, tx_types |-> {4}, system_contracts |-> PragueContracts,
              pre_allocation_blockchain |-> PragueContracts]]

Osaka == [
    parent |-> "Prague",
    overrides |-> [is_deployed |-> FALSE, get_payload_override |-> 5, engine_get_blobs_version |-> 2,
                   full_blob_tx_wrapper_version |-> 1, transaction_gas_limit_cap |-> 16777216,
                   block_rlp_size_limit |-> 8388608, max_blobs_per_tx |-> 6,
                   blob_reserve_price_active |-> TRUE, blob_base_cost |-> 8192],
    adds |-> [valid_opcodes |-> {"CLZ"}, precompiles |-> {256}]]

\* The forks that change blob parameters only.
BlobParameters(before, target, max, fraction) == [
    parent |-> before, adds |-> Nothing,
    overrides |-> [bpo_fork |-> TRUE, target_blobs_per_block |-> target,
                   max_blobs_per_block |-> max, blob_base_fee_update_fraction |-> fraction]]
BPO1 == BlobParameters("Osaka", 10, 15, 8346193)
BPO2 == BlobParameters("BPO1", 14, 21, 11684671)
BPO3 == BlobParameters("BPO2", 21, 32, 20609697)
BPO4 == BlobParameters("BPO3", 14, 21, 13739630)
BPO5 == BlobParameters("BPO4", 14, 21, 13739630)

Amsterdam == [
    parent |-> "Osaka", adds |-> Nothing,
    overrides |-> [bal_hash |-> TRUE, engine_new_payload_version |-> 5,
                   engine_execution_payload_block_access_list |-> TRUE]]

EOFv1 == [
    parent |-> "Prague", overrides |-> [is_deployed |-> FALSE],
    adds |-> [evm_code_types |-> {"eof_v1"},
              call_opcodes |-> {"EXTCALL", "EXTSTATICCALL", "EXTDELEGATECALL"}]]

\* ALL_FORKS, but for Frontier.
Subclasses == [
    Homestead |-> Homestead, Byzantium |-> Byzantium, Constantinople |-> Constantinople,
    ConstantinopleFix |-> ConstantinopleFix, Istanbul |-> Istanbul, Berlin |-> Berlin,
    London |-> London, Paris |-> Paris, Shanghai |-> Shanghai, Cancun |-> Cancun, Prague |-> Prague,
    Osaka |-> Osaka, BPO1 |-> BPO1, BPO2 |-> BPO2, BPO3 |-> BPO3, BPO4 |-> BPO4, BPO5 |-> BPO5,
    Amsterdam |-> Amsterdam, EOFv1 |-> EOFv1]

Added(old, new) == old \union new

\* Inheritance: a fork answers as its parent where it says nothing.
Inherited[f \in DOMAIN Subclasses \union {"Frontier"}] ==
    IF f = "Frontier" THEN Frontier
    ELSE LET sub == Subclasses[f]
             super == Inherited[sub.parent]
             gas == IF "gas" \in DOMAIN sub.overrides THEN sub.overrides.gas ELSE Nothing
         IN  [name |-> f, ancestors |-> super.ancestors \union {f}, gas |-> gas @@ super.gas]
             @@ [m \in DOMAIN sub.adds |-> Added(super[m], sub.adds[m])] @@ sub.overrides @@ super
ByName == Inherited @@ Nothing

(***************************************************************************)
(* Transition forks.                                                       *)
(***************************************************************************)
Transition(from, to, number, time) ==
    [from |-> from, to |-> to, at_block |-> number, at_timestamp |-> time]

TransitionForks ==
    ("BerlinToLondonAt5" :> Transition("Berlin", "London", 5, 0))
    @@ ("ParisToShanghaiAtTime15k" :> Transition("Paris", "Shanghai", 0, 15000))
    @@ ("ShanghaiToCancunAtTime15k" :> Transition("Shanghai", "Cancun", 0, 15000))
    @@ ("CancunToPragueAtTime15k" :> Transition("Cancun", "Prague", 0, 15000))
    @@ ("PragueToOsakaAtTime15k" :> Transition("Prague", "Osaka", 0, 15000))
    @@ ("OsakaToBPO1AtTime15k" :> Transition("Osaka", "BPO1", 0, 15000))
    @@ ("BPO1ToBPO2AtTime15k" :> Transition("BPO1", "BPO2", 0, 15000))
    @@ ("BPO2ToBPO3AtTime15k" :> Transition("BPO2", "BPO3", 0, 15000))
    @@ ("BPO3ToBPO4AtTime15k" :> Transition("BPO3", "BPO4", 0, 15000))
=============================================================================
