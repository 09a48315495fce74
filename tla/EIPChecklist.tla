---------------------------- MODULE EIPChecklist -----------------------------
(* The items an EIP is to be tested for (ethereum_test_checklists/            *)
(* eip_checklist.py): a tree of nested classes, each of which knows its path  *)
(* from the section down, and is an item that a test can be marked with.  A   *)
(* path is the sequence of its names; a name is that of the class in snake    *)
(* case, or its override_name.                                                *)
EXTENDS Sequences, SequencesExt

\* ChecklistItemMeta: a class with others in it puts its path before theirs.
Under(name, below) == {<<name>>} \union {<<name>> \o p : p \in below}
Leaves(names) == {<<n>> : n \in names}

General ==
  Under("general",
  Under("code_coverage", Leaves({"eels", "test_coverage", "second_client"})))

OpcodeStack ==
  Leaves({"stack_overflow", "stack_underflow"})
  \union Under("mem_exp",
         Leaves({"zero_bytes_zero_offset", "zero_bytes_max_offset", "single_byte",
                 "31_bytes", "32_bytes", "33_bytes", "64_bytes",
                 "2_32_minus_one_bytes", "2_32_bytes",
                 "2_64_minus_one_bytes", "2_64_bytes",
                 "2_256_minus_one_bytes"}))
  \union Under("stack_complex_operations",
         Under("stack_heights", Leaves({"zero", "odd", "even"}))
         \union Under("data_portion_variables", Leaves({"top", "bottom", "middle"})))

OpcodeContext ==
  Under("execution_context",
         Leaves({"call", "callcode", "set_code", "tx_context", "block_context"})
         \union Under("staticcall", Leaves({"ban_check", "ban_no_modification", "sub_calls"}))
         \union Under("delegatecall", Leaves({"storage", "balance", "code"}))
         \union Under("initcode",
                Leaves({"reentry"})
                \union Under("behavior", Leaves({"tx", "opcode"}))))
  \union Under("return_data", Under("buffer", Leaves({"current", "parent"})))

OpcodeGas ==
  Leaves({"exceptional_abort"})
  \union Under("gas_usage",
         Leaves({"normal", "memory_expansion", "out_of_gas_execution", "out_of_gas_memory",
                 "extra_gas"})
         \union Under("order_of_operations", Leaves({"exact", "oog"})))
  \union Under("terminating",
         Under("scenarios", Leaves({"top_level", "sub_level", "initcode"}))
         \union Under("rollback", Leaves({"balance", "storage", "contracts", "nonce", "logs"})))
  \union Under("out_of_bounds", Under("verify", Leaves({"max", "max_plus_one"})))

OpcodeCreation ==
  Under("data_portion", Leaves({"all_zeros", "max_value", "jump"}))
  \union Under("contract_creation",
         Leaves({"address", "recursive"})
         \union Under("failure", Leaves({"oog", "insufficient_value", "collision"})))
  \union Under("fork_transition", Leaves({"invalid", "at"}))

Opcode ==
  Under("opcode",
  Under("test",
         OpcodeStack \union OpcodeContext
         \union OpcodeGas \union OpcodeCreation))

PrecompileInputs ==
  Under("call_contexts",
         Leaves({"normal", "delegate", "static", "callcode", "tx_entry", "set_code"})
         \union Under("initcode", Leaves({"CREATE", "tx"})))
  \union Under("inputs",
         Leaves({"all_zeros", "max_values"})
         \union Under("valid", Leaves({"boundary", "crypto"}))
         \union Under("invalid", Leaves({"crypto", "corrupted"})))
  \union Under("value_transfer",
         Leaves({"no_fee"})
         \union Under("fee", Leaves({"under", "exact", "over"})))
  \union Under("out_of_bounds", Leaves({"max", "max_plus_one"}))

PrecompileGas ==
  Leaves({"excessive_gas_usage"})
  \union Under("input_lengths",
         Leaves({"zero"})
         \union Under("static", Leaves({"correct", "too_short", "too_long"}))
         \union Under("dynamic", Leaves({"valid", "too_short", "too_long"})))
  \union Under("gas_usage",
         Under("constant", Leaves({"exact", "oog"}))
         \union Under("dynamic", Leaves({"exact", "oog"})))
  \union Under("fork_transition",
         Under("before", Leaves({"invalid_input", "zero_gas", "cold"}))
         \union Under("after", Leaves({"warm"})))

Precompile ==
  Under("precompile",
  Under("test",
         PrecompileInputs \union PrecompileGas))

RemovedPrecompile ==
  Under("removed_precompile",
  Under("test",
         Under("fork_transition",
                Leaves({"operational"})
                \union Under("before", Leaves({"warm"}))
                \union Under("after", Leaves({"cold"})))))

ContractInputs ==
  Under("call_contexts",
         Leaves({"normal", "delegate", "static", "callcode", "tx_entry", "set_code"})
         \union Under("initcode", Leaves({"CREATE", "tx"})))
  \union Under("inputs",
         Leaves({"valid", "boundary", "all_zeros", "max_values"})
         \union Under("invalid", Leaves({"checks", "crypto", "corrupted"})))
  \union Under("value_transfer",
         Leaves({"no_fee"})
         \union Under("fee", Leaves({"under", "exact", "over"})))
  \union Under("out_of_bounds", Leaves({"max", "max_plus_one"}))

ContractGas ==
  Under("input_lengths",
         Leaves({"zero"})
         \union Under("static", Leaves({"correct", "too_short", "too_long"}))
         \union Under("dynamic", Leaves({"valid", "too_short", "too_long"})))
  \union Under("gas_usage",
         Under("constant", Leaves({"exact", "oog"}))
         \union Under("dynamic", Leaves({"exact", "oog"})))
  \union Under("excessive_gas", Leaves({"block_gas", "system_call"}))
  \union Under("deployment", Leaves({"missing", "address"}))
  \union Under("contract_variations", Leaves({"networks"}))
  \union Under("contract_substitution",
         Leaves({"return_lengths", "logs", "exception", "gas_limit_success",
                 "gas_limit_failure"}))
  \union Under("fork_transition", Leaves({"call_before_fork"}))

SystemContract ==
  Under("system_contract",
  Under("test",
         ContractInputs \union ContractGas))

TypeValidity ==
  Under("intrinsic_validity",
         Leaves({"chain_id", "nonce_minus_one", "nonce_plus_one", "nonce_exact", "to",
                 "value_non_zero_insufficient_balance",
                 "value_non_zero_sufficient_balance",
                 "value_zero_insufficient_balance",
                 "value_zero_sufficient_balance",
                 "data_floor_above_intrinsic_gas_cost"})
         \union Under("gas_limit", Leaves({"exact", "insufficient"}))
         \union Under("max_fee",
                Leaves({"max_priority_lower_than_max_fee", "max_priority_equal_to_max_fee",
                        "base_lower", "base_equal"})))

TypeSignature ==
  Under("signature",
         Under("invalid",
                Leaves({"field_outside_curve"})
                \union Under("v", Leaves({"2", "27", "28", "35", "36", "max"}))
                \union Under("r",
                       Leaves({"0", "secp256k1n_minus_one", "secp256k1n",
                               "secp256k1n_plus_one",
                               "max_minus_one", "max"}))
                \union Under("s",
                       Leaves({"0", "secp256k1n_half_minus_one", "secp256k1n_half",
                               "secp256k1n_half_plus_one",
                               "secp256k1n_minus_one",
                               "secp256k1n",
                               "secp256k1n_plus_one",
                               "max_minus_one", "max",
                               "complement"}))))

TypeEncoding ==
  Leaves({"contract_creation"})
  \union Under("tx_scoped_attributes",
         Leaves({"read", "older_tx_types"})
         \union Under("persistent", Leaves({"throughout", "reset"})))
  \union Under("encoding",
         Leaves({"missing_fields", "extra_fields", "truncated", "extra_bytes"})
         \union Under("field_sizes", Leaves({"leading_zero", "remove_byte"}))
         \union Under("list_field", Leaves({"zero", "max", "max_plus_one"}))
         \union Under("new_types", Leaves({"incorrect_encoding"})))
  \union Under("out_of_bounds", Leaves({"max", "max_plus_one"}))
  \union Under("sender_account", Leaves({"nonce", "balance"}))

TypeBlocks ==
  Under("block_interactions",
         Leaves({"mixed_txs"})
         \union Under("single_tx", Leaves({"invalid", "valid"}))
         \union Under("last_tx", Leaves({"valid", "invalid"}))
         \union Under("eip7825", Leaves({"invalid", "valid"})))
  \union Under("fork_transition", Leaves({"before"}))

TransactionType ==
  Under("transaction_type",
  Under("test",
         TypeValidity \union TypeSignature
         \union TypeEncoding \union TypeBlocks))

BlockHeaderField ==
  Under("block_header_field",
  Under("test",
         Leaves({"genesis"})
         \union Under("value_behavior", Leaves({"accept", "reject"}))
         \union Under("fork_transition", Leaves({"initial", "before", "after"}))))

BlockBodyField ==
  Under("block_body_field",
  Under("test",
         Under("value_behavior", Leaves({"accept", "reject"}))
         \union Under("fork_transition", Leaves({"before", "after"}))))

GasCostChanges ==
  Under("gas_cost_changes",
  Under("test",
         Leaves({"gas_updates_measurement", "out_of_gas"})
         \union Under("fork_transition", Leaves({"before", "after"}))))

GasRefundsChanges ==
  Under("gas_refunds_changes",
  Under("test",
         Under("refund_calculation", Leaves({"over", "exact", "under"}))
         \union Under("exceptional_abort",
                Under("revertable",
                       Leaves({"revert", "out_of_gas", "invalid_opcode", "upper_revert"}))
                \union Under("non_revertable",
                       Leaves({"revert", "out_of_gas", "invalid_opcode"})))
         \union Under("cross_functional", Leaves({"calldata_cost"}))))

BlobCountChanges ==
  Under("blob_count_changes",
  Under("test", Leaves({"eip4844_blobs_changes"})))

ExecutionLayerRequest ==
  Under("execution_layer_request",
  Under("test", Under("cross_request_type", Leaves({"update"}))))

NewTransactionValidityConstraint ==
  Under("new_transaction_validity_constraint",
  Under("test",
         Under("fork_transition",
                Leaves({"accepted_before_fork", "accepted_after_fork",
                        "rejected_after_fork"}))))

ModifiedTransactionValidityConstraint ==
  Under("modified_transaction_validity_constraint",
  Under("test",
         Under("fork_transition",
                Leaves({"accepted_before_fork", "rejected_before_fork",
                        "accepted_after_fork", "rejected_after_fork"}))))

BlockLevelConstraint ==
  Under("block_level_constraint",
  Under("test",
         Under("boundary", Leaves({"under", "exact", "over"}))
         \union Under("content",
                Leaves({"transaction_types", "logs", "receipts", "withdrawals"}))
         \union Under("fork_transition",
                Leaves({"accepted_before_fork", "accepted_after_fork",
                        "rejected_after_fork"}))))

-------------------------------------------------------------------------------
(* What may be marked, and what the template lists.                           *)

Tree == General \union Opcode
        \union Precompile \union RemovedPrecompile
        \union SystemContract \union TransactionType
        \union BlockHeaderField \union BlockBodyField
        \union GasCostChanges \union GasRefundsChanges
        \union BlobCountChanges \union ExecutionLayerRequest
        \union NewTransactionValidityConstraint \union ModifiedTransactionValidityConstraint
        \union BlockLevelConstraint

\* The items of the template that have others below them.
Listed == {<<"opcode", "test", "execution_context", "staticcall">>,
           <<"opcode", "test", "execution_context", "delegatecall">>,
           <<"opcode", "test", "execution_context", "initcode", "behavior">>,
           <<"precompile", "test", "inputs", "valid">>,
           <<"precompile", "test", "inputs", "invalid">>,
           <<"system_contract", "test", "inputs", "invalid">>,
           <<"gas_refunds_changes", "test", "exceptional_abort", "revertable">>,
           <<"gas_refunds_changes", "test", "exceptional_abort", "non_revertable">>}

Within(p, q) == IsPrefix(q, p)

\* docs/writing_tests/checklist_templates/eip_testing_checklist_template.md: the
\* leaves of the tree and the items above.
Template == {p \in Tree : p \in Listed \/ \A q \in Tree : Within(q, p) => q = p}

===============================================================================
