------------------------------ MODULE ForkFees ------------------------------
(***************************************************************************)
(* The calculators a fork hands out: what a transaction costs before it    *)
(* runs, and how the base fee and the excess of blob gas of a block follow *)
(* from its parent.  c is the class of a fork.                             *)
(***************************************************************************)
EXTENDS ForkBase

Larger(a, b) == IF a > b THEN a ELSE b
ceiling_division(a, b) == (a + b - 1) \div b

(***************************************************************************)
(* Transactions.                                                           *)
(***************************************************************************)
Tokens(tx) == tx.zeros + 4 * tx.nonzeros
Before(c, name) == name \notin c.ancestors

\* By bytes, and from Prague on by tokens.
FrontierCalldata(c, tx) == tx.zeros * c.gas.tx_data_zero + tx.nonzeros * c.gas.tx_data_non_zero

calldata_gas(c, tx) ==
    IF Before(c, "Prague") THEN FrontierCalldata(c, tx) ELSE Tokens(tx) * c.gas.standard_token

transaction_data_floor_cost(c, tx) ==
    IF Before(c, "Prague") THEN 0 ELSE Tokens(tx) * c.gas.floor_token + c.gas.transaction

\* Each fork adds to what its parent says, if it has what the transaction uses. The
\* words of initcode are charged from Frontier on.
FrontierCost(c, tx) ==
    c.gas.transaction + calldata_gas(c, tx)
    + IF tx.creation THEN c.gas.initcode_word * ceiling_division(tx.zeros + tx.nonzeros, 32) ELSE 0

HomesteadCreation(c, tx) ==
    IF tx.creation /\ ~Before(c, "Homestead") THEN c.gas.transaction_create ELSE 0

BerlinLists(c, tx) ==
    IF Before(c, "Berlin") THEN 0
    ELSE tx.addresses * c.gas.access_list_address + tx.keys * c.gas.access_list_storage

PragueAuthorizations(c, tx) ==
    IF Before(c, "Prague") THEN 0 ELSE tx.authorizations * c.gas.authorization

transaction_intrinsic_cost(c, tx) ==
    Larger(FrontierCost(c, tx) + HomesteadCreation(c, tx) + BerlinLists(c, tx)
               + PragueAuthorizations(c, tx),
           transaction_data_floor_cost(c, tx))

(***************************************************************************)
(* Base fee.                                                               *)
(***************************************************************************)
base_fee_per_gas(c, fee, gas_used, gas_limit) ==
    LET target == gas_limit \div c.base_fee_elasticity_multiplier
        delta(gas) == ((fee * gas) \div target) \div c.base_fee_max_change_denominator
    IN  IF gas_used > target THEN fee + Larger(delta(gas_used - target), 1)
        ELSE fee - delta(target - gas_used)

(***************************************************************************)
(* Blob gas.                                                               *)
(***************************************************************************)

\* a * b \div c, where the product itself is too large an integer for TLC.
MulDiv(a, b, c) ==
    LET part[n \in Nat] ==
            IF n = 0 THEN <<0, 0>>
            ELSE LET half == part[n \div 2]
                     rest == 2 * half[2] + (n % 2) * (a % c)
                 IN  <<2 * half[1] + (n % 2) * (a \div c) + rest \div c, rest % c>>
    IN  part[b][1]

\* The Taylor series of factor * e ** (numerator / denominator), until a term is 0.
fake_exponential(factor, numerator, denominator) ==
    LET sum[i \in Nat, term \in Nat] ==
            IF term = 0 THEN 0
            ELSE term + sum[i + 1, MulDiv(term, numerator, denominator * i)]
    IN  sum[1, factor * denominator] \div denominator

blob_gas_price(c, excess) ==
    fake_exponential(c.min_base_fee_per_blob_gas, excess, c.blob_base_fee_update_fraction)

Target(c) == c.target_blobs_per_block * c.blob_gas_per_blob

CancunExcess(c, excess, used) ==
    IF excess + used < Target(c) THEN 0 ELSE excess + used - Target(c)

\* From Osaka on: blobs are cheaper than the execution they stand for.
ReservePriceActive(c, excess, fee) ==
    c.blob_reserve_price_active
    /\ c.blob_base_cost * fee > c.blob_gas_per_blob * blob_gas_price(c, excess)

excess_blob_gas(c, excess, used, fee) ==
    IF excess + used >= Target(c) /\ ReservePriceActive(c, excess, fee)
    THEN excess + (used * (c.max_blobs_per_block - c.target_blobs_per_block))
                      \div c.max_blobs_per_block
    ELSE CancunExcess(c, excess, used)
=============================================================================
