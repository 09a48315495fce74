----------------------------- MODULE TxInclusion -----------------------------
(* What `execute` promises to the tests that send transactions through it: a  *)
(* transaction the client accepted is put in at most one block, no block is   *)
(* ever taken back, and a wait returns a transaction only once it is in one.  *)
(* Nothing is said of workers, locks or files: ChainBuilder implements this.  *)
EXTENDS Naturals, Sequences

CONSTANT Txs                    \* every transaction the tests may send

VARIABLES submitted,            \* transactions the client has accepted
          blocks,               \* the canonical chain: a sequence of sets of transactions
          confirmed             \* transactions some wait has returned as included

tvars == <<submitted, blocks, confirmed>>

InBlocks(bs) == UNION {bs[i] : i \in DOMAIN bs}

TxInit == /\ submitted = {}
          /\ blocks = <<>>
          /\ confirmed = {}

Submit == /\ \E t \in Txs \ submitted : submitted' = submitted \union {t}
          /\ UNCHANGED <<blocks, confirmed>>

Extend == /\ \E b \in SUBSET (submitted \ InBlocks(blocks)) : blocks' = Append(blocks, b)
          /\ UNCHANGED <<submitted, confirmed>>

Confirm == /\ \E t \in InBlocks(blocks) : confirmed' = confirmed \union {t}
           /\ UNCHANGED <<submitted, blocks>>

TxNext == Submit \/ Extend \/ Confirm

TxSpec == TxInit /\ [][TxNext]_tvars
==============================================================================
