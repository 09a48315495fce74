-------------------------- MODULE MC_PreAllocGroups --------------------------
(* PreAllocGroups with a few allocations of one fork account and one other.   *)
EXTENDS PreAllocGroups, TLC

CONSTANTS sys, acc

MCAddresses == {sys, acc}
MCFields == {"nonce", "code"}
MCValues == 0..2
MCForkPre == sys :> [nonce |-> 1, code |-> 1]

\* Other accounts: none, full, with a field unset, another code, left empty.
OwnPres == {<<>>, acc :> [nonce |-> 1, code |-> 0], acc :> [nonce |-> 1],
            acc :> [nonce |-> 1, code |-> 2], acc :> <<>>}

\* The account of the fork: another code, with and without the nonce, and removed.
SystemPres == {<<>>, sys :> [code |-> 2], sys :> [nonce |-> 1, code |-> 2],
               sys :> [nonce |-> 0, code |-> 0], acc :> [nonce |-> 1]}

AllPres == OwnPres \union SystemPres

Perms == Permutations(Tests) \union Permutations(Workers) \union Permutations(Groups)
==============================================================================
