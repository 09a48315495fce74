----------------------------- MODULE AccessLists -----------------------------
(***************************************************************************)
(* The block access list a transition tool returns (EIP-7928), what a test *)
(* expects of it, and how a test of an invalid block changes it            *)
(* (ethereum_test_types/block_access_list).  A list is a sequence of       *)
(* accounts, each with the lists of its changes; keys, values and code are *)
(* numbers.  What raises in the code is a verdict here.                    *)
(***************************************************************************)
EXTENDS Integers, Sequences, FiniteSets, SequencesExt, FiniteSetsExt

ByTransaction == {"nonce_changes", "balance_changes", "code_changes"}
Fields == ByTransaction \union {"storage_changes", "storage_reads"}

\* BalAccountChange: of a field by transaction [tx_index, post], of the storage
\* [slot, slot_changes], of the reads the slots.
Account(address) == [address |-> address, changes |-> [f \in Fields |-> <<>>]]

TxChange == [tx_index : Nat, post : Nat]
StorageSlot == [slot : Nat, slot_changes : Seq(TxChange)]
Changes == [nonce_changes : Seq(TxChange), balance_changes : Seq(TxChange), code_changes : Seq(TxChange),
            storage_changes : Seq(StorageSlot), storage_reads : Seq(Nat)]
BalAccount == [address : Nat, changes : Changes]

\* BalAccountExpectation: the fields that were set, and what is not to be there.
NotAbsent == [f \in Fields |-> <<>>]
Unset == [set |-> {}, changes |-> NotAbsent, excluded |-> FALSE, absent_values |-> NotAbsent]
Excluded == [Unset EXCEPT !.excluded = TRUE]        \* None instead of an expectation
empty == [Unset EXCEPT !.set = Fields]

\* A field that was not set is empty.
IsExpectation(e) ==
    /\ e \in [set : SUBSET Fields, changes : Changes, excluded : BOOLEAN, absent_values : Changes]
    /\ \A f \in Fields \ e.set : e.changes[f] = <<>>

(***************************************************************************)
(* verify_against: the order of the list itself, then each account that    *)
(* the test names.                                                         *)
(***************************************************************************)
Ascending(q) == \A i \in 2..Len(q) : q[i - 1] < q[i]
Indices(changes) == [i \in DOMAIN changes |-> changes[i].tx_index]

_validate_bal_ordering(bal) ==
    /\ Ascending([i \in DOMAIN bal |-> bal[i].address])
    /\ \A a \in ToSet(bal) :
          LET storage == a.changes["storage_changes"]
          IN  /\ \A f \in ByTransaction : Ascending(Indices(a.changes[f]))
              /\ Ascending([i \in DOMAIN storage |-> storage[i].slot])
              /\ \A s \in ToSet(storage) : Ascending(Indices(s.slot_changes))
              /\ Ascending(a.changes["storage_reads"])

\* The walk through the actual list, 0 when it came to the end without a match:
\* from where it stands to one past the next entry that is x.
Walk(expected, actual) ==
    LET Step(at, x) ==
          LET later == {j \in DOMAIN actual : j >= at /\ actual[j] = x}
          IN  IF at = 0 \/ later = {} THEN 0 ELSE Min(later) + 1
    IN  FoldLeft(Step, 1, expected) # 0

\* Of the storage the next entry of the same slot, whose changes are walked in turn.
WalkSlots(expected, actual) ==
    LET Step(at, x) ==
          LET later == {j \in DOMAIN actual : j >= at /\ actual[j].slot = x.slot}
          IN  IF at = 0 \/ later = {} THEN 0
              ELSE IF Walk(x.slot_changes, actual[Min(later)].slot_changes) THEN Min(later) + 1
              ELSE 0
    IN  FoldLeft(Step, 1, expected) # 0

\* BalAccountAbsentValues.validate_against
validate_against(absent, actual) ==
    /\ \A f \in Fields \ {"storage_changes"} : ToSet(actual[f]) \intersect ToSet(absent[f]) = {}
    /\ \A forbidden \in ToSet(absent["storage_changes"]), s \in ToSet(actual["storage_changes"]) :
          s.slot = forbidden.slot =>
              ToSet(s.slot_changes) \intersect ToSet(forbidden.slot_changes) = {}

_compare_account_expectations(expected, actual) ==
    /\ validate_against(expected.absent_values, actual)
    /\ \A f \in expected.set :
          /\ expected.changes[f] = <<>> => actual[f] = <<>>
          /\ IF f = "storage_changes" THEN WalkSlots(expected.changes[f], actual[f])
             ELSE Walk(expected.changes[f], actual[f])

\* Mutant: what is expected of an account is looked for in any order.
AnyOrder(bal, expectations) ==
    /\ _validate_bal_ordering(bal)
    /\ \A address \in DOMAIN expectations :
          LET e == expectations[address]
              there == {a \in ToSet(bal) : a.address = address}
          IN  IF e.excluded THEN there = {}
              ELSE \A a \in there : \A f \in e.set : ToSet(e.changes[f]) \subseteq ToSet(a.changes[f])

verify_against(bal, expectations) ==
    /\ _validate_bal_ordering(bal)
    /\ \A address \in DOMAIN expectations :
          LET e == expectations[address]
              there == {a \in ToSet(bal) : a.address = address}
          IN  IF e.excluded THEN there = {}
              ELSE /\ e.set # {} \/ e.absent_values # NotAbsent
                   /\ \E a \in there : _compare_account_expectations(e, a.changes)

(***************************************************************************)
(* The modifiers.  One that does not find what it is to change leaves the  *)
(* list as it is, or raises if it does not even find the account.          *)
(***************************************************************************)
Has(bal, addresses) == addresses \subseteq {a.address : a \in ToSet(bal)}

\* _remove_field_from_accounts
remove_field(bal, addresses, field) ==
    [i \in DOMAIN bal |-> IF bal[i].address \in addresses
                          THEN [bal[i] EXCEPT !.changes[field] = <<>>] ELSE bal[i]]

\* The first change of that transaction gets the new value.
Replaced(changes, tx_index, value) ==
    LET these == {j \in DOMAIN changes : changes[j].tx_index = tx_index}
    IN  IF these = {} THEN changes ELSE [changes EXCEPT ![Min(these)].post = value]

\* _modify_field_value; of the storage in the first entry of that slot.
modify_field(bal, address, field, tx_index, slot, value) ==
    LET Slots(a) == {j \in DOMAIN a.changes[field] : a.changes[field][j].slot = slot}
        Changed(a) ==
            IF field # "storage_changes"
            THEN [a EXCEPT !.changes[field] = Replaced(@, tx_index, value)]
            ELSE IF Slots(a) = {} THEN a
            ELSE [a EXCEPT !.changes[field][Min(Slots(a))].slot_changes =
                               Replaced(@, tx_index, value)]
    IN  [i \in DOMAIN bal |-> IF bal[i].address = address THEN Changed(bal[i]) ELSE bal[i]]

\* BalCodeChange has no field of the name that modify_code gives its value.
CodeFound(bal, m) ==
    \E a \in ToSet(bal) : /\ a.address = m.address
                          /\ \E c \in ToSet(a.changes["code_changes"]) : c.tx_index = m.tx_index

swap_tx_indices(bal, tx1, tx2) ==
    LET Swapped(i) == IF i = tx1 THEN tx2 ELSE IF i = tx2 THEN tx1 ELSE i
        Swap(changes) == [j \in DOMAIN changes |-> [changes[j] EXCEPT !.tx_index = Swapped(@)]]
    IN  [i \in DOMAIN bal |->
            [bal[i] EXCEPT !.changes = [f \in Fields |->
                IF f \in ByTransaction THEN Swap(@[f])
                ELSE IF f = "storage_reads" THEN @[f]
                ELSE [j \in DOMAIN @[f] |-> [@[f][j] EXCEPT !.slot_changes = Swap(@)]]]]]

duplicate_account(bal, address) ==
    FlattenSeq([i \in DOMAIN bal |->
                   IF bal[i].address = address THEN <<bal[i], bal[i]>> ELSE <<bal[i]>>])

keep_only(bal, addresses) == SelectSeq(bal, LAMBDA a : a.address \in addresses)

\* What a modifier needs so as not to raise.
Applies(m, bal) ==
    CASE m.op = "remove_field" -> Has(bal, m.addresses)
      [] m.op = "modify_field" -> Has(bal, {m.address}) /\ ~(m.field = "code_changes" /\ CodeFound(bal, m))
      [] m.op = "duplicate_account" -> Has(bal, {m.address})
      [] m.op = "reorder_accounts" -> Len(m.indices) = Len(bal)
      [] m.op = "keep_only" -> Len(keep_only(bal, m.addresses)) = Cardinality(m.addresses)
      [] OTHER -> TRUE

Modified(m, bal) ==
    CASE m.op = "remove_field" -> remove_field(bal, m.addresses, m.field)
      [] m.op = "modify_field" -> modify_field(bal, m.address, m.field, m.tx_index, m.slot, m.value)
      [] m.op = "swap_tx_indices" -> swap_tx_indices(bal, m.tx1, m.tx2)
      [] m.op = "remove_accounts" -> SelectSeq(bal, LAMBDA a : a.address \notin m.addresses)
      [] m.op = "append_account" -> Append(bal, m.account)
      [] m.op = "duplicate_account" -> duplicate_account(bal, m.address)
      [] m.op = "reverse_accounts" -> Reverse(bal)
      [] m.op = "sort_accounts_by_address" -> SortSeq(bal, LAMBDA a, b : a.address < b.address)
      [] m.op = "reorder_accounts" -> [i \in DOMAIN bal |-> bal[m.indices[i]]]
      [] m.op = "keep_only" -> keep_only(bal, m.addresses)
      [] m.op = "clear_all" -> <<>>

\* compose: one after the other, until one raises.
compose(modifiers, bal) ==
    FoldLeft(LAMBDA r, m : IF r.raised \/ ~Applies(m, r.bal) THEN [r EXCEPT !.raised = TRUE]
                           ELSE [r EXCEPT !.bal = Modified(m, @)],
             [raised |-> FALSE, bal |-> bal], modifiers)

(***************************************************************************)
(* What verify_against is to say, by its documentation: each account lists *)
(* what was expected of it, in that order and perhaps with more between,   *)
(* and nothing that was ruled out; everything in the list is in order.     *)
(***************************************************************************)
Embeds(expected, actual, Same(_, _)) ==
    \E at \in [DOMAIN expected -> DOMAIN actual] :
        /\ \A i, j \in DOMAIN expected : i < j => at[i] < at[j]
        /\ \A i \in DOMAIN expected : Same(expected[i], actual[at[i]])

InOrder(q) == \A i, j \in DOMAIN q : i < j => q[i] < q[j]

SameSlot(s, t) == s.slot = t.slot /\ Embeds(s.slot_changes, t.slot_changes, LAMBDA x, y : x = y)

InOrderThroughout(bal) ==
    /\ InOrder([i \in DOMAIN bal |-> bal[i].address])
    /\ \A a \in ToSet(bal) :
          /\ \A f \in ByTransaction : InOrder(Indices(a.changes[f]))
          /\ InOrder([i \in DOMAIN a.changes["storage_changes"] |-> a.changes["storage_changes"][i].slot])
          /\ \A s \in ToSet(a.changes["storage_changes"]) : InOrder(Indices(s.slot_changes))
          /\ InOrder(a.changes["storage_reads"])

FitsExpectation(bal, expectations) ==
    InOrderThroughout(bal) /\ \A address \in DOMAIN expectations :
        LET e == expectations[address]
            At(f) == UNION {ToSet(a.changes[f]) : a \in {a \in ToSet(bal) : a.address = address}}
        IN  /\ e.excluded <=> ~Has(bal, {address})
            /\ ~e.excluded => e # Unset
            /\ \A a \in {a \in ToSet(bal) : a.address = address}, f \in e.set :
                  /\ e.changes[f] = <<>> <=> a.changes[f] = <<>>
                  /\ Embeds(e.changes[f], a.changes[f],
                            LAMBDA x, y : IF f = "storage_changes" THEN SameSlot(x, y) ELSE x = y)
            /\ \A f \in Fields \ {"storage_changes"} : \A x \in ToSet(e.absent_values[f]) : x \notin At(f)
            /\ \A s \in ToSet(e.absent_values["storage_changes"]), t \in At("storage_changes") :
                  s.slot = t.slot => \A x \in ToSet(s.slot_changes) : x \notin ToSet(t.slot_changes)

=============================================================================
