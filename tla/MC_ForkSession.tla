-------------------------- MODULE MC_ForkSession ----------------------------
(* Every fork alone and the ranges of forks that differ, the markers that    *)
(* differ, and blocks before, at and after every transition.                 *)
EXTENDS ForkSession, Forks

NoRange == [single |-> {}, from |-> {}, until |-> {}, skip_transitions |-> FALSE,
            single_fork_mode |-> FALSE]
Maybe(forks) == {{}} \union {{f} : f \in forks}
Lines ==
    {[NoRange EXCEPT !.single = {f}, !.single_fork_mode = TRUE] : f \in Forks_}
    \union {[NoRange EXCEPT !.from = a, !.until = b] :
              a \in Maybe({"Berlin", "EOFv1"}),
              b \in {{}, {"Cancun"}, {"BPO2"}, {"BPO4", "Amsterdam"}}}
    \union {[NoRange EXCEPT !.skip_transitions = TRUE],
            [NoRange EXCEPT !.single = {"Cancun"}, !.from = {"Paris"}],
            [NoRange EXCEPT !.from = {"Paris"}, !.single_fork_mode = TRUE]}

\* Plain forks with a reserve price of blobs.
ReservePriceLines == {[NoRange EXCEPT !.single = {f}] : f \in {"Osaka", "BPO2", "Amsterdam"}}

AllTools == {Forks_, {f \in Forks_ : transitions_to(f) \in get_deployed_forks}}

Markers ==
    {[NoMarkers EXCEPT !.from = a, !.until = b, !.bpo = TRUE] :
        a \in Maybe({"London", "Osaka"}), b \in Maybe({"Prague", "BPO3"})}
    \union {[NoMarkers EXCEPT !.from = {"Cancun"}]}
    \union {[NoMarkers EXCEPT !.at = {f}, !.bpo = t] :
              f \in {"BPO1", "OsakaToBPO1AtTime15k", "CancunToPragueAtTime15k"}, t \in BOOLEAN}
    \union {[NoMarkers EXCEPT !.to = {"London"}],
            [NoMarkers EXCEPT !.to = {"Cancun"}, !.from = {"Paris"}]}
    \union {[NoMarkers EXCEPT !.to = {"Shanghai"}, !.subsequent_forks = TRUE,
                              !.transition_until = u, !.bpo = t] :
              u \in Maybe({"Prague", "BPO2"}), t \in BOOLEAN}

Legacy == [type |-> 0, zeros |-> 0, nonzeros |-> 0, creation |-> FALSE, addresses |-> 0,
           keys |-> 0, authorizations |-> 0, blobs |-> 0]
NoTx == [Legacy EXCEPT !.type = Missing]
Creation == [Legacy EXCEPT !.creation = TRUE, !.nonzeros = 200, !.zeros = 100]
Blobs(n) == [Legacy EXCEPT !.type = 3, !.blobs = n, !.keys = 2, !.addresses = 1]
Authorizing == [Legacy EXCEPT !.type = 4, !.authorizations = 1, !.zeros = 500]

Plain == [number |-> Missing, timestamp |-> Missing, base_fee |-> Missing,
          excess_blob_gas |-> Missing, tx |-> NoTx, invalid |-> FALSE, access |-> NoAccess]
TenBlobs == 1310720

\* Access lists: two accounts and one without changes; lists out of order; what
\* may be expected of them; and each modifier where it finds what it changes and
\* where it does not.
Change(i, v) == [tx_index |-> i, post |-> v]
Slot(s, changes) == [slot |-> s, slot_changes |-> changes]
With(a, field, value) == [a EXCEPT !.changes[field] = value]
Nonces == <<Change(1, 1), Change(2, 2), Change(4, 3)>>
Storage == <<Slot(5, <<Change(1, 7), Change(2, 8)>>), Slot(6, <<Change(2, 1)>>)>>
Sender == With(With(With(Account(1), "nonce_changes", Nonces), "storage_changes", Storage),
               "storage_reads", <<3, 4>>)
Created == With(With(Account(2), "balance_changes", <<Change(1, 100)>>),
                "code_changes", <<Change(2, 9)>>)
Listed3 == <<Sender, Created, Account(3)>>

OutOfOrder ==
    {<<Created, Sender>>, <<Sender, Sender>>, <<With(Sender, "storage_reads", <<4, 3>>)>>,
     <<With(Sender, "nonce_changes", <<Change(2, 2), Change(1, 1)>>)>>,
     <<With(Sender, "balance_changes", <<Change(1, 1), Change(1, 2)>>)>>,
     <<With(Sender, "storage_changes", <<Slot(6, <<>>), Slot(5, <<>>)>>)>>,
     <<With(Sender, "storage_changes", <<Slot(5, <<Change(2, 2), Change(2, 3)>>)>>)>>}

Expecting(f, value) == [Unset EXCEPT !.set = {f}, !.changes[f] = value]
Forbidding(f, value) == [Unset EXCEPT !.absent_values[f] = value]
Expectations ==
    {Unset, Excluded, empty}
    \union {Expecting("nonce_changes", q) :
              q \in {<<>>, Nonces, <<Nonces[1], Nonces[3]>>, <<Nonces[3], Nonces[1]>>, <<Change(2, 1)>>,
                     <<Nonces[2], Nonces[2]>>}}
    \union {Expecting("storage_changes", q) :
              q \in {<<>>, Storage, <<Slot(6, <<>>)>>, <<Storage[2], Storage[1]>>,
                     <<Slot(5, <<Change(2, 8), Change(1, 7)>>)>>, <<Slot(5, <<Change(2, 8)>>), Storage[2]>>}}
    \union {Expecting("storage_reads", q) : q \in {<<>>, <<4>>, <<3, 4>>, <<4, 3>>, <<5>>}}
    \union {Forbidding("nonce_changes", <<Change(3, 3), q>>) : q \in {Change(2, 2), Change(2, 3)}}
    \union {Forbidding("storage_changes", <<Slot(5, <<Change(1, v)>>)>>) : v \in {7, 8}}
    \union {Forbidding("storage_reads", <<r>>) : r \in {4, 5}}
    \union {[Expecting("storage_reads", <<3>>) EXCEPT !.absent_values["storage_reads"] = <<r>>] :
              r \in {4, 5}}

Modifiers ==
    {[op |-> "remove_field", addresses |-> a, field |-> f] : a \in {{1, 2}, {1, 7}}, f \in Fields}
    \union {[op |-> "modify_field", address |-> a, field |-> f, tx_index |-> i, slot |-> 5, value |-> 77] :
              a \in {2, 7}, f \in Fields \ {"storage_reads"}, i \in {2, 3}}
    \union {[op |-> "swap_tx_indices", tx1 |-> 1, tx2 |-> 2], [op |-> "clear_all"],
            [op |-> "append_account", account |-> Account(1)], [op |-> "reverse_accounts"],
            [op |-> "sort_accounts_by_address"]}
    \union {[op |-> o, addresses |-> a] : o \in {"keep_only", "remove_accounts"}, a \in {{2}, {2, 7}}}
    \union {[op |-> "duplicate_account", address |-> a] : a \in {2, 7}}
    \union {[op |-> "reorder_accounts", indices |-> q] : q \in {<<3, 1, 2>>, <<2, 1>>}}

Checked(bal, e) == [NoAccess EXCEPT !.bal = bal, !.checked = TRUE, !.expectations = e]
AccessCases ==
    {Checked(bal, <<>>) : bal \in OutOfOrder}
    \union {Checked(Listed3, [a \in {address} |-> e]) : address \in {1, 3, 4}, e \in Expectations}
AccessChanges ==
    {[Checked(Listed3, <<>>) EXCEPT !.modifiers = q] :
        q \in {<<m>> : m \in Modifiers}
              \union {<<[op |-> "keep_only", addresses |-> {2}], m>> :
                        m \in {m \in Modifiers : m.op \in {"duplicate_account", "modify_field"}
                                                  /\ m.address = 2}}}
MCBlocks ==
    {Plain, [Plain EXCEPT !.timestamp = 14999, !.tx = Legacy],
     [Plain EXCEPT !.timestamp = 15000], [Plain EXCEPT !.number = 5],
     [Plain EXCEPT !.timestamp = 15000, !.invalid = TRUE, !.tx = Legacy],
     [Plain EXCEPT !.base_fee = 1000], [Plain EXCEPT !.excess_blob_gas = TenBlobs],
     [Plain EXCEPT !.tx = Creation], [Plain EXCEPT !.tx = Blobs(6)],
     [Plain EXCEPT !.tx = Authorizing]}
    \union {[Plain EXCEPT !.number = 1, !.access = a] : a \in AccessCases}
    \union {[Plain EXCEPT !.number = 1, !.invalid = TRUE, !.access = a] : a \in AccessChanges}

MCGeneses ==
    {[number |-> Missing, base_fee |-> b, excess_blob_gas |-> x] :
        b \in {Missing, 1000}, x \in {Missing, TenBlobs}}

MCStateTests ==
    {[Plain EXCEPT !.number = n, !.timestamp = t, !.base_fee = b, !.excess_blob_gas = x, !.tx = tx] :
        n \in {1, 5, 6}, t \in {1000, 15000}, b \in {Missing, 10, 1000}, x \in {Missing, TenBlobs},
        tx \in {NoTx, Blobs(1)}}
=============================================================================
