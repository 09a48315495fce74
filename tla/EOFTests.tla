------------------------------ MODULE EOFTests ------------------------------
(***************************************************************************)
(* ethereum_test_specs/eof.py: EOFTest asks a parser whether a container   *)
(* is valid and creates it in a transaction; EOFStateTest also runs it.    *)
(* An exception is the set of the names a test accepts, {} for none.       *)
(***************************************************************************)
EXTENDS EOFContainers

(***************************************************************************)
(* The reader of a container, which is the parser's and the EVM's.         *)
(***************************************************************************)
\* The last of the cells from this one on that have this size together, 0 where
\* the size ends within a cell or beyond them all.
Take(cells, from, size) ==
    LET after[k \in (from - 1)..Len(cells)] ==
            IF k < from THEN 0 ELSE after[k - 1] + cells[k].size
        ends == {k \in DOMAIN after : after[k] = size}
    IN  IF ends = {} THEN 0 ELSE CHOOSE k \in ends : TRUE

IsField(cells, k, width, values) ==
    k \in DOMAIN cells /\ cells[k].op = "FIELD" /\ cells[k].size = width /\ cells[k].arg \in values

Malformed == [ok |-> FALSE, types |-> <<>>, codes |-> <<>>, containers |-> <<>>, data |-> <<>>]

\* The bodies of these sizes, one behind the other; <<>> where they do not fit.
AppendTo(found, end) == IF end = 0 THEN <<>> ELSE Append(found, end)
Bodies(cells, from, sizes) ==
    FoldLeft(LAMBDA found, size : IF found = <<>> THEN <<>>
                                  ELSE AppendTo(found, Take(cells, Last(found) + 1, size)),
             <<from - 1>>, sizes)

\* magic, version, types, one list of codes, perhaps one of containers, data,
\* the end of the header; then exactly the bodies.
Number(cells, k, width, least) == IsField(cells, k, width, least..65535)
Headed(cells, codes, after, nested, data) ==
    /\ IsField(cells, 1, 2, {61184}) /\ IsField(cells, 2, 1, {1})
    /\ IsField(cells, 3, 1, {TYPE}) /\ IsField(cells, 4, 2, {4 * codes})
    /\ codes > 0 /\ IsField(cells, 5, 1, {CODE})
    /\ \A k \in 7..(after - 1) : Number(cells, k, 2, 1)
    /\ \A k \in 1..nested : Number(cells, after + 1 + k, 4, 1)
    /\ IsField(cells, data, 1, {DATA}) /\ Number(cells, data + 1, 2, 0)
    /\ IsField(cells, data + 2, 1, {0})
Parted(codes, nested, parts) ==
    IF Len(parts[1]) = 3 * codes
       /\ \A k \in DOMAIN parts[1] : Number(parts[1], k, IF k % 3 = 0 THEN 2 ELSE 1, 0)
    THEN [ok |-> TRUE,
          types |-> [k \in 1..codes |-> [inputs |-> parts[1][3 * k - 2].arg,
                                         outputs |-> parts[1][3 * k - 1].arg,
                                         increase |-> parts[1][3 * k].arg]],
          codes |-> SubSeq(parts, 2, codes + 1),
          containers |-> SubSeq(parts, codes + 2, codes + nested + 1),
          data |-> Last(parts)]
    ELSE Malformed
Split(cells, codes, nested, ends) ==
    IF ends = <<>> THEN Malformed
    ELSE IF Last(ends) # Len(cells) THEN Malformed
    ELSE Parted(codes, nested,
                [k \in 1..(Len(ends) - 1) |-> SubSeq(cells, ends[k] + 1, ends[k + 1])])
ReadBodies(cells, codes, after, nested, data) ==
    IF ~Headed(cells, codes, after, nested, data) THEN Malformed
    ELSE LET Args(from, n) == [k \in 1..n |-> cells[from + k - 1].arg]
         IN  Split(cells, codes, nested,
                   Bodies(cells, data + 3, <<cells[4].arg>> \o Args(7, codes)
                                           \o Args(after + 2, nested) \o <<cells[data + 1].arg>>))
ReadNested(cells, codes, after, nested) ==
    ReadBodies(cells, codes, after, nested, IF nested = 0 THEN after ELSE after + 2 + nested)
ReadCodes(cells, codes, after) ==
    ReadNested(cells, codes, after,
               IF IsField(cells, after, 1, {CONTAINER}) /\ IsField(cells, after + 1, 2, 1..256)
               THEN cells[after + 1].arg ELSE 0)
Codes(cells) == IF IsField(cells, 6, 2, 1..1024) THEN cells[6].arg ELSE 0
Read(cells) == ReadCodes(cells, Codes(cells), 7 + Codes(cells))

\* With all that it contains, three levels deep.
AllRead(r) == r.ok /\ \A k \in DOMAIN r.containers : Read(r.containers[k]).ok
ValidRead(r) == r.ok /\ \A k \in DOMAIN r.containers : AllRead(Read(r.containers[k]))
Valid(cells) == ValidRead(Read(cells))

\* What a transaction with this initcode creates: the container that RETURNCODE names.
Returned(r, returns) == IF returns = <<>> THEN <<>> ELSE <<r.containers[returns[1].arg + 1]>>
CreatedBy(r) == IF ~ValidRead(r) THEN <<>>
                ELSE Returned(r, SelectSeq(r.codes[1], LAMBDA i : i.op = "RETURNCODE"))
Created(cells) == CreatedBy(Read(cells))

(***************************************************************************)
(* Tests.  What may be left out is <<>> or <<value>>.                      *)
(***************************************************************************)
Test(spec, container) ==
    [spec |-> spec, container |-> container, expect_exception |-> {}, container_kind |-> "RUNTIME",
     kind_set |-> FALSE, deployed_set |-> FALSE, deployed_container |-> <<>>]

\* model_post_init: what the container says of its error and its kind wins, and
\* must not contradict the test.
PostInitAllowed(t) ==
    LET c == t.container
    IN  /\ c.validity_error # {} => /\ t.expect_exception \in {{}, c.validity_error}
                                    /\ t.deployed_container = <<>>
        /\ c.kind_set /\ t.kind_set => c.kind = t.container_kind
expect_exception(t) ==
    IF t.container.validity_error # {} THEN t.container.validity_error ELSE t.expect_exception
container_kind(t) == IF t.container.kind_set THEN t.container.kind ELSE t.container_kind
Invalid(t) == expect_exception(t) # {}

Inner(t) == SelectSeq(t.container.sections, LAMBDA s : s.kind = CONTAINER)

\* generate_eof_contract_create_transaction: the initcode, and the code that the
\* test expects to be there afterwards.  code is the encoded container.
deployed_container(t, code, inner) ==
    IF container_kind(t) = "RUNTIME" THEN <<code>>
    ELSE IF t.deployed_set THEN t.deployed_container
    ELSE IF Invalid(t) \/ inner = <<>> THEN <<>> ELSE <<inner[1].data>>

\* Its assertions, and the transaction.
CreateAllowed(t) ==
    IF container_kind(t) = "RUNTIME" THEN t.deployed_container = <<>>
    ELSE t.deployed_set \/ Invalid(t) \/ (~t.container.raw /\ Inner(t) # <<>>)
CreateTransaction(t, code) ==
    [initcode |-> IF container_kind(t) = "INITCODE" THEN code ELSE bytecode(Init_(code, Empty)),
     post |-> IF Invalid(t) THEN <<>> ELSE deployed_container(t, code, Inner(t))]

\* EOFStateTest.model_post_init: what does not run as it is deployed is created.
StateTransaction(t, code) ==
    IF container_kind(t) = "INITCODE" THEN [initcode |-> <<code>>, exists |-> ~Invalid(t)]
    ELSE IF Invalid(t) THEN [initcode |-> <<bytecode(Init_(code, Empty))>>, exists |-> FALSE]
    ELSE [initcode |-> <<>>, exists |-> TRUE]

(***************************************************************************)
(* The fixture.                                                            *)
(***************************************************************************)

\* The exceptions whose pattern is in the message of the parser; a message in which
\* there is none is an undefined exception.
message_to_exception(mapping, message) == {e \in DOMAIN mapping : mapping[e] \in message}

verify_result(expected, valid, names) ==
    IF expected = {} THEN IF valid THEN "filled" ELSE "unexpected"
    ELSE IF valid THEN "expected"
    ELSE IF expected \intersect names = {} THEN "mismatch" ELSE "filled"

\* make_eof_test_fixture, in a process that has filled some containers before;
\* code is the test's container, and valid what the parser says of it.  Without
\* the parser the fixture is written as the test says.
EofFixture(existing_tests, t, code, parser, valid, names) ==
    IF code \in existing_tests
    THEN IF t.spec = "eof_test" THEN "duplicate" ELSE "skipped"
    ELSE IF ~parser THEN "filled"
    ELSE verify_result(expect_exception(t), valid, names)
=============================================================================
