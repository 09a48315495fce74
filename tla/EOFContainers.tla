---------------------------- MODULE EOFContainers ----------------------------
(***************************************************************************)
(* ethereum_test_types/eof/v1: a container is written section by section,  *)
(* with flags by which a test makes it invalid, and encoded as a header,   *)
(* the types of its code sections, and the bodies.  Encoded, it is a       *)
(* sequence of cells: the instructions and data of the bodies as they are, *)
(* and a field of so many bytes for each number of the header and the      *)
(* types.  RJUMPV, whose data has no fixed length, is left out.            *)
(***************************************************************************)
EXTENDS Bytecode

Unset == -999999

\* SectionKind
TYPE == 1
CODE == 2
CONTAINER == 3
DATA == 255
SUPPORT_MULTI_SECTION_HEADER == {CODE, CONTAINER}
NON_RETURNING_SECTION == 128

\* AutoSection
in_header(auto) == auto \in {"AUTO", "ONLY_HEADER"}
in_body(auto) == auto \in {"AUTO", "ONLY_BODY"}

Field(width, n) ==
    Single("FIELD", [Opcode(0, 0, 0, 0, FALSE) EXCEPT !.size = width], n).code
Fits(cell) == cell.op = "FIELD" /\ cell.size < 4 => cell.arg \in 0..(256^cell.size - 1)

Flatten(parts) == FoldLeft(LAMBDA a, b : a \o b, <<>>, parts)

(***************************************************************************)
(* Sections.                                                               *)
(***************************************************************************)
Section(kind, data) ==
    [kind |-> kind, data |-> data, custom_size |-> Unset, force_type_listing |-> FALSE,
     code_inputs |-> 0, code_outputs |-> NON_RETURNING_SECTION,
     max_stack_increase |-> Unset, max_stack_height |-> Unset,
     auto_max_stack_height |-> FALSE, auto_code_inputs_outputs |-> FALSE,
     skip_header_listing |-> FALSE, skip_body_listing |-> FALSE,
     skip_types_body_listing |-> FALSE, skip_types_header_listing |-> FALSE]

\* Section.Code of a bytecode, with keyword arguments: without one for the stack
\* it is what the bytecode declares.
WithStackOf(code, kwargs, s) ==
    IF {"max_stack_height", "max_stack_increase"} \intersect DOMAIN kwargs # {} THEN s
    ELSE [s EXCEPT !.max_stack_increase = code.max - s.code_inputs]
CodeSection(code, kwargs) == WithStackOf(code, kwargs, kwargs @@ Section(CODE, code.code))

with_max_stack_height(s, n) == [s EXCEPT !.max_stack_height = n]
with_auto_max_stack_height(s) == [s EXCEPT !.auto_max_stack_height = TRUE]
with_auto_code_inputs_outputs(s) == [s EXCEPT !.auto_code_inputs_outputs = TRUE]

Size_(s) == IF s.custom_size # Unset THEN s.custom_size ELSE Size(s.data)

\* The stack from the opcodes in their order, as if none jumped; a byte that is
\* no opcode gives it up.
After(v, i) ==
    [min |-> Least(v.min, v.height - i.pops), height |-> v.height - i.pops + i.pushes,
     max |-> AtLeast(v.max, v.height - i.pops + i.pushes)]
StackValues(v) == [inputs |-> 0 - v.min, outputs |-> AtLeast(v.height, 0), max |-> v.max]
NoValues == [min |-> 0, height |-> 0, max |-> 0]
compute_code_stack_values(data) ==
    StackValues(IF \E k \in DOMAIN data : data[k].op \in {"DATA", "FIELD"} THEN NoValues
                ELSE FoldLeft(After, NoValues, data))

Listed(s) == s.kind = CODE \/ s.force_type_listing
Increase(s, auto, inputs) ==
    IF s.auto_max_stack_height THEN auto.max - inputs
    ELSE IF s.max_stack_increase # Unset THEN s.max_stack_increase
    ELSE IF s.max_stack_height # Unset THEN s.max_stack_height - inputs
    ELSE 0
StackWith(s, auto) ==
    IF s.auto_code_inputs_outputs
    THEN [inputs |-> auto.inputs, outputs |-> auto.outputs, increase |-> Increase(s, auto, auto.inputs)]
    ELSE [inputs |-> s.code_inputs, outputs |-> s.code_outputs,
          increase |-> Increase(s, auto, s.code_inputs)]
StackOf(s) == StackWith(s, compute_code_stack_values(s.data))

Entry(t) == Field(1, t.inputs) \o Field(1, t.outputs) \o Field(2, t.increase)
type_definition(s) == IF Listed(s) THEN Entry(StackOf(s)) ELSE <<>>

\* The assertions of type_definition.
TypeAllowed(s) ==
    Listed(s) => /\ s.max_stack_height = Unset
                    \/ (s.max_stack_increase = Unset /\ ~s.auto_max_stack_height)
                 /\ StackOf(s).increase >= 0

\* The header of neighbours of one kind.  A first section that skips the header
\* takes all of them out of it.
HeaderSize(s) == Field(IF s.kind = CONTAINER THEN 4 ELSE 2, Size_(s))
CountedHeader(kind, registered) ==
    Field(1, kind) \o Field(2, Len(registered))
    \o Flatten([k \in DOMAIN registered |-> HeaderSize(registered[k])])
list_header(sections) ==
    IF sections[1].skip_header_listing THEN <<>>
    ELSE IF sections[1].kind \in SUPPORT_MULTI_SECTION_HEADER
    THEN CountedHeader(sections[1].kind, SelectSeq(sections, LAMBDA s : ~s.skip_header_listing))
    ELSE Flatten([k \in DOMAIN sections |-> Field(1, sections[k].kind) \o HeaderSize(sections[k])])

(***************************************************************************)
(* Containers.                                                             *)
(***************************************************************************)
Container(sections) ==
    [sections |-> sections, magic |-> 61184, version |-> 1, header_terminator |-> 0, extra |-> <<>>,
     auto_type_section |-> "AUTO", auto_data_section |-> TRUE, auto_sort_sections |-> "AUTO",
     skip_join_concurrent_sections_in_header |-> FALSE, validity_error |-> {},
     kind |-> "RUNTIME", kind_set |-> FALSE, raw_bytes |-> <<>>, raw |-> FALSE]

count_sections(sections, kind) == Len(SelectSeq(sections, LAMBDA s : s.kind = kind))

\* The types and the data section that are added.  The types are those of the
\* code sections as they are listed, before any is moved.
TypeSection(sections, entries) ==
    LET Kept(k) == IF sections[k].skip_types_body_listing THEN <<>> ELSE entries[k]
        Counted(n, k) == IF sections[k].skip_types_header_listing THEN n ELSE n + Size(entries[k])
    IN  [Section(TYPE, Flatten([k \in DOMAIN sections |-> Kept(k)]))
         EXCEPT !.custom_size = FoldLeft(Counted, 0, [k \in DOMAIN sections |-> k])]
WithTypes(c) ==
    IF c.auto_type_section = "NONE" \/ count_sections(c.sections, TYPE) > 0 THEN c.sections
    ELSE <<TypeSection(c.sections, [k \in DOMAIN c.sections |-> type_definition(c.sections[k])])>>
         \o c.sections
WithData_(c) ==
    WithTypes(c) \o (IF c.auto_data_section /\ count_sections(c.sections, DATA) = 0
                     THEN <<Section(DATA, <<>>)>> ELSE <<>>)

\* By kind; sections of a kind stay in their order.
InOrderOf(kinds, sections) ==
    Flatten([k \in DOMAIN kinds |-> SelectSeq(sections, LAMBDA s : s.kind = kinds[k])])
Sorted(sections) ==
    InOrderOf(SetToSortSeq({sections[k].kind : k \in DOMAIN sections}, LAMBDA a, b : a < b), sections)

Joined(c, sections) ==
    FoldLeft(LAMBDA groups, s :
                IF groups # <<>> /\ Last(Last(groups)).kind = s.kind
                   /\ ~c.skip_join_concurrent_sections_in_header
                THEN Front(groups) \o <<Append(Last(groups), s)>>
                ELSE Append(groups, <<s>>),
             <<>>, sections)

Headers(groups) == Flatten([k \in DOMAIN groups |-> list_header(groups[k])])
HeaderOf(c, sections) ==
    LET asked == SelectSeq(sections, LAMBDA s : s.kind # TYPE \/ c.auto_type_section # "ONLY_BODY")
    IN  Headers(Joined(c, IF in_header(c.auto_sort_sections) THEN Sorted(asked) ELSE asked))

Written_(c, sections) ==
    SelectSeq(sections, LAMBDA s : /\ ~s.skip_body_listing
                                   /\ ~(s.kind = TYPE /\ c.auto_type_section = "ONLY_HEADER"))
DataOf(sections) == Flatten([k \in DOMAIN sections |-> sections[k].data])

\* Mutant: the order that the comment on auto_sort_sections gives for the body:
\* the data before the containers.
BodyDataFirst(c, sections) ==
    DataOf(Written_(c, IF in_body(c.auto_sort_sections)
                       THEN InOrderOf(<<TYPE, CODE, DATA, CONTAINER>>, sections) ELSE sections))

BodyOf(c, sections) ==
    DataOf(Written_(c, IF in_body(c.auto_sort_sections) THEN Sorted(sections) ELSE sections))

EncodedAs(c, sections) ==
    Field(2, c.magic) \o Field(1, c.version) \o HeaderOf(c, sections)
    \o Field(1, c.header_terminator) \o BodyOf(c, sections) \o c.extra
bytecode(c) == IF c.raw THEN c.raw_bytes ELSE EncodedAs(c, WithData_(c))

\* What the encoding asserts, and numbers that have their bytes.
Encodes(c, code) == /\ c.raw => c.sections = <<>>
                    /\ \A k \in DOMAIN c.sections : TypeAllowed(c.sections[k])
                    /\ \A k \in DOMAIN code : Fits(code[k])

(***************************************************************************)
(* Containers that deploy others.                                          *)
(***************************************************************************)
Deploying(code, kwargs, inner) ==
    Container(<<CodeSection(code, kwargs), Section(CONTAINER, inner)>>)
RETURNCODE_0 == Call(Data("RETURNCODE", 0), <<Push(0), Push(0)>>)

\* Container.Init, of an encoded container.
Init_(deploy_container, prefix) == Deploying(Concat(prefix, RETURNCODE_0), <<>>, deploy_container)

\* Initcode: a container that creates, by EOFCREATE, the one that deploys.
init_container(deploy) == Deploying(RETURNCODE_0, [max_stack_height |-> 2], deploy)
EOFCREATE_0 == Call(Data("EOFCREATE", 0), [k \in 1..4 |-> Push(0)])
InitcodeBytes(deploy) ==
    bytecode(Deploying(Concat(EOFCREATE_0, Op("STOP")), [max_stack_height |-> 4],
                       bytecode(init_container(deploy))))
=============================================================================
