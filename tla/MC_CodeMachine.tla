-------------------------- MODULE MC_CodeMachine --------------------------
(* Programs for CodeMachine.  A piece is a bytecode with what it should run:  *)
(* the marks of its conditions and chunks in the order the documentation of   *)
(* the generators says, for given answers of the conditions.                  *)
EXTENDS EOFMachine

CONSTANTS Sizes, ActionSizes, Lengths, ContractSize

\* Stand-ins for the code a test writes: a chunk of n bytes that uses two slots
\* of the stack and leaves some, and the code of a condition.
Leaving(mark, n, items) ==
    Single("WORK", [Opcode(0, items, 0, n - 1, FALSE) EXCEPT !.max = items + 2], mark)
Work(mark, n) == Leaving(mark, n, 0)
Cond(mark, n) == Single("COND", Opcode(0, 1, 0, n - 1, FALSE), mark)
Bytes(mark, n) == Single("DATA", [Opcode(0, 0, 0, n, FALSE) EXCEPT !.size = n], mark)
Stops(a) == Concat(a, Op("STOP"))

Conditions == 1..3
Answers == [Conditions -> 0..1]
Repeats == [Conditions -> 0..2]

\* stops: what it runs ends the program.
Piece(code, runs, stops) == [code |-> code, runs |-> runs, stops |-> stops]
Chunk(mark, n) == Piece(Work(mark, n), <<mark>>, FALSE)
LastChunk(mark, n) == Piece(Concat(Work(mark, n), Op("STOP")), <<mark>>, TRUE)

If(eof, f, c, yes, no) ==
    LET chosen == IF f[c] > 0 THEN yes ELSE no
    IN  Piece(IF eof THEN ConditionalEof(Cond(c, 1), yes.code, no.code)
              ELSE ConditionalLegacy(Cond(c, 1), yes.code, no.code),
              <<c>> \o chosen.runs, chosen.stops)

Loop(f, c, body) ==
    LET turn[n \in Nat] == IF n = 0 THEN <<>> ELSE turn[n - 1] \o body.runs \o <<c>>
    IN  Piece(WhileTrue(body.code, Cond(c, 1)), turn[f[c] + 1], FALSE)

\* The first condition that is true chooses, in the order of the list.
Choose(eof, f, default, actions) ==
    LET yes == {c \in DOMAIN actions : f[c] > 0}
        asked == IF yes = {} THEN Len(actions) ELSE CHOOSE c \in yes : \A d \in yes : c <= d
        chosen == IF yes = {} THEN default ELSE actions[asked]
    IN  Piece(Switch(eof, default.code,
                     [c \in DOMAIN actions |->
                        [condition |-> Cond(c, 1), terminating |-> actions[c].stops,
                         action |-> actions[c].code]]),
              [c \in 1..asked |-> c] \o chosen.runs, chosen.stops)

Program(code, runs, f) ==
    [code |-> code.code, declares |-> [code EXCEPT !.code = <<>>], wants |-> runs, answers |-> f,
     stack |-> <<>>, straight |-> FALSE, endless |-> FALSE, measures |-> Nothing,
     deploys |-> Nothing, fills |-> <<>>, costs |-> Nothing, test |-> <<>>, main |-> 0]

\* A piece behind a chunk and before another, so that it does not start at zero.
Written(f, p) ==
    Program(Join(<<Work(10, 3), p.code, Work(11, 2)>>),
            <<10>> \o p.runs \o (IF p.stops THEN <<>> ELSE <<11>>), f)

Conditionals ==
    {Written(f, If(eof, f, 1, Chunk(12, n), Chunk(13, m))) :
        eof \in BOOLEAN, f \in Answers, n \in Sizes, m \in Sizes}
    \union {Written(f, If(TRUE, f, 1, Chunk(12, n), LastChunk(13, 2))) : f \in Answers, n \in Sizes}

Switches ==
    {Written(f, Choose(FALSE, f, Chunk(12, d), <<Chunk(13, n), Chunk(14, m), Chunk(15, 2)>>)) :
        f \in Answers, d \in Sizes, n \in ActionSizes, m \in ActionSizes}
    \union {Written(f, Choose(TRUE, f, Chunk(12, d), <<a, Chunk(14, n), b>>)) :
        f \in Answers, d \in Sizes, n \in Sizes,
        a \in {Chunk(13, 5), LastChunk(13, 300)}, b \in {Chunk(15, 2), LastChunk(15, 2)}}

Nested ==
    {Written(f, If(FALSE, f, 3, Choose(FALSE, f, Chunk(12, n), <<Chunk(13, m), Chunk(14, 7)>>),
                   Loop(f, 1, Chunk(15, n)))) : f \in Answers, n \in Sizes, m \in ActionSizes}

Never == [c \in Conditions |-> 0]
Endless(code, runs) == [Program(code, runs, Never) EXCEPT !.endless = TRUE]
Turns == 100
Cycle(n, body, last) ==
    [k \in 1..Turns |-> IF last = 0 \/ k % (n + 1) # 0 THEN body ELSE last]

Loops ==
    {Written(f, Loop(f, 1, Chunk(12, n))) : f \in Repeats, n \in Sizes}
    \union {Endless(Concat(Work(10, 3), WhileForever(Work(12, n))), <<10>> \o Cycle(1, 12, 0)) :
               n \in {9, 300}}
    \union {LET last == IF tail = 0 THEN Empty ELSE Work(11, tail)
                first == IF head = 0 THEN Empty ELSE Work(10, head)
                code == Repeated(first, Work(12, n), last, ContractSize)
                times == Cardinality({k \in DOMAIN code.code : code.code[k].arg = 12})
            IN  [Endless(code, (IF head = 0 THEN <<>> ELSE <<10>>)
                               \o Cycle(times, 12, IF tail = 0 THEN 0 ELSE 11))
                 EXCEPT !.fills = <<ContractSize, n>>] :
               head \in {0, 3, 280}, tail \in {0, 4}, n \in {9, 10}}

Targets == {Program(Target(Empty, body, 40, StackLimit), <<>>, Never) :
              body \in {Push(1), Concat(Push(1), Op("POP")), Concat(Push(1), Push(2))}}

Measures ==
    {[Program(CodeGasMeasure(Leaving(12, n, items), overhead, items, stop), <<12>>, Never)
      EXCEPT !.measures = n - overhead] :
        n \in Sizes, items \in 0..2, overhead \in {0, 1}, stop \in BOOLEAN}

Deployments ==
    {LET code == Initcode(Bytes(7, n), prefix, padding)
     IN  [Program(code, IF prefix = Empty THEN <<>> ELSE <<10>>, Never)
          EXCEPT !.deploys = Len(prefix.code) + 8,
                 !.costs = IF prefix = Empty THEN InitcodeGas(n) ELSE Nothing] :
        n \in Lengths, prefix \in {Empty, Work(10, 5)}, padding \in {Empty, Bytes(8, 4)}}

\* Straight code, on a stack as high as it says it needs or one lower.
Parts == {Op("ADD"), Push(0), Push(300), Push(-1), Dup(2), Swap(2), Op("POP"), Op("CALLDATACOPY"),
          Leaving(12, 3, 1), Op("CREATE2")}
Straight ==
    {LET code == Concat(a, Concat(b, c))
         marks_ == SelectSeq([k \in DOMAIN code.code |-> code.code[k].arg], LAMBDA m : m = 12)
     IN  [Program(code, marks_, Never)
          EXCEPT !.straight = TRUE,
                 !.stack = [k \in 1..(IF low /\ code.min > 0 THEN code.min - 1 ELSE code.min) |-> 5]] :
        a \in Parts, b \in Parts, c \in Parts, low \in BOOLEAN}

\* Containers around a code: sections in any order, and flags that break them.
Returns1 == CodeSection(Concat(Push(1), Op("RETF")), [code_outputs |-> 1])
Small == Section(CONTAINER, bytecode(Container(<<CodeSection(Op("INVALID"), <<>>)>>)))
Large == Section(CONTAINER, bytecode(Container(<<Section(DATA, Bytes(7, 300).code),
                                                 CodeSection(Op("STOP"), <<>>)>>)))
FourBytes == Section(DATA, Bytes(7, 4).code)
Around(s) ==
    {<<s>>, <<s, Returns1>>, <<Returns1, s>>, <<FourBytes, s>>, <<s, FourBytes, Small>>,
     <<Small, s, FourBytes, Returns1>>, <<Large, Returns1, Small, s>>}
MainIn(sections, s) ==
    LET codes == SelectSeq(sections, LAMBDA x : x.kind = CODE)
    IN  CHOOSE k \in DOMAIN codes : codes[k] = s

Tested(p, s, test) == [p EXCEPT !.test = <<test>>, !.main = MainIn(test.container.sections, s)]

Whole(p) == [p.declares EXCEPT !.code = p.code]
WithCode(p, code) == [p EXCEPT !.code = code.code, !.declares = [code EXCEPT !.code = <<>>]]
Deploys(p) == WithCode(p, Concat(Whole(p), RETURNCODE_0))
Main(p) == CodeSection(Whole(p), [code_inputs |-> Len(p.stack)])

EofPrograms ==
    {Written(f, If(TRUE, f, 1, Chunk(12, n), Chunk(13, 2))) : f \in Answers, n \in Sizes}
    \union {Written(f, Choose(TRUE, f, Chunk(12, 2), <<Chunk(13, n), LastChunk(14, 2)>>)) :
               f \in Answers, n \in Sizes}
Needing == {p \in Straight : p.code[1].op \in {"ADD", "POP", "CREATE2"} /\ Len(p.stack) = p.declares.min}
OnItsOwn == {[Program(code, <<>>, Never) EXCEPT !.straight = TRUE] :
               code \in {Join(<<Push(1), Push(300), Op("ADD"), Op("POP")>>), Join(<<Push(0), Push(0), Op("RETURN")>>)}}

Encoded ==
    UNION {{Tested(p, Main(p), Test(spec, Container(sections))) :
              sections \in Around(Main(p)), spec \in {"eof_test", "eof_state_test"}} :
              p \in {q \in EofPrograms : q.answers[2] = 0 /\ q.answers[3] = 0}}
    \union {Tested(p, Main(p), Test("eof_test", Container(<<Main(p)>>))) : p \in Needing}
    \union
    {LET s == with_auto_max_stack_height(with_auto_code_inputs_outputs(Main(p)))
     IN  Tested(p, s, Test("eof_state_test", Container(<<s>>))) : p \in OnItsOwn}

\* Initcode whose container says its kind, or whose test does; the container it
\* deploys is given or inferred.
InitContainers ==
    {LET q == Deploys(p)
         c == Container(<<Small, Main(q), Large>>)
         t == [Test(spec, [c EXCEPT !.kind = "INITCODE", !.kind_set = ~in_test])
               EXCEPT !.container_kind = IF in_test THEN "INITCODE" ELSE @, !.kind_set = in_test]
     IN  Tested(q, Main(q), IF given THEN [t EXCEPT !.deployed_set = TRUE,
                                                    !.deployed_container = <<Small.data>>] ELSE t) :
        p \in OnItsOwn, spec \in {"eof_test", "eof_state_test"}, in_test \in BOOLEAN, given \in BOOLEAN}

\* What makes a container of two codes, a container and data invalid.
Broken(s) ==
    LET With(k, flag) == [x \in 1..4 |-> IF x = k THEN flag @@ <<s, Returns1, Small, FourBytes>>[x]
                                         ELSE <<s, Returns1, Small, FourBytes>>[x]]
        c == Container(<<s, Returns1, Small, FourBytes>>)
        late == Container(<<FourBytes, s>>)
    IN  {Container(With(k, flag)) : k \in {1, 2},
            flag \in {[skip_header_listing |-> TRUE], [skip_body_listing |-> TRUE],
                      [skip_types_body_listing |-> TRUE], [skip_types_header_listing |-> TRUE]}}
        \union {Container(With(k, [custom_size |-> n])) : k \in 1..4, n \in {0, 8}}
        \union {[c EXCEPT !.extra = Bytes(7, 1).code], [c EXCEPT !.magic = 61185],
                [c EXCEPT !.version = 2], [c EXCEPT !.header_terminator = 1],
                [c EXCEPT !.skip_join_concurrent_sections_in_header = TRUE],
                [Container(<<s>>) EXCEPT !.auto_data_section = FALSE],
                [late EXCEPT !.auto_sort_sections = "NONE"],
                [late EXCEPT !.auto_sort_sections = "ONLY_HEADER"],
                [late EXCEPT !.auto_sort_sections = "ONLY_BODY"],
                [Container(<<>>) EXCEPT !.raw = TRUE, !.raw_bytes = Front(bytecode(c))]}
        \union {[c EXCEPT !.auto_type_section = auto] : auto \in {"ONLY_HEADER", "ONLY_BODY", "NONE"}}

Refused ==
    UNION {{[p EXCEPT !.test = <<[Test(spec, [c EXCEPT !.validity_error = {"one"}])
                                  EXCEPT !.expect_exception = expected]>>] :
              c \in Broken(Main(p)), spec \in {"eof_test", "eof_state_test"},
              expected \in {{}, {"one"}}} : p \in OnItsOwn}

ThePrograms == Conditionals \union Switches \union Nested \union Loops \union Targets \union Measures
               \union Deployments \union Straight \union Encoded \union InitContainers \union Refused
=============================================================================
