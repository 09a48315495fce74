----------------------------- MODULE EOFMachine -----------------------------
(* The code of an EOF container, run by CodeMachine: a program with a test is *)
(* the code section of the given number of the container under test.         *)
EXTENDS CodeMachine, EOFTests

TheTest == program.test[1]
Sections(kind) == SelectSeq(TheTest.container.sections, LAMBDA s : s.kind = kind)
EachData(sections) == [k \in DOMAIN sections |-> sections[k].data]

\* A reader finds in a container what was put there: each code with its types,
\* the containers, and the data; and it refuses the container that the test made
\* invalid with a flag.
ReadsBack(found, codes) ==
    IF Invalid(TheTest) THEN ~found.ok
    ELSE /\ found.ok
         /\ found.codes = EachData(codes)
         /\ found.types = [k \in DOMAIN codes |-> StackOf(codes[k])]
         /\ found.containers = EachData(Sections(CONTAINER))
         /\ found.data = DataOf(Sections(DATA))

\* The transaction creates what the test expects, and nothing for an invalid one.
CreatesAsExpected(create) == Created(create.initcode) = create.post
ExistsAsExpected(state) ==
    state.initcode # <<>> => (Created(state.initcode[1]) # <<>>) = state.exists
DeploysAsExpected(code) ==
    /\ CreateAllowed(TheTest) => CreatesAsExpected(CreateTransaction(TheTest, code))
    /\ ExistsAsExpected(StateTransaction(TheTest, code))
    /\ ~Invalid(TheTest) => Created(Read(InitcodeBytes(code)).containers[1]) = <<code>>

\* A fixture is written once, and says what the parser says.
Mapping == [one |-> "first pattern", other |-> "second pattern"]
FixtureIsTrue(code, valid) ==
    \A message \in SUBSET {"first pattern", "second pattern"} :
        LET names == message_to_exception(Mapping, message)
        IN  /\ EofFixture({}, TheTest, code, TRUE, valid, names) = "filled" =>
                  /\ valid = ~Invalid(TheTest)
                  /\ Invalid(TheTest) => expect_exception(TheTest) \intersect names # {}
            /\ EofFixture({code}, TheTest, code, TRUE, valid, names) # "filled"

ContainerHolds(code) ==
    /\ Encodes(TheTest.container, code) /\ PostInitAllowed(TheTest)
    /\ ReadsBack(Read(code), Sections(CODE))
    /\ DeploysAsExpected(code)
    /\ FixtureIsTrue(code, Valid(code))

\* Containers are read as they were written, create what the test expects, and
\* get a fixture that is true (Container.bytecode, EOFTest and EOFStateTest); the
\* code runs within the stack that its types declare.
ContainersHold ==
    program.test # <<>> =>
        /\ ip = 1 /\ gas = 0 => ContainerHolds(bytecode(TheTest.container))
        /\ ~Invalid(TheTest) => peak - Start <= StackOf(Sections(CODE)[program.main]).increase
=============================================================================
