---------------------------- MODULE CodeMachine ----------------------------
(***************************************************************************)
(* The code that Bytecode and Generators write, run instruction by         *)
(* instruction.  The machine is the EVM as far as the generators use it;   *)
(* beside it runs the algebra of bytecode.py: ran is the sum of the        *)
(* instructions executed so far, which must say what the stack did.        *)
(***************************************************************************)
EXTENDS Generators, FiniteSets

CONSTANTS
    Programs,    \* the programs, each with the input and the results its author wants
    StackLimit,  \* the highest stack
    GasLimit     \* the gas of a run

\* The opcodes of the table, the counted ones under one name each, and what stands
\* for code or data that a test brings.
Ops == DOMAIN Table \union {"PUSH", "DUP", "SWAP", "WORK", "COND", "DATA"}

Instruction == [op : Ops, arg : Int, size : Nat, pops : Nat, pushes : Nat, min : Nat,
                max : Nat, terminating : BOOLEAN]

\* What every opcode of the table keeps to: it needs what it pops, and its
\* highest stack is at least the one before and the one after.
Plain(i) == i.pops <= i.min /\ i.max >= AtLeast(i.min, i.min - i.pops + i.pushes)

ASSUME ProgramsAssumption ==
    /\ StackLimit \in Nat
    /\ \A p \in Programs :
          /\ p.code \in Seq(Instruction)
          /\ p.stack \in Seq(Int)
          /\ \A k \in DOMAIN p.code :
                /\ Plain(p.code[k])
                /\ p.code[k].op = "SWAP" => p.code[k].pops = 0 /\ p.code[k].pushes = 0

VARIABLES
    program,   \* one of Programs
    ip,        \* the instruction that is next
    stack,     \* the top is last
    left,      \* how often each condition will still be true
    marks,     \* the conditions asked and the chunks of code run, in order
    gas,       \* spent so far
    memory,    \* where the code came from that CODECOPY put at 0, and how much
    result,    \* what SSTORE wrote, or how much RETURN gave from 0 on
    status,
    ran,       \* the sum of the instructions executed
    peak,      \* the highest and the lowest stack so far
    lowest

machine == <<ip, stack, left, marks, gas, memory, result, status>>
vars == <<program, machine, ran, peak, lowest>>

Nothing == -1

Init ==
    /\ program \in Programs
    /\ ip = 1 /\ stack = program.stack /\ left = program.answers /\ marks = <<>>
    /\ gas = 0 /\ memory = <<0, 0>> /\ result = Nothing /\ status = "running"
    /\ ran = Empty /\ peak = Len(program.stack) /\ lowest = Len(program.stack)

(***************************************************************************)
(* Places in the code, and what instructions cost.                         *)
(***************************************************************************)
At(k) == Size(SubSeq(program.code, 1, k - 1))
Places(offset) == {k \in DOMAIN program.code : At(k) = offset}
Dests(offset) == {k \in Places(offset) : program.code[k].op = "JUMPDEST"}

Now == program.code[ip]
This == Single(Now.op, Now, Now.arg)
Height == Len(stack)
Top(n) == stack[Len(stack) - n + 1]

Cheap == {"PC", "GAS", "POP", "RJUMP"}
Cost == CASE Now.op \in {"WORK", "COND"} -> Now.size
          [] Now.op \in Cheap -> 2
          [] Now.op = "JUMPDEST" -> 1
          [] Now.op = "RJUMPI" -> 4
          [] Now.op = "JUMP" -> 8
          [] Now.op = "JUMPI" -> 10
          [] Now.op = "CODECOPY" ->
                3 + 6 * Words(Top(3)) + (Words(Top(3)) * Words(Top(3))) \div 512
          [] Now.op \in {"STOP", "RETURN"} -> 0
          [] OTHER -> 3

(***************************************************************************)
(* Steps.                                                                  *)
(***************************************************************************)
Running == status = "running"
Fetched == Running /\ ip \in DOMAIN program.code
Ready == Fetched /\ Height >= Now.min /\ Height - Now.pops + Now.pushes <= StackLimit
                 /\ gas + Cost <= GasLimit

\* The stack without what is popped, and n copies of a value on it.
Popped == SubSeq(stack, 1, Height - Now.pops)
Leaves(value) == stack' = Popped \o [k \in 1..Now.pushes |-> value]

\* What every executed instruction does to the books.
Executes ==
    /\ gas' = gas + Cost
    /\ ran' = Concat(ran, This)
    /\ peak' = AtLeast(peak, Height + Now.max - Now.min)
    /\ lowest' = Least(lowest, Height - Now.pops)
    /\ UNCHANGED program

GoesOn == ip' = ip + 1 /\ UNCHANGED status
Quiet == UNCHANGED <<left, marks, memory, result>>

Special == {"COND", "WORK", "SWAP", "JUMP", "JUMPI", "RJUMP", "RJUMPI", "SSTORE", "CODECOPY",
            "RETURN", "STOP", "DATA"}

Value == CASE Now.op = "PUSH" -> Now.arg
           [] Now.op = "PC" -> At(ip)
           [] Now.op = "GAS" -> GasLimit - gas - 2
           [] Now.op = "DUP" -> Top(Now.arg)
           [] Now.op = "ADD" -> Top(1) + Top(2)
           [] Now.op = "SUB" -> Top(1) - Top(2)
           [] OTHER -> 0

Compute == Ready /\ Now.op \notin Special /\ Executes /\ Leaves(Value) /\ GoesOn /\ Quiet

Exchanges ==
    /\ Ready /\ Now.op = "SWAP" /\ Executes /\ GoesOn /\ Quiet
    /\ stack' = [stack EXCEPT ![Height] = stack[Height - Now.arg],
                              ![Height - Now.arg] = stack[Height]]

Works ==
    /\ Ready /\ Now.op = "WORK" /\ Executes /\ Leaves(0) /\ GoesOn
    /\ marks' = Append(marks, Now.arg) /\ UNCHANGED <<left, memory, result>>

Asks ==
    /\ Ready /\ Now.op = "COND" /\ Executes /\ GoesOn
    /\ Leaves(IF left[Now.arg] > 0 THEN 1 ELSE 0)
    /\ left' = [left EXCEPT ![Now.arg] = AtLeast(0, @ - 1)]
    /\ marks' = Append(marks, Now.arg) /\ UNCHANGED <<memory, result>>

Jumps == Now.op = "JUMP" \/ (Now.op = "JUMPI" /\ Top(2) # 0)
Jump ==
    /\ Ready /\ Jumps /\ Dests(Top(1)) # {} /\ Executes /\ Leaves(0) /\ Quiet
    /\ ip' \in Dests(Top(1)) /\ UNCHANGED status

\* Relative jumps count from the end of the instruction.
Moves == Now.op = "RJUMP" \/ (Now.op = "RJUMPI" /\ Top(1) # 0)
Target_ == At(ip) + 3 + Now.arg
Move ==
    /\ Ready /\ Moves /\ Places(Target_) # {} /\ Executes /\ Leaves(0) /\ Quiet
    /\ ip' \in Places(Target_) /\ UNCHANGED status

FallThrough ==
    /\ Ready /\ Now.op \in {"JUMPI", "RJUMPI"} /\ ~Jumps /\ ~Moves
    /\ Executes /\ Leaves(0) /\ GoesOn /\ Quiet

Store ==
    /\ Ready /\ Now.op = "SSTORE" /\ Executes /\ Leaves(0) /\ GoesOn
    /\ result' = Top(2) /\ UNCHANGED <<left, marks, memory>>

CodeCopy ==
    /\ Ready /\ Now.op = "CODECOPY" /\ Executes /\ Leaves(0) /\ GoesOn
    /\ memory' = <<Top(2), Top(3)>> /\ UNCHANGED <<left, marks, result>>

Halt ==
    /\ Ready /\ Now.op \in {"STOP", "RETURN"} /\ Executes /\ Leaves(0)
    /\ result' = IF Now.op = "RETURN" /\ Top(1) = 0 THEN Top(2) ELSE result
    /\ status' = "halted" /\ UNCHANGED <<ip, left, marks, memory>>

\* Where no instruction can be executed.
Fault ==
    IF ip \notin DOMAIN program.code \/ Now.op = "DATA"
    THEN IF ip > Len(program.code) THEN "end" ELSE "strayed"
    ELSE IF Height < Now.min THEN "underflow"
    ELSE IF Height - Now.pops + Now.pushes > StackLimit THEN "overflow"
    ELSE IF gas + Cost > GasLimit THEN "outofgas"
    ELSE IF (Jumps /\ Dests(Top(1)) = {}) \/ (Moves /\ Places(Target_) = {}) THEN "badjump"
    ELSE "none"

Stop ==
    /\ Running /\ Fault # "none" /\ status' = Fault
    /\ UNCHANGED <<program, ip, stack, left, marks, gas, memory, result, ran, peak, lowest>>

Next == Compute \/ Exchanges \/ Works \/ Asks \/ Jump \/ Move \/ FallThrough \/ Store
        \/ CodeCopy \/ Halt \/ Stop

Spec == Init /\ [][Next]_vars

(***************************************************************************)
(* What must hold.                                                         *)
(***************************************************************************)
Start == Len(program.stack)
Done == status \in {"end", "halted"}

\* The variables have their types.
TypeOK ==
    /\ ip \in Nat /\ Height \in Nat /\ peak \in Nat /\ lowest \in Nat
    /\ ran.pops \in Nat /\ ran.pushes \in Nat /\ ran.min \in Nat /\ ran.max \in Nat

\* The sum of any instructions, in the order they were executed, says what they
\* did to the stack: its height, its lowest and its highest point; it needs a
\* stack of at most this height, and more just when the next instruction finds
\* too few items (Bytecode.__add__ and its comments).
TraceMetrics ==
    /\ Height = Start - ran.pops + ran.pushes
    /\ lowest = Start - ran.pops
    /\ peak = Start + ran.max - ran.min
    /\ ran.min <= Start
    /\ status = "underflow" => Start < Concat(ran, This).min

\* A generated bytecode declares its own stack: on a stack of its minimum it
\* never runs out of items; without jumps its four numbers are exact; with jumps
\* over balanced parts its final height is right and its maximum is a bound.
DeclaredIsTrue ==
    LET d == program.declares
    IN  /\ status = "underflow" => Start < d.min
        /\ Done => Height = Start - d.pops + d.pushes /\ peak <= Start + d.max - d.min
        /\ Done /\ program.straight =>
              Start >= d.min /\ peak = Start + d.max - d.min /\ lowest = Start - d.pops

\* CodeGasMeasure stores what the measured code costs, less the overhead;
\* Initcode returns the code to deploy, all of it and nothing else.
Measured ==
    /\ Done /\ program.measures # Nothing => result = program.measures
    /\ Done /\ program.deploys # Nothing =>
          /\ memory = <<At(program.deploys), program.code[program.deploys].size>>
          /\ result = program.code[program.deploys].size

\* Structured code runs as it is written: it asks the conditions in order, runs
\* the branch, the action or the turns of the loop they choose and no other, and
\* comes out at its end with what was to be measured; no jump misses, and no stack
\* is too high (Conditional, While, Switch, and the loop of generate_repeated_code,
\* which never comes out; the target of ExtCallGenerator).
RunsAsWritten ==
    /\ status \notin {"badjump", "strayed", "overflow"}
    /\ IsPrefix(marks, program.wants)
    /\ Done => marks = program.wants /\ ~program.endless
    /\ Measured

\* Code repeated to fill a contract is not longer than a contract may be, and
\* there is no room for the repeated part once more.
FillsTheContract ==
    program.fills # <<>> =>
        LET size == Size(program.code)
        IN  size <= program.fills[1] /\ size + program.fills[2] >= program.fills[1]

\* What Initcode says its execution costs is what it costs.
InitcodeGasIsCost == status = "halted" /\ program.costs # Nothing => gas = program.costs
=============================================================================
