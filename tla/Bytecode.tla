------------------------------ MODULE Bytecode ------------------------------
(***************************************************************************)
(* ethereum_test_vm/bytecode.py: code with what it takes from the stack,   *)
(* leaves on it, needs of it and makes of it.  A bytecode here keeps its   *)
(* instructions, where the source keeps their bytes: an instruction is an  *)
(* opcode with its data.                                                   *)
(***************************************************************************)
EXTENDS Opcodes, SequencesExt

Least(a, b) == IF a < b THEN a ELSE b

Empty == [code |-> <<>>, pops |-> 0, pushes |-> 0, min |-> 0, max |-> 0,
          terminating |-> FALSE]

\* One instruction as a bytecode: the name, the opcode, and the value of its data.
Single(op, opcode, arg) ==
    [code |-> <<[op |-> op, arg |-> arg, size |-> opcode.size, pops |-> opcode.pops,
                 pushes |-> opcode.pushes, min |-> opcode.min, max |-> opcode.max,
                 terminating |-> opcode.terminating]>>,
     pops |-> opcode.pops, pushes |-> opcode.pushes, min |-> opcode.min,
     max |-> opcode.max, terminating |-> opcode.terminating]

\* Mutant: the highest stack of the second part is counted from the start.
ConcatFlat(a, b) ==
    LET deeper == a.pops >= a.pops - a.pushes + b.pops
        c_min == AtLeast(a.min, b.min + a.pops - a.pushes)
    IN  [code |-> a.code \o b.code,
         pops |-> IF deeper THEN a.pops ELSE a.pops - a.pushes + b.pops,
         pushes |-> IF deeper THEN a.pushes - b.pops + b.pushes ELSE b.pushes,
         min |-> c_min,
         max |-> AtLeast(c_min + a.max - a.min, b.max),
         terminating |-> b.terminating]

\* __add__: a runs, then b.  The sum pops down to the lower of the two bottoms;
\* it needs what a needs, and what b needs beyond the balance of a.
Concat(a, b) ==
    LET a_bottom == 0 - a.pops
        b_bottom == a_bottom + a.pushes - b.pops
        c_min == AtLeast(a.min, b.min + a.pops - a.pushes)
    IN  [code |-> a.code \o b.code,
         pops |-> IF a_bottom <= b_bottom THEN a.pops ELSE a.pops - a.pushes + b.pops,
         pushes |-> IF a_bottom <= b_bottom THEN a.pushes - b.pops + b.pushes ELSE b.pushes,
         min |-> c_min,
         max |-> AtLeast(c_min + a.max - a.min, c_min - a.pops + a.pushes + b.max - b.min),
         terminating |-> b.terminating]

Join(parts) == FoldLeft(Concat, Empty, parts)

\* __mul__
Times(n, a) == Join([i \in 1..n |-> a])

\* __len__, of a bytecode and of instructions
Size(code) ==
    LET upto[k \in 0..Len(code)] == IF k = 0 THEN 0 ELSE upto[k - 1] + code[k].size
    IN  upto[Len(code)]
Length(a) == Size(a.code)

(***************************************************************************)
(* Opcodes in use: as they are, with data, with arguments.                 *)
(***************************************************************************)
Op(name) == Single(name, Table[name], 0)
Data(name, value) == Single(name, Table[name], value)

\* _get_int_size and _stack_argument_to_bytecode: the shortest PUSH that holds
\* the number, 32 bytes for a negative one, one byte for zero.
IntSize[n \in Int] == IF n < 0 THEN 32 ELSE IF n < 256 THEN 1 ELSE 1 + IntSize[n \div 256]
PushN(size, n) == Single("PUSH", Pushes(size), n)
Push(n) == PushN(IntSize[n], n)

Dup(n) == Single("DUP", Copies(n), n)
Swap(n) == Single("SWAP", Swaps(n), n)

\* Opcode.__call__: the last argument is pushed first.
Call(opcode, args) == Concat(Join(Reverse(args)), opcode)
=============================================================================
