---------------------------- MODULE StructuredCode ----------------------------
(***************************************************************************)
(* What the theorems about CodeMachine speak of: what the numbers of a     *)
(* bytecode say and when they add up, where a run is and where it goes on, *)
(* the pieces that structured code is made of and what each runs, and the  *)
(* inductive invariants IInv and Courses.                                  *)
(***************************************************************************)
EXTENDS CodeMachine

\* The four numbers of a bytecode, as the opcodes have them and sums keep them.
Sound(a) ==
    /\ a.pops \in Nat /\ a.pushes \in Nat /\ a.min \in Nat /\ a.max \in Nat
    /\ a.pops <= a.min /\ a.min <= a.max /\ a.min - a.pops + a.pushes <= a.max

\* What the sum of two bytecodes is, in the numbers of its parts.
SumOf(c, a, b) ==
    /\ Sound(c)
    /\ c.pushes - c.pops = a.pushes - a.pops + b.pushes - b.pops
    /\ c.min = AtLeast(a.min, b.min + a.pops - a.pushes)
    /\ c.pops = AtLeast(a.pops, b.pops + a.pops - a.pushes)
    /\ c.max - c.min = AtLeast(a.max - a.min, b.max - b.min + a.pushes - a.pops)

SameNumbers(a, b) == a.pops = b.pops /\ a.pushes = b.pushes /\ a.min = b.min /\ a.max = b.max

\* The invariant: the run is in its program, and what it did is what its sum says.
IsStack(s) == \E S : s \in Seq(S)

IInv ==
    /\ program \in Programs /\ ip \in Nat /\ IsStack(stack) /\ Sound(ran)
    /\ TraceMetrics

\* The sums of the instructions of a code, from the first on.
One(i) == Single(i.op, i, i.arg)
AreSums(sums, code) ==
    /\ SameNumbers(sums[0], Empty)
    /\ \A k \in 1..Len(code) : SameNumbers(sums[k], Concat(sums[k - 1], One(code[k])))
Instructions(code) == code \in Seq(Instruction) /\ \A k \in DOMAIN code : Plain(code[k])

\* A bytecode that adds up: its numbers are those of its instructions.
AddsUp(a) ==
    /\ Instructions(a.code)
    /\ \E sums : AreSums(sums, a.code) /\ SameNumbers(sums[Len(a.code)], a)

\* An opcode, with its numbers.
IsOpcode(o) ==
    /\ o.size \in Nat /\ o.pops \in Nat /\ o.pushes \in Nat /\ o.min \in Nat /\ o.max \in Nat
    /\ o.terminating \in BOOLEAN /\ Plain(o)

\* The function that a fold over 1..n is defined by exists.
IsFold(f, n, V, base, next) ==
  /\ f \in [SUBSET (1..n) -> V]
  /\ \A s \in SUBSET (1..n) :
       f[s] = IF s = {} THEN base ELSE next[<<Max(s), f[s \ {Max(s)}]>>]

\* Bytecodes with all their fields, and those of them that add up.
Bytecodes == [code : Seq(Instruction), pops : Int, pushes : Int, min : Int, max : Int,
              terminating : BOOLEAN]
Built == {a \in Bytecodes : AddsUp(a)}

\* Join adds one part after the other.
Sums(c, V, parts) ==
    /\ c \in [0..Len(parts) -> V] /\ c[0] = Empty /\ c[Len(parts)] = Join(parts)
    /\ \A k \in 1..Len(parts) : c[k] = Concat(c[k - 1], parts[k])

\* Running totals of the sizes of instructions.
Totals(u, code) ==
    /\ u[0] = 0
    /\ \A k \in 1..Len(code) : u[k] = u[k - 1] + code[k].size

\* Three opcodes in the table.
Names == {"JUMP", "JUMPDEST", "PUSH0"}
Knows(f) ==
    /\ Names \subseteq DOMAIN f
    /\ f["JUMP"] = Takes(1, 0) /\ f["JUMPDEST"] = Takes(0, 0) /\ f["PUSH0"] = Takes(0, 1)

\* How many bytes a number takes.
Width(f, n) == IF n < 0 THEN 32 ELSE IF n < 256 THEN 1 ELSE 1 + f[n \div 256]
Below(f, k) == f \in [Int -> Nat] /\ \A n \in Int : n < k => f[n] = Width(f, n)

\* The room around the repeated part, the way back to it included.
Overhead(setup, cleanup) ==
    Length(setup) + 1 + Length(cleanup) + Length(Call(Op("JUMP"), <<Push(Length(setup))>>))

\* Code whose instructions follow each other to the end, or to the last that ends it.
Forward(code) ==
    \A k \in DOMAIN code :
        /\ code[k].op \notin {"JUMP", "JUMPI", "RJUMP", "RJUMPI"}
        /\ code[k].op \in {"STOP", "RETURN"} => k = Len(code)

\* In it what ran is the sum of the instructions before the next one.
Along ==
    Forward(program.code) =>
        /\ ip \in 1..(Len(program.code) + 1)
        /\ status = "halted" => ip \in DOMAIN program.code /\ ip = Len(program.code)
        /\ status \notin {"running", "halted"} => status = Fault
        /\ \A sums : AreSums(sums, program.code) =>
              SameNumbers(ran, sums[IF status = "halted" THEN ip ELSE ip - 1])

\* A program that declares the numbers of bytecodes put together.
Declared(p) == \E a \in Built : a.code = p.code /\ SameNumbers(p.declares, a)

\* A program that fills a contract is written by generate_repeated_code.
Fills(p) ==
    p.fills # <<>> =>
        \E setup, body, cleanup \in Bytecodes, most \in Nat :
            /\ Length(body) > 0 /\ Overhead(setup, cleanup) <= most
            /\ p.code = Repeated(setup, body, cleanup, most).code
            /\ p.fills = <<most, Length(body)>>

(***************************************************************************)
(* Structured code runs as it is written.                                  *)
(*                                                                         *)
(* A place of a run is where it is, the stack, how often the conditions    *)
(* will still be true, the marks, and the books: the gas spent, the memory *)
(* and the result.  Place 0 is that of a run that has halted.              *)
(***************************************************************************)
Place(p, s, f, m, b) == [ip |-> p, stack |-> s, left |-> f, marks |-> m, books |-> b]
Books == [gas : Int, memory : Int \X Int, result : Int]
Here(p, S, f, m, B) == {Place(p, s, f, m, b) : s \in S, b \in B}

Offset(C, k) == Size(SubSeq(C, 1, k - 1))
PlacesAt(C, n) == {k \in DOMAIN C : Offset(C, k) = n}
DestsAt(C, n) == {k \in PlacesAt(C, n) : C[k].op = "JUMPDEST"}
FromTop(s, n) == s[Len(s) - n + 1]

\* What the instruction at a place leaves, takes and changes.
Given(C, c) ==
    LET i == C[c.ip]
        s == c.stack
    IN  CASE i.op = "PUSH" -> i.arg
          [] i.op = "PC" -> Offset(C, c.ip)
          [] i.op = "GAS" -> GasLimit - c.books.gas - 2
          [] i.op = "DUP" -> FromTop(s, i.arg)
          [] i.op = "ADD" -> FromTop(s, 1) + FromTop(s, 2)
          [] i.op = "SUB" -> FromTop(s, 1) - FromTop(s, 2)
          [] i.op = "COND" -> IF c.left[i.arg] > 0 THEN 1 ELSE 0
          [] OTHER -> 0

StackAfter(C, c) ==
    LET i == C[c.ip]
        s == c.stack
        n == Len(s)
    IN  IF i.op = "SWAP" THEN [s EXCEPT ![n] = s[n - i.arg], ![n - i.arg] = s[n]]
        ELSE SubSeq(s, 1, n - i.pops) \o [k \in 1..i.pushes |-> Given(C, c)]

LeftAfter(C, c) ==
    IF C[c.ip].op = "COND" THEN [c.left EXCEPT ![C[c.ip].arg] = AtLeast(0, @ - 1)] ELSE c.left
MarksAfter(C, c) ==
    IF C[c.ip].op \in {"WORK", "COND"} THEN Append(c.marks, C[c.ip].arg) ELSE c.marks

Charge(C, c) ==
    LET i == C[c.ip]
        w == Words(FromTop(c.stack, 3))
    IN  CASE i.op \in {"WORK", "COND"} -> i.size
          [] i.op \in Cheap -> 2
          [] i.op = "JUMPDEST" -> 1
          [] i.op = "RJUMPI" -> 4
          [] i.op = "JUMP" -> 8
          [] i.op = "JUMPI" -> 10
          [] i.op = "CODECOPY" -> 3 + 6 * w + (w * w) \div 512
          [] i.op \in {"STOP", "RETURN"} -> 0
          [] OTHER -> 3

BooksAfter(C, c) ==
    LET i == C[c.ip]
        s == c.stack
        b == c.books
    IN  [gas |-> b.gas + Charge(C, c),
         memory |-> IF i.op = "CODECOPY" THEN <<FromTop(s, 2), FromTop(s, 3)>> ELSE b.memory,
         result |-> IF i.op = "SSTORE" \/ (i.op = "RETURN" /\ FromTop(s, 1) = 0)
                    THEN FromTop(s, 2) ELSE b.result]

\* Where it goes on.
Follows(C, c) ==
    LET i == C[c.ip]
        s == c.stack
    IN  IF i.op = "JUMP" \/ (i.op = "JUMPI" /\ FromTop(s, 2) # 0) THEN DestsAt(C, FromTop(s, 1))
        ELSE IF i.op = "RJUMP" \/ (i.op = "RJUMPI" /\ FromTop(s, 1) # 0)
             THEN PlacesAt(C, Offset(C, c.ip) + 3 + i.arg)
        ELSE IF i.op \in {"STOP", "RETURN"} THEN {0}
        ELSE {c.ip + 1}

After(C, c) ==
    {Place(q, StackAfter(C, c), LeftAfter(C, c), MarksAfter(C, c), BooksAfter(C, c)) :
        q \in Follows(C, c)}

\* What ran is in order so far: W is what should run, in the end or for ever.
OnTrack(m, W) == \A k \in 1..Len(m) : k \in DOMAIN W /\ m[k] = W[k]

\* An instruction can be executed at a place, and stays below the height h.
Safe(C, c, h, W) ==
    /\ c.ip \in DOMAIN C /\ C[c.ip].op # "DATA"
    /\ Len(c.stack) >= C[c.ip].min
    /\ Len(c.stack) + C[c.ip].max - C[c.ip].min <= h
    /\ Follows(C, c) # {}
    /\ OnTrack(c.marks, W)

\* From the places X a run goes on safely until it comes to one of Y, if it does.
Closed(C, I, Y, h, W) == \A c \in I : Safe(C, c, h, W) /\ After(C, c) \subseteq I \union Y
Leads(C, X, Y, h, W) == \E I : X \subseteq I \union Y /\ Closed(C, I, Y, h, W)

\* The place at which the machine is.
Spot == Place(IF status = "halted" THEN 0 ELSE ip, stack, left, marks,
              [gas |-> gas, memory |-> memory, result |-> result])

(***************************************************************************)
(* Where code stands in a program, and what stack it finds there.          *)
(***************************************************************************)
\* Bytecodes whose numbers are sound and whose instructions take room.
Takes_room(code) == \A k \in DOMAIN code : code[k].size > 0
Codes == {a \in Bytecodes : Sound(a) /\ Takes_room(a.code)}

\* The code of a stands in C behind the place k.
Stands(a, C, k) ==
    /\ k \in Nat /\ k + Len(a.code) <= Len(C)
    /\ \A j \in 1..Len(a.code) : C[k + j] = a.code[j]

\* There, a stack of n items is high enough for it and stays below h.
Spans(a, C, k, n, h) ==
    /\ C \in Seq(Instruction) /\ Takes_room(C)
    /\ Stands(a, C, k)
    /\ n \in Nat /\ h \in Int /\ a.min <= n /\ n + a.max - a.min <= h

(***************************************************************************)
(* The opcodes that the generators use.                                    *)
(***************************************************************************)
Used == {"STOP", "ADD", "SUB", "CODECOPY", "POP", "SSTORE", "JUMP", "JUMPI", "PC", "GAS", "JUMPDEST",
         "PUSH0", "RJUMP", "RJUMPI", "RETURN"}

\* What a part of the table has of them is as the opcodes are.
Finds(f) ==
    /\ "STOP" \in DOMAIN f => f["STOP"] = Ends(0)
    /\ "ADD" \in DOMAIN f => f["ADD"] = Takes(2, 1)
    /\ "SUB" \in DOMAIN f => f["SUB"] = Takes(2, 1)
    /\ "CODECOPY" \in DOMAIN f => f["CODECOPY"] = Takes(3, 0)
    /\ "POP" \in DOMAIN f => f["POP"] = Takes(1, 0)
    /\ "SSTORE" \in DOMAIN f => f["SSTORE"] = Takes(2, 0)
    /\ "JUMP" \in DOMAIN f => f["JUMP"] = Takes(1, 0)
    /\ "JUMPI" \in DOMAIN f => f["JUMPI"] = Takes(2, 0)
    /\ "PC" \in DOMAIN f => f["PC"] = Takes(0, 1)
    /\ "GAS" \in DOMAIN f => f["GAS"] = Takes(0, 1)
    /\ "JUMPDEST" \in DOMAIN f => f["JUMPDEST"] = Takes(0, 0)
    /\ "PUSH0" \in DOMAIN f => f["PUSH0"] = Takes(0, 1)
    /\ "RJUMP" \in DOMAIN f => f["RJUMP"] = WithData(2, Takes(0, 0))
    /\ "RJUMPI" \in DOMAIN f => f["RJUMPI"] = WithData(2, Takes(1, 0))
    /\ "RETURN" \in DOMAIN f => f["RETURN"] = Ends(2)

\* A part of the table that agrees with the opcodes and has those of these names.
Has(f, names) == Finds(f) /\ names \subseteq DOMAIN f

\* Gas is spent, and nothing else.
Spent(b, n) == [b EXCEPT !.gas = @ + n]

\* A run is at an instruction, with the items w on top that it pops.
Meets(op, o, arg, C, k, h, W, u, w, c) ==
    /\ op \in Ops /\ arg \in Int /\ IsOpcode(o) /\ o.size > 0
    /\ u \in Seq(Int) /\ w \in Seq(Int) /\ Len(w) = o.pops
    /\ Spans(Single(op, o, arg), C, k, Len(u \o w), h)
    /\ c.ip = k + 1 /\ c.stack = u \o w /\ OnTrack(c.marks, W)

\* At most one item more.
With(u, n, v) == IF n = 0 THEN u ELSE u \o <<v>>

\* How much higher a bytecode leaves the stack.
Balance(a) == a.pushes - a.pops

\* A run comes to the code of a with the stack u and the marks m.
Enters(a, C, k, u, m, h, W) ==
    u \in Seq(Int) /\ m \in Seq(Int) /\ Spans(a, C, k, Len(u), h) /\ OnTrack(m, W)

\* Where a jump is told to go.
Lands(C, q, n) == q \in DOMAIN C /\ Offset(C, q) = n

(***************************************************************************)
(* Parts of a code.                                                        *)
(***************************************************************************)
\* In the code of a, the code of p stands behind x instructions; it finds g items
\* more than there were.
Part(p, a, x, g) ==
    /\ p \in Codes /\ a \in Codes /\ x \in Nat /\ g \in Int
    /\ \A C, k, u, m, h, W :
          Enters(a, C, k, u, m, h, W) =>
             /\ Len(u) + g >= 0
             /\ \A v \in Seq(Int), r \in Seq(Int) :
                   Len(v) = Len(u) + g /\ OnTrack(r, W) => Enters(p, C, k + x, v, r, h, W)

\* PC + n.
Ahead(n) == Call(Op("ADD"), <<Op("PC"), Push(n)>>)

\* A code that leaves where to jump, t bytes from its own start.
Aims(a, t) ==
    /\ a \in Codes /\ Len(a.code) = 3 /\ Balance(a) = 1 /\ t \in Int
    /\ \A C, k, u, m, h, W, f, b :
          b \in Books /\ Enters(a, C, k, u, m, h, W) =>
             /\ Offset(C, k + 1) + t \in Int
             /\ Leads(C, {Place(k + 1, u, f, m, b)},
                      {Place(k + 4, u \o <<Offset(C, k + 1) + t>>, f, m, Spent(b, 8))}, h, W)

(***************************************************************************)
(* Pieces of code with what they run.                                      *)
(*                                                                         *)
(* A piece is a bytecode with what it does when the conditions will be     *)
(* true as often as before says: the marks it leaves, the items it leaves  *)
(* on the stack, what it costs, how often the conditions will be true      *)
(* after it, and whether it ends the program.  An open piece may jump to   *)
(* what stands right behind it, where something must stand.                *)
(***************************************************************************)
Tallies == UNION {[S -> Nat] : S \in SUBSET Int}
Pieces == [code : Codes, before : Tallies, after : Tallies, runs : Seq(Int), items : Seq(Int),
           cost : Nat, halts : BOOLEAN, open : BOOLEAN]

\* A run comes to a piece.
Comes(x, C, k, u, m, h, W) ==
    /\ Enters(x.code, C, k, u, m, h, W)
    /\ OnTrack(m \o x.runs, W)
    /\ x.open => k + Len(x.code.code) < Len(C)

\* Where a run goes on behind it.
Behind(x, k) == IF x.halts THEN 0 ELSE k + Len(x.code.code) + 1

\* Wherever a run comes to the piece it goes through it, safely, and does what it says.
RunsThrough(x) ==
    /\ x \in Pieces /\ Len(x.items) = Balance(x.code)
    /\ \A C, k, u, m, h, W, b :
          b \in Books /\ Comes(x, C, k, u, m, h, W) =>
             Leads(C, {Place(k + 1, u, x.before, m, b)},
                   {Place(Behind(x, k), u \o x.items, x.after, m \o x.runs, Spent(b, x.cost))}, h, W)

\* Nothing; a chunk of the test's code, which leaves items; the code of a condition; a
\* number that is pushed; the end of the program.
Straight_(x) == ~x.open /\ x.after = x.before
IsNothing(x) ==
    x.code = Empty /\ x.runs = <<>> /\ x.items = <<>> /\ x.cost = 0 /\ ~x.halts /\ Straight_(x)
IsChunk(x, o, mark) ==
    /\ x.code = Single("WORK", o, mark) /\ IsOpcode(o) /\ o.size > 0 /\ o.pops = 0 /\ mark \in Int
    /\ x.runs = <<mark>> /\ x.items = [j \in 1..o.pushes |-> 0] /\ x.cost = o.size /\ ~x.halts
    /\ Straight_(x)
IsCondition(x, o, mark) ==
    /\ x.code = Single("COND", o, mark) /\ IsOpcode(o) /\ o.size > 0 /\ o.pops = 0 /\ o.pushes = 1
    /\ mark \in Int /\ x.runs = <<mark>> /\ x.items = <<IF x.before[mark] > 0 THEN 1 ELSE 0>>
    /\ x.after = [x.before EXCEPT ![mark] = AtLeast(0, @ - 1)]
    /\ x.cost = o.size /\ ~x.halts /\ ~x.open
IsPush(x, z, n) ==
    /\ x.code = PushN(z, n) /\ z \in Nat /\ n \in Int
    /\ x.runs = <<>> /\ x.items = <<n>> /\ x.cost = 3 /\ ~x.halts /\ Straight_(x)
IsStop(x) ==
    x.code = Op("STOP") /\ x.runs = <<>> /\ x.items = <<>> /\ x.cost = 0 /\ x.halts /\ Straight_(x)

\* A sum of two pieces, and one whose first part ends the program.
IsSum(x, a, b) ==
    /\ x.code = Concat(a.code, b.code) /\ ~a.halts /\ (a.open => Len(b.code.code) > 0)
    /\ b.before = a.after /\ x.before = a.before /\ x.after = b.after
    /\ x.runs = a.runs \o b.runs /\ x.items = a.items \o b.items /\ x.cost = a.cost + b.cost
    /\ x.halts = b.halts /\ x.open = b.open
IsCut(x, a, d) ==
    /\ x.code = Concat(a.code, d) /\ d \in Codes /\ Balance(d) = 0 /\ a.halts
    /\ x.before = a.before /\ x.after = a.after /\ x.runs = a.runs /\ x.items = a.items
    /\ x.cost = a.cost /\ x.halts = a.halts /\ x.open = a.open

\* A condition and the branch it chooses.
Chooses(x, c, a) ==
    /\ Balance(c.code) = 1 /\ ~c.halts /\ ~c.open /\ Balance(a.code) = 0 /\ a.before = c.after
    /\ x.before = c.before /\ x.after = a.after /\ x.runs = c.runs \o a.runs /\ x.items = <<>>
    /\ x.halts = a.halts
IsThen(x, c, a, d) ==
    /\ Chooses(x, c, a) /\ c.items[1] # 0 /\ d \in Codes /\ Balance(d) = 0 /\ ~x.open
    /\ x.code = ConditionalLegacy(c.code, a.code, d)
    /\ x.cost = c.cost + 19 + (a.cost + (IF a.halts THEN 0 ELSE 1))
IsElse(x, c, a, d) ==
    /\ Chooses(x, c, a) /\ c.items[1] = 0 /\ d \in Codes /\ Balance(d) = 0 /\ ~x.open
    /\ x.code = ConditionalLegacy(c.code, d, a.code)
    /\ x.cost = c.cost + 18 + (a.cost + (IF a.halts THEN 0 ELSE 17))

\* Where the parts of a conditional stand, and where its jumps lead.
LegacyAt(c, y, n, C, k, u, h, W, i, j, l, p, q) ==
    /\ i \in Int /\ j \in Int /\ l \in Nat /\ p \in Nat /\ q \in Nat
    /\ l = k + Len(c.code) + 4 /\ p = l + Len(n.code) + 4 /\ q = p + 1 + Len(y.code)
    /\ \A r \in Seq(Int) : OnTrack(r, W) =>
          /\ Enters(JumpOverIf(i, c), C, k, u, r, h, W)
          /\ Enters(n, C, l, u, r, h, W) /\ Enters(JumpOver(j), C, l + Len(n.code), u, r, h, W)
          /\ Enters(Op("JUMPDEST"), C, p, u, r, h, W) /\ Enters(y, C, p + 1, u, r, h, W)
          /\ Enters(Op("JUMPDEST"), C, q, u, r, h, W)
    /\ Lands(C, p + 1, Offset(C, l + 1) + i - 3) /\ C[p + 1].op = "JUMPDEST"
    /\ Lands(C, q + 1, Offset(C, p + 1) + j - 3) /\ C[q + 1].op = "JUMPDEST"

\* The same for relative jumps.
EofAt(c, y, n, C, k, u, h, W, i, l, p, q) ==
    /\ i \in Int /\ l \in Nat /\ p \in Nat /\ q \in Nat /\ Length(y) \in Int
    /\ l = k + Len(c.code) + 1 /\ p = l + Len(n.code) + (IF n.terminating THEN 0 ELSE 1)
    /\ q = p + Len(y.code)
    /\ \A r \in Seq(Int) : OnTrack(r, W) =>
          /\ Enters(Call(Data("RJUMPI", i), <<c>>), C, k, u, r, h, W)
          /\ Enters(n, C, l, u, r, h, W) /\ Enters(y, C, p, u, r, h, W)
          /\ ~n.terminating => Enters(Data("RJUMP", Length(y)), C, l + Len(n.code), u, r, h, W)
    /\ Offset(C, p + 1) = Offset(C, l + 1) + i /\ Offset(C, q + 1) = Offset(C, p + 1) + Length(y)

\* A conditional with relative jumps may jump to what stands behind it.  An else
\* branch whose last instruction ends the program has no jump behind it: when it
\* runs, it must end the program itself.
IsThenEof(x, c, a, d) ==
    /\ Chooses(x, c, a) /\ c.items[1] # 0 /\ d \in Codes /\ Balance(d) = 0 /\ x.open
    /\ x.code = ConditionalEof(c.code, a.code, d)
    /\ x.cost = c.cost + 4 + a.cost
IsElseEof(x, c, a, d) ==
    /\ Chooses(x, c, a) /\ c.items[1] = 0 /\ d \in Codes /\ Balance(d) = 0 /\ x.open
    /\ a.code.terminating => a.halts
    /\ x.code = ConditionalEof(c.code, d, a.code)
    /\ x.cost = c.cost + 4 + (a.cost + (IF a.halts THEN 0 ELSE 2))

\* Where the parts of a loop stand, and where its jump lands.
WhileAt(b, c, C, k, u, h, W, i, l, q) ==
    /\ i \in Int /\ l \in Nat /\ q \in Nat /\ k \in Nat
    /\ l = k + 1 + Len(b.code) /\ q = l + Len(c.code) + 4
    /\ \A r \in Seq(Int) : OnTrack(r, W) =>
          /\ Enters(Op("JUMPDEST"), C, k, u, r, h, W) /\ Enters(b, C, k + 1, u, r, h, W)
          /\ Enters(Call(Op("JUMPI"), <<JumpBack(i), c>>), C, l, u, r, h, W) /\ Enters(c, C, l, u, r, h, W)
    /\ Lands(C, k + 1, Offset(C, l + Len(c.code) + 1) + (5 - i)) /\ C[k + 1].op = "JUMPDEST"
    /\ q <= Len(C) /\ Len(C) \in Nat

\* The turns of a loop: the condition is asked behind the body.  The last one, in
\* which it is false; one before the others; one whose body ends the program.
Turns(x, b, c) ==
    /\ Balance(b.code) = 0 /\ ~b.halts /\ Balance(c.code) = 1 /\ ~c.halts /\ ~c.open
    /\ c.before = b.after /\ x.before = b.before /\ x.items = <<>> /\ ~x.open
    /\ x.code = WhileTrue(b.code, c.code)
IsLastTurn(x, b, c) ==
    /\ Turns(x, b, c) /\ c.items[1] = 0 /\ x.after = c.after /\ x.runs = b.runs \o c.runs /\ ~x.halts
    /\ x.cost = (1 + b.cost) + (c.cost + 18)
IsTurn(x, b, c, y) ==
    /\ Turns(x, b, c) /\ c.items[1] # 0 /\ y.code = x.code /\ y.before = c.after /\ ~y.open
    /\ x.after = y.after /\ x.runs = (b.runs \o c.runs) \o y.runs /\ x.halts = y.halts
    /\ x.cost = ((1 + b.cost) + (c.cost + 18)) + y.cost
IsCutTurn(x, b, d) ==
    /\ Balance(b.code) = 0 /\ b.halts /\ d \in Codes /\ Balance(d) = 1
    /\ x.before = b.before /\ x.after = b.after /\ x.runs = b.runs /\ x.items = <<>> /\ x.halts /\ ~x.open
    /\ x.code = WhileTrue(b.code, d) /\ x.cost = 1 + b.cost

(***************************************************************************)
(* Switches.  A switch is a ladder of rungs, each around the next.  A rung *)
(* asks a condition and runs what it chooses, the rung within it or its    *)
(* own action, from where it jumps far bytes beyond its own end.           *)
(***************************************************************************)
Rungs == [code : Codes, before : Tallies, after : Tallies, runs : Seq(Int), cost : Nat,
          halts : BOOLEAN, far : Nat]

\* Wherever a run comes to the rung it goes through it to where the rung jumps.
Arrives(y, C, k, u, m, h, W, b, q) ==
    /\ b \in Books /\ Enters(y.code, C, k, u, m, h, W) /\ OnTrack(m \o y.runs, W)
    /\ k + Len(y.code.code) < Len(C)
    /\ Lands(C, q, Offset(C, k + Len(y.code.code) + 1) + y.far) /\ C[q].op = "JUMPDEST"
    => Leads(C, {Place(k + 1, u, y.before, m, b)},
             {Place(IF y.halts THEN 0 ELSE q, u, y.after, m \o y.runs, Spent(b, y.cost))}, h, W)
Reaches(y) ==
    /\ y \in Rungs /\ Balance(y.code) = 0
    /\ \A C, k, u, m, h, W, b, q : Arrives(y, C, k, u, m, h, W, b, q)

\* A code that asks a condition, and jumps t bytes beyond its own end if it is true,
\* in legacy code (dest) to a JUMPDEST.
Decides(c, C, k, l, u, m, h, W, b, q, z) ==
    Leads(C, {Place(k + 1, u, c.before, m, b)},
          {Place(IF c.items[1] # 0 THEN q ELSE k + l + 1, u, c.after, m \o c.runs, Spent(b, c.cost + z))}, h, W)
AsksFor(j, c, t, z, dest) ==
    /\ j \in Codes /\ Balance(j) = 0 /\ t \in Int /\ z \in Nat
    /\ \A C, k, u, m, h, W, b, q :
          /\ b \in Books /\ Enters(j, C, k, u, m, h, W) /\ OnTrack(m \o c.runs, W)
          /\ c.items[1] # 0 => /\ Lands(C, q, Offset(C, k + Len(j.code) + 1) + t)
                               /\ dest => C[q].op = "JUMPDEST"
          => Decides(c, C, k, Len(j.code), u, m, h, W, b, q, z)
IsQuestion(c) == RunsThrough(c) /\ Balance(c.code) = 1 /\ ~c.halts /\ ~c.open

\* A code that goes n bytes beyond its own end, to a JUMPDEST.
Exits(o, n, z) ==
    /\ o \in Codes /\ Balance(o) = 0 /\ n \in Int /\ z \in Nat
    /\ \A C, k, u, m, h, W, f, b, q :
          /\ b \in Books /\ Enters(o, C, k, u, m, h, W)
          /\ Lands(C, q, Offset(C, k + Len(o.code) + 1) + n) /\ C[q].op = "JUMPDEST"
          => Leads(C, {Place(k + 1, u, f, m, b)}, {Place(q, u, f, m, Spent(b, z))}, h, W)

\* The rung that is an action with its jump, and the one of a terminating action.
ActsAs(y, a, n, z) ==
    /\ y.before = a.before /\ y.after = a.after /\ y.runs = a.runs /\ y.halts = a.halts
    /\ y.cost = z + (a.cost + (IF a.halts THEN 0 ELSE n))
IsArm(y, a, n, z) == y \in Rungs /\ ActsAs(y, a, n, z)

\* A question and what happens after its answer, in the rung y around e.
Continues(y, c, e, z) ==
    /\ e.before = c.after
    /\ y.before = c.before /\ y.after = e.after /\ y.runs = c.runs \o e.runs /\ y.halts = e.halts
    /\ y.cost = (c.cost + z) + e.cost
IsRung(y, c, e, z) == y \in Rungs /\ IsQuestion(c) /\ z \in Nat /\ Continues(y, c, e, z)

\* The answer leads to the instruction behind p.
AnswerLeads(c, j, C, k, p, t, dest) ==
    /\ c.items[1] # 0 => /\ Lands(C, p + 1, Offset(C, k + Len(j.code) + 1) + t)
                         /\ dest => C[p + 1].op = "JUMPDEST"
    /\ c.items[1] = 0 => p = k + Len(j.code)

\* A function that is defined from its last value on, as the layers of a switch are.
AreSteps(g, n, V, first, step) ==
    /\ g \in [1..(n + 1) -> V]
    /\ g[n + 1] = first /\ \A i \in 1..n : g[i] = step[<<i, g[i + 1]>>]

\* Sums of weights, from the first one on.
Weighed(u, w, n) == u[0] = 0 /\ \A k \in 1..n : u[k] = u[k - 1] + w[k]
WeighedBy(f, w, n) ==
    f = [s \in SUBSET (1..n) |-> IF s = {} THEN 0 ELSE f[s \ {Max(s)}] + w[Max(s)]]

(***************************************************************************)
(* What the generator of switches computes.                                *)
(***************************************************************************)
SwitchCases == {c \in [condition : Codes, action : Codes, terminating : BOOLEAN] :
                   Balance(c.condition) = 1 /\ Balance(c.action) = 0}

\* The bytes of the actions in front, with the jumps behind them.
LegacyRest(cases) == Rest(cases, LAMBDA c : Length(c.action) + 6)
EofRest(cases) == Rest(cases, LAMBDA c : Length(c.action) + (IF c.terminating THEN 0 ELSE 3))
LegacyWeights(cases) == [k \in 1..Len(cases) |-> Length(cases[k].action) + 6]
EofWeights(cases) ==
    [k \in 1..Len(cases) |-> Length(cases[k].action) + (IF cases[k].terminating THEN 0 ELSE 3)]

\* The way of a run through a switch, from a question on.
Ways == [before : Tallies, after : Tallies, runs : Seq(Int), cost : Nat, halts : BOOLEAN]
RungOf(v, code, far) ==
    [code |-> code, before |-> v.before, after |-> v.after, runs |-> v.runs, cost |-> v.cost,
     halts |-> v.halts, far |-> far]

\* Layers of code around each other, each with a question in front and an action
\* behind; how far it is from each to the end.
AreLayers(n, L, A, J, R) ==
    /\ n \in Nat /\ L \in [1..(n + 1) -> Codes] /\ A \in [1..n -> Codes] /\ R \in [1..(n + 1) -> Nat]
    /\ \A i \in 1..(n + 1) : Balance(L[i]) = 0
    /\ \A i \in 1..n : /\ Balance(A[i]) = 0 /\ R[i + 1] = Length(A[i]) + R[i]
                       /\ L[i] = Join(<<J[i], L[i + 1], A[i]>>)

\* The cases are asked in their order, until one is true.
AreAsked(q, c, w, J, L, z, dest) ==
    /\ \A k \in 1..(q + 1) : w[k] \in Ways
    /\ \A k \in 1..q : /\ IsQuestion(c[k]) /\ Continues(w[k], c[k], w[k + 1], z)
                       /\ AsksFor(J[k], c[k], Length(L[k + 1]), z, dest)
    /\ \A k \in 1..q : k < q => c[k].items[1] = 0

\* The layers of a switch: code that leaves the stack as high as it is, and what the
\* question around it jumps over.
LayersOf(extra) == {v \in [code : Codes, over : Nat] : Balance(v.code) = 0 /\ v.over = Length(v.code) + extra}

\* The layers of a legacy switch.
LegacyLast(default, cases) == Concat(default, JumpOver(LegacyRest(cases) + 3))
LegacyArm(cases, i) ==
    Join(<<Op("JUMPDEST"), cases[i].action, JumpOver(LegacyRest(SubSeq(cases, 1, i - 1)) + 3)>>)
LegacyLayer(cases, i, inner) ==
    LET action == LegacyArm(cases, i)
        asks == JumpOverIf(inner.over, cases[i].condition)
    IN  [code |-> Join(<<asks, inner.code, action>>), over |-> inner.over + Length(asks) + Length(action)]
LegacyLayers(g, default, cases) ==
    g = [i \in 1..(Len(cases) + 1) |->
           IF i > Len(cases)
           THEN [code |-> LegacyLast(default, cases), over |-> Length(LegacyLast(default, cases)) + 3]
           ELSE LegacyLayer(cases, i, g[i + 1])]

\* The layers of an EOF switch.
EofLast(default, cases) == Concat(default, Data("RJUMP", EofRest(cases)))
EofArm(cases, i) ==
    IF cases[i].terminating THEN cases[i].action
    ELSE Concat(cases[i].action, Data("RJUMP", EofRest(SubSeq(cases, 1, i - 1))))
EofLayer(cases, i, inner) ==
    LET action == EofArm(cases, i)
        asks == Call(Data("RJUMPI", inner.over), <<cases[i].condition>>)
    IN  [code |-> Join(<<asks, inner.code, action>>), over |-> inner.over + Length(asks) + Length(action)]
EofLayers(g, default, cases) ==
    g = [i \in 1..(Len(cases) + 1) |->
           IF i > Len(cases)
           THEN [code |-> EofLast(default, cases), over |-> Length(EofLast(default, cases))]
           ELSE EofLayer(cases, i, g[i + 1])]

\* A run through a switch: c are the conditions it asks, in the order of the cases until
\* one is true, a is what it runs then, and w its way from each question to the end.
AsksInTurn(c, w, cases, z) ==
    /\ Len(c) \in Nat /\ Len(c) <= Len(cases)
    /\ \A k \in 1..(Len(c) + 1) : w[k] \in Ways
    /\ \A k \in 1..Len(c) : /\ c[k].code = cases[k].condition /\ ~c[k].halts /\ ~c[k].open
                            /\ Continues(w[k], c[k], w[k + 1], z)
                            /\ k < Len(c) => c[k].items[1] = 0
IsDefault(c, a, default, cases) ==
    /\ Len(c) = Len(cases) /\ a.code = default
    /\ Len(c) > 0 => c[Len(c)].items[1] = 0
IsChosen(c, a, cases) ==
    Len(c) > 0 /\ c[Len(c)].items[1] # 0 /\ a.code = cases[Len(c)].action
AsItsWay(x, v) ==
    /\ x.before = v.before /\ x.after = v.after /\ x.runs = v.runs /\ x.halts = v.halts
    /\ x.items = <<>> /\ ~x.open /\ x.cost = v.cost + (IF v.halts THEN 0 ELSE 1)

\* In a legacy switch the jumps behind the actions push one byte.
IsSwitchLegacy(x, c, a, w, default, cases) ==
    /\ default \in Codes /\ Balance(default) = 0 /\ cases \in Seq(SwitchCases)
    /\ \A i \in 1..Len(cases) : LegacyRest(SubSeq(cases, 1, i - 1)) + 3 < 256
    /\ AsksInTurn(c, w, cases, 18)
    /\ \/ IsDefault(c, a, default, cases) /\ ActsAs(w[Len(c) + 1], a, 16, 0)
       \/ IsChosen(c, a, cases) /\ ActsAs(w[Len(c) + 1], a, 16, 1)
    /\ AsItsWay(x, w[1]) /\ x.code = SwitchLegacy(default, cases)

\* In an EOF switch an action that is said to be terminating ends the program.
IsSwitchEof(x, c, a, w, default, cases) ==
    /\ default \in Codes /\ Balance(default) = 0 /\ cases \in Seq(SwitchCases)
    /\ AsksInTurn(c, w, cases, 4)
    /\ \/ IsDefault(c, a, default, cases)
       \/ IsChosen(c, a, cases) /\ (cases[Len(c)].terminating => a.halts)
    /\ ActsAs(w[Len(c) + 1], a, 2, 0)
    /\ AsItsWay(x, w[1]) /\ x.code = SwitchEof(default, cases)

(***************************************************************************)
(* Structured code: what is put together of pieces that run through.       *)
(***************************************************************************)
\* A set of pieces that has the smallest ones, and what is made of pieces in it.
HasSmallest(P) ==
    \A x \in Pieces :
        \/ IsNothing(x) \/ IsStop(x)
        \/ \E o, mark : IsChunk(x, o, mark) \/ IsCondition(x, o, mark)
        \/ \E z, n : IsPush(x, z, n)
        => x \in P
HasSums(P) ==
    \A x \in Pieces, a \in P :
        (\E b \in P : IsSum(x, a, b)) \/ (\E d : IsCut(x, a, d)) => x \in P
HasConditionals(P) ==
    \A x \in Pieces, c \in P, a \in P :
        (\E d : IsThen(x, c, a, d) \/ IsElse(x, c, a, d) \/ IsThenEof(x, c, a, d) \/ IsElseEof(x, c, a, d))
        => x \in P
HasLoops(P) ==
    \A x \in Pieces, b \in P :
        \/ \E c \in P : IsLastTurn(x, b, c) \/ \E y \in P : IsTurn(x, b, c, y)
        \/ \E d : IsCutTurn(x, b, d)
        => x \in P
HasSwitches(P) ==
    \A x \in Pieces, a \in P :
        (\E c, w, default, cases :
            /\ \A k \in 1..Len(c) : c[k] \in P
            /\ IsSwitchLegacy(x, c, a, w, default, cases) \/ IsSwitchEof(x, c, a, w, default, cases))
        => x \in P

\* The pieces that are in every such set.
Structured ==
    {x \in Pieces : \A P \in SUBSET Pieces :
        HasSmallest(P) /\ HasSums(P) /\ HasConditionals(P) /\ HasLoops(P) /\ HasSwitches(P) => x \in P}

(***************************************************************************)
(* The run of a program that is structured code.                           *)
(***************************************************************************)
\* p is the code of x, on a stack as high as it says it needs and with room for what
\* it says it needs; it wants what x runs.
Writes(p, x) ==
    /\ ~x.open /\ p.code = x.code.code /\ SameNumbers(p.declares, x.code)
    /\ p.answers = x.before /\ p.wants = x.runs /\ ~p.endless /\ ~p.straight
    /\ p.measures = Nothing /\ p.deploys = Nothing
    /\ x.code.min <= Len(p.stack) /\ Len(p.stack) + x.code.max - x.code.min <= StackLimit
IsStructured(p) == \E x \in Structured : Writes(p, x)

\* How high x may rise, what the run starts with, and where it ends.
Highest(x) == Start + x.code.max - x.code.min
First == [gas |-> 0, memory |-> <<0, 0>>, result |-> Nothing]
Ends_(x) == {Place(Behind(x, 0), program.stack \o x.items, x.after, x.runs, Spent(First, x.cost))}

\* A run of x is at a place from which it goes on safely to the end of x, or there.
OnCourse(x) ==
    /\ \E I : Closed(program.code, I, Ends_(x), Highest(x), x.runs) /\ Spot \in I \union Ends_(x)
    /\ ip \in Nat /\ ip # 0 /\ marks \in Seq(Int)
    /\ status \in {"running", "halted", "outofgas", "end"}
    /\ status = "end" => ip \notin DOMAIN program.code
    /\ peak <= Highest(x)
Courses == \A x \in Structured : Writes(program, x) => OnCourse(x)

===============================================================================
