------------------------- MODULE CodeMachine_proofs -------------------------
(***************************************************************************)
(* What the algebra of bytecode.py says of the stack is true of every run  *)
(* of every program, the way a sum is written does not matter, bytecodes   *)
(* declare what they do, repeated code fills a contract, and structured    *)
(* code runs as it is written.                                             *)
(***************************************************************************)
EXTENDS StructuredCode, TLAPS, SequenceTheorems, FiniteSetTheorems, WellFoundedInduction

\* A sum of sound bytecodes is sound; how far it rises and sinks follows from its parts.
THEOREM ConcatSound ==
    ASSUME NEW a, NEW b, Sound(a), Sound(b)
    PROVE  SumOf(Concat(a, b), a, b)
<1> DEFINE c == Concat(a, b)
<1>1. /\ c.pops = IF 0 - a.pops <= 0 - a.pops + a.pushes - b.pops THEN a.pops
                  ELSE a.pops - a.pushes + b.pops
      /\ c.pushes = IF 0 - a.pops <= 0 - a.pops + a.pushes - b.pops
                    THEN a.pushes - b.pops + b.pushes ELSE b.pushes
      /\ c.min = AtLeast(a.min, b.min + a.pops - a.pushes)
      /\ c.max = AtLeast(c.min + a.max - a.min,
                         c.min - a.pops + a.pushes + b.max - b.min)
  BY DEF Concat
<1> HIDE DEF c
<1>2. /\ a.pops \in Int /\ a.pushes \in Int /\ a.min \in Int /\ a.max \in Int
      /\ b.pops \in Int /\ b.pushes \in Int /\ b.min \in Int /\ b.max \in Int
      /\ a.pops >= 0 /\ a.pushes >= 0 /\ b.pops >= 0 /\ b.pushes >= 0
      /\ a.pops <= a.min /\ b.pops <= b.min /\ a.min <= a.max /\ b.min <= b.max
  BY DEF Sound
<1>3. c.min \in Int /\ c.min >= a.min /\ c.min >= b.min + a.pops - a.pushes
  BY <1>1, <1>2 DEF AtLeast
<1>4. /\ c.pops \in Int /\ c.pushes \in Int /\ c.pops >= 0 /\ c.pushes >= 0 /\ c.pops <= c.min
      /\ c.pushes - c.pops = a.pushes - a.pops + b.pushes - b.pops
      /\ c.pops = AtLeast(a.pops, b.pops + a.pops - a.pushes)
  BY <1>1, <1>2, <1>3 DEF AtLeast
<1>5. c.max \in Int /\ c.max >= c.min + a.max - a.min
  BY <1>1, <1>2, <1>3 DEF AtLeast
<1>6. c.max - c.min = AtLeast(a.max - a.min, b.max - b.min + a.pushes - a.pops)
  BY <1>1, <1>2, <1>3 DEF AtLeast
<1>7. Sound(c)
  <2>1. c.min - c.pops + c.pushes <= c.max
    BY <1>2, <1>3, <1>4, <1>5, <1>6 DEF AtLeast, Sound
  <2>2. QED
    BY <1>2, <1>3, <1>4, <1>5, <2>1 DEF Sound
<1>8. QED
  BY <1>1, <1>4, <1>6, <1>7 DEF c, SumOf

\* Adding nothing changes no number.
THEOREM EmptyIsNeutral ==
    ASSUME NEW a, Sound(a)
    PROVE  SameNumbers(Concat(Empty, a), a) /\ SameNumbers(Concat(a, Empty), a)
<1>1. Sound(Empty) /\ Empty.pops = 0 /\ Empty.pushes = 0 /\ Empty.min = 0 /\ Empty.max = 0
  BY DEF Empty, Sound
<1>2. /\ a.pops \in Int /\ a.pushes \in Int /\ a.min \in Int /\ a.max \in Int
      /\ a.pops >= 0 /\ a.pushes >= 0 /\ a.pops <= a.min /\ a.min <= a.max
      /\ a.min - a.pops + a.pushes <= a.max
  BY DEF Sound
<1> DEFINE l == Concat(Empty, a)
           r == Concat(a, Empty)
<1>3. /\ Sound(l) /\ l.pushes - l.pops = 0 - 0 + a.pushes - a.pops
      /\ l.min = AtLeast(0, a.min + 0 - 0) /\ l.pops = AtLeast(0, a.pops + 0 - 0)
      /\ l.max - l.min = AtLeast(0 - 0, a.max - a.min + 0 - 0)
  BY <1>1, ConcatSound DEF SumOf
<1>4. /\ Sound(r) /\ r.pushes - r.pops = a.pushes - a.pops + 0 - 0
      /\ r.min = AtLeast(a.min, 0 + a.pops - a.pushes) /\ r.pops = AtLeast(a.pops, 0 + a.pops - a.pushes)
      /\ r.max - r.min = AtLeast(a.max - a.min, 0 - 0 + a.pushes - a.pops)
  BY <1>1, ConcatSound DEF SumOf
<1> HIDE DEF l, r
<1>5. /\ l.pops \in Int /\ l.pushes \in Int /\ l.min \in Int /\ l.max \in Int
      /\ r.pops \in Int /\ r.pushes \in Int /\ r.min \in Int /\ r.max \in Int
  BY <1>3, <1>4 DEF Sound
<1>6. l.pops = a.pops /\ l.pushes = a.pushes /\ l.min = a.min /\ l.max = a.max
  BY <1>2, <1>3, <1>5 DEF AtLeast
<1>7. r.pops = a.pops /\ r.min = a.min /\ r.max - r.min = a.max - a.min
  BY <1>2, <1>4, <1>5 DEF AtLeast
<1>8. r.pushes = a.pushes /\ r.max = a.max
  BY <1>2, <1>4, <1>5, <1>7
<1>9. QED
  BY <1>6, <1>7, <1>8 DEF l, r, SameNumbers

LEMMA SumsAssociate ==
    ASSUME NEW a, NEW b, NEW c, NEW ab, NEW bc, NEW l, NEW r, Sound(a), Sound(b), Sound(c),
           SumOf(ab, a, b), SumOf(bc, b, c), SumOf(l, ab, c), SumOf(r, a, bc)
    PROVE  SameNumbers(l, r)
<1>1. /\ ab.pushes - ab.pops = a.pushes - a.pops + b.pushes - b.pops
      /\ ab.min = AtLeast(a.min, b.min + a.pops - a.pushes)
      /\ ab.pops = AtLeast(a.pops, b.pops + a.pops - a.pushes)
      /\ ab.max - ab.min = AtLeast(a.max - a.min, b.max - b.min + a.pushes - a.pops)
  BY DEF SumOf
<1>2. /\ bc.pushes - bc.pops = b.pushes - b.pops + c.pushes - c.pops
      /\ bc.min = AtLeast(b.min, c.min + b.pops - b.pushes)
      /\ bc.pops = AtLeast(b.pops, c.pops + b.pops - b.pushes)
      /\ bc.max - bc.min = AtLeast(b.max - b.min, c.max - c.min + b.pushes - b.pops)
  BY DEF SumOf
<1>3. /\ l.pushes - l.pops = ab.pushes - ab.pops + c.pushes - c.pops
      /\ l.min = AtLeast(ab.min, c.min + ab.pops - ab.pushes)
      /\ l.pops = AtLeast(ab.pops, c.pops + ab.pops - ab.pushes)
      /\ l.max - l.min = AtLeast(ab.max - ab.min, c.max - c.min + ab.pushes - ab.pops)
  BY DEF SumOf
<1>4. /\ r.pushes - r.pops = a.pushes - a.pops + bc.pushes - bc.pops
      /\ r.min = AtLeast(a.min, bc.min + a.pops - a.pushes)
      /\ r.pops = AtLeast(a.pops, bc.pops + a.pops - a.pushes)
      /\ r.max - r.min = AtLeast(a.max - a.min, bc.max - bc.min + a.pushes - a.pops)
  BY DEF SumOf
<1>5. /\ a.pops \in Int /\ a.pushes \in Int /\ a.min \in Int /\ a.max \in Int
      /\ b.pops \in Int /\ b.pushes \in Int /\ b.min \in Int /\ b.max \in Int
      /\ c.pops \in Int /\ c.pushes \in Int /\ c.min \in Int /\ c.max \in Int
  BY DEF Sound
<1>6. /\ ab.pops \in Int /\ ab.pushes \in Int /\ ab.min \in Int /\ ab.max \in Int
      /\ bc.pops \in Int /\ bc.pushes \in Int /\ bc.min \in Int /\ bc.max \in Int
      /\ l.pops \in Int /\ l.pushes \in Int /\ l.min \in Int /\ l.max \in Int
      /\ r.pops \in Int /\ r.pushes \in Int /\ r.min \in Int /\ r.max \in Int
  BY DEF SumOf, Sound
<1>7. l.min = r.min
  BY <1>1, <1>2, <1>3, <1>4, <1>5, <1>6 DEF AtLeast
<1>8. l.pops = r.pops
  BY <1>1, <1>2, <1>3, <1>4, <1>5, <1>6 DEF AtLeast
<1>9. l.max - l.min = r.max - r.min
  BY <1>1, <1>2, <1>3, <1>4, <1>5, <1>6 DEF AtLeast
<1>10. l.pushes = r.pushes
  <2>1. /\ l.pushes - l.pops = a.pushes - a.pops + b.pushes - b.pops + c.pushes - c.pops
        /\ r.pushes - r.pops = a.pushes - a.pops + b.pushes - b.pops + c.pushes - c.pops
    BY <1>1, <1>2, <1>3, <1>4, <1>5, <1>6
  <2>2. QED
    BY <1>6, <1>8, <2>1
<1>11. l.max = r.max
  BY <1>6, <1>7, <1>9
<1>12. QED
  BY <1>7, <1>8, <1>10, <1>11 DEF SameNumbers

\* A sum of three has the same numbers however it is bracketed.
THEOREM AdditionAssociates ==
    ASSUME NEW a, NEW b, NEW c, Sound(a), Sound(b), Sound(c)
    PROVE  SameNumbers(Concat(Concat(a, b), c), Concat(a, Concat(b, c)))
  BY ConcatSound, SumsAssociate DEF SumOf

LEMMA TraceTypes == IInv => TypeOK
<1> SUFFICES ASSUME IInv PROVE TypeOK
  OBVIOUS
<1>1. Start \in Nat /\ Height \in Nat
  <2>1. PICK S : stack \in Seq(S)
    BY DEF IInv, IsStack
  <2>2. program.stack \in Seq(Int)
    BY ProgramsAssumption DEF IInv
  <2>3. QED
    BY <2>1, <2>2 DEF Start, Height
<1>2. QED
  BY <1>1 DEF IInv, TypeOK, TraceMetrics, Sound

LEMMA InitIInv == Init => IInv
<1> SUFFICES ASSUME Init PROVE IInv
  OBVIOUS
<1>1. program.stack \in Seq(Int) /\ program \in Programs
  BY ProgramsAssumption DEF Init
<1>2. Len(stack) = Start /\ Start \in Nat /\ IsStack(stack)
  BY <1>1 DEF Init, Start, IsStack
<1>3. Sound(ran) /\ ran.pops = 0 /\ ran.pushes = 0 /\ ran.min = 0 /\ ran.max = 0
  BY DEF Init, Empty, Sound
<1>4. QED
  BY <1>1, <1>2, <1>3 DEF Init, IInv, TraceMetrics, Height, Start

\* What is known where an instruction is fetched.
LEMMA Fetching ==
    ASSUME IInv, ip \in DOMAIN program.code
    PROVE  /\ Now \in Instruction /\ Sound(This)
           /\ This.pops = Now.pops /\ This.pushes = Now.pushes
           /\ This.min = Now.min /\ This.max = Now.max
           /\ Now.pops \in Nat /\ Now.pushes \in Nat /\ Now.min \in Nat /\ Now.max \in Nat
           /\ Now.pops <= Now.min
           /\ Now.op = "SWAP" => Now.pops = 0 /\ Now.pushes = 0
<1>1. /\ Now \in Instruction /\ Plain(Now)
      /\ Now.op = "SWAP" => Now.pops = 0 /\ Now.pushes = 0
  <2>1. /\ program.code \in Seq(Instruction)
        /\ \A k \in DOMAIN program.code :
              /\ Plain(program.code[k])
              /\ program.code[k].op = "SWAP" => program.code[k].pops = 0 /\ program.code[k].pushes = 0
    BY ProgramsAssumption DEF IInv
  <2>2. program.code[ip] \in Instruction
    BY <2>1
  <2>3. QED
    BY <2>1, <2>2 DEF Now
<1>2. /\ Now.pops \in Nat /\ Now.pushes \in Nat /\ Now.min \in Nat /\ Now.max \in Nat
  BY <1>1 DEF Instruction
<1>3. /\ Now.pops <= Now.min /\ Now.min <= Now.max
      /\ Now.min - Now.pops + Now.pushes <= Now.max
  BY <1>1, <1>2 DEF Plain, AtLeast
<1>4. /\ This.pops = Now.pops /\ This.pushes = Now.pushes
      /\ This.min = Now.min /\ This.max = Now.max
  BY DEF This, Single
<1>5. QED
  BY <1>1, <1>2, <1>3, <1>4 DEF Sound

\* The books of an executed instruction, once its stack is as high as it should be.
LEMMA Booked ==
    ASSUME IInv, Ready, Executes, ip' \in Nat, IsStack(stack'),
           Len(stack') = Height - Now.pops + Now.pushes, status' # "underflow"
    PROVE  IInv'
<1>1. /\ Sound(This)
      /\ This.pops = Now.pops /\ This.pushes = Now.pushes
      /\ This.min = Now.min /\ This.max = Now.max
      /\ Now.pops \in Nat /\ Now.pushes \in Nat /\ Now.min \in Nat /\ Now.max \in Nat
  BY Fetching DEF Ready, Fetched
<1>2. /\ Sound(ran') /\ ran' = Concat(ran, This)
      /\ ran'.pushes - ran'.pops = ran.pushes - ran.pops + Now.pushes - Now.pops
      /\ ran'.min = AtLeast(ran.min, Now.min + ran.pops - ran.pushes)
      /\ ran'.pops = AtLeast(ran.pops, Now.pops + ran.pops - ran.pushes)
      /\ ran'.max - ran'.min = AtLeast(ran.max - ran.min, Now.max - Now.min + ran.pushes - ran.pops)
  BY <1>1, ConcatSound DEF Executes, IInv, SumOf
<1>3. /\ Start \in Int /\ Start' = Start /\ Height \in Int
      /\ Height = Start - ran.pops + ran.pushes /\ Height >= Now.min
      /\ lowest = Start - ran.pops /\ peak = Start + ran.max - ran.min /\ ran.min <= Start
  <2>1. program.stack \in Seq(Int)
    BY ProgramsAssumption DEF IInv
  <2>2. PICK S : stack \in Seq(S)
    BY DEF IInv, IsStack
  <2>3. QED
    BY <2>1, <2>2 DEF IInv, TraceMetrics, Start, Height, Executes, Ready
<1>4. Sound(ran)
  BY DEF IInv

\* The numbers by themselves.
<1>5. PICK rp \in Int, ru \in Int, rn \in Int, rx \in Int :
         rp = ran.pops /\ ru = ran.pushes /\ rn = ran.min /\ rx = ran.max
  BY <1>4 DEF Sound
<1>6. PICK np \in Int, nu \in Int, nn \in Int, nx \in Int :
         np = ran'.pops /\ nu = ran'.pushes /\ nn = ran'.min /\ nx = ran'.max
  BY <1>2 DEF Sound
<1>7. PICK p \in Int, u \in Int, n \in Int, x \in Int :
         p = Now.pops /\ u = Now.pushes /\ n = Now.min /\ x = Now.max
  BY <1>1
<1>8. PICK s \in Int, h \in Int : s = Start /\ h = Height
  BY <1>3
<1>9. nu - np = ru - rp + u - p
  BY <1>2, <1>5, <1>6, <1>7
<1>10. nn = AtLeast(rn, n + rp - ru) /\ np = AtLeast(rp, p + rp - ru)
  BY <1>2, <1>5, <1>6, <1>7
<1>11. nx - nn = AtLeast(rx - rn, x - n + ru - rp)
  BY <1>2, <1>5, <1>6, <1>7
<1>12. h = s - rp + ru /\ h >= n /\ rn <= s
  BY <1>3, <1>5, <1>7, <1>8
<1>13. lowest = s - rp /\ peak = s + rx - rn
  BY <1>3, <1>5, <1>8
<1>14. Len(stack') = h - p + u
  BY <1>7, <1>8
<1>15. lowest' = Least(s - rp, h - p) /\ peak' = AtLeast(s + rx - rn, h + x - n)
  BY <1>7, <1>8, <1>13 DEF Executes
<1>16. Len(stack') = s - np + nu
  BY <1>9, <1>12, <1>14
<1>17. lowest' = s - np
  BY <1>10, <1>12, <1>15 DEF Least, AtLeast
<1>18. peak' = s + nx - nn
  BY <1>11, <1>12, <1>15 DEF AtLeast
<1>19. nn <= s
  BY <1>10, <1>12 DEF AtLeast
<1>20. program' \in Programs
  BY DEF Executes, IInv
<1>21. TraceMetrics'
  BY <1>3, <1>6, <1>8, <1>16, <1>17, <1>18, <1>19 DEF TraceMetrics, Height
<1>22. QED
  BY <1>2, <1>20, <1>21 DEF IInv

LEMMA AddItems ==
    ASSUME NEW T, NEW s \in Seq(T), NEW t \in Seq(T)
    PROVE  s \o t \in Seq(T) /\ Len(s \o t) = Len(s) + Len(t)
  OBVIOUS

LEMMA LeavesHeight ==
    ASSUME IInv, Ready, NEW v, Leaves(v)
    PROVE  IsStack(stack') /\ Len(stack') = Height - Now.pops + Now.pushes
<1>1. PICK S : stack \in Seq(S)
  BY DEF IInv, IsStack
<1>2. /\ Now.pops \in Nat /\ Now.pushes \in Nat /\ Now.min \in Nat /\ Now.pops <= Now.min
      /\ Height \in Nat /\ Height = Len(stack) /\ Height >= Now.min
  BY <1>1, Fetching DEF Ready, Fetched, Height
<1> DEFINE T == S \cup {v}
           n == Height - Now.pops
           p == Now.pushes
<1>3. n \in 0..Len(stack) /\ p \in Nat
  BY <1>2
<1> HIDE DEF n, p
<1>4. stack \in Seq(T)
  BY <1>1
<1>5. SubSeq(stack, 1, n) \in Seq(T) /\ Len(SubSeq(stack, 1, n)) = n
  BY <1>3, <1>4
<1>6. [k \in 1..p |-> v] \in Seq(T) /\ Len([k \in 1..p |-> v]) = p
  BY <1>3
<1>7. stack' = SubSeq(stack, 1, n) \o [k \in 1..p |-> v]
  BY DEF Leaves, Popped, n, p
<1> HIDE DEF T
<1>8. stack' \in Seq(T) /\ Len(stack') = n + p
  BY <1>5, <1>6, <1>7, AddItems
<1>9. QED
  BY <1>8 DEF IsStack, n, p

LEMMA SetItem ==
    ASSUME NEW T, NEW s \in Seq(T), NEW v \in T, NEW i
    PROVE  [s EXCEPT ![i] = v] \in Seq(T) /\ Len([s EXCEPT ![i] = v]) = Len(s)
<1> DEFINE n == Len(s)
           t == [s EXCEPT ![i] = v]
<1>1. n \in Nat /\ s \in [1..n -> T]
  OBVIOUS
<1>2. t \in [1..n -> T]
  BY <1>1
<1>3. t \in Seq(T) /\ Len(t) = n
  BY <1>1, <1>2
<1>4. QED
  BY <1>3

LEMMA NextIInv == IInv /\ [Next]_vars => IInv'
<1> SUFFICES ASSUME IInv, [Next]_vars PROVE IInv'
  OBVIOUS
<1>0. ip \in Nat /\ ip + 1 \in Nat /\ IsStack(stack)
  BY DEF IInv
<1>1. CASE Compute
  BY <1>0, <1>1, LeavesHeight, Booked DEF Compute, GoesOn, Ready, Fetched, Running
<1>2. CASE Works
  BY <1>0, <1>2, LeavesHeight, Booked DEF Works, GoesOn, Ready, Fetched, Running
<1>3. CASE Asks
  BY <1>0, <1>3, LeavesHeight, Booked DEF Asks, GoesOn, Ready, Fetched, Running
<1>4. CASE FallThrough
  BY <1>0, <1>4, LeavesHeight, Booked DEF FallThrough, GoesOn, Ready, Fetched, Running
<1>5. CASE Store
  BY <1>0, <1>5, LeavesHeight, Booked DEF Store, GoesOn, Ready, Fetched, Running
<1>6. CASE CodeCopy
  BY <1>0, <1>6, LeavesHeight, Booked DEF CodeCopy, GoesOn, Ready, Fetched, Running
<1>7. CASE Halt
  BY <1>0, <1>7, LeavesHeight, Booked DEF Halt, Ready, Fetched, Running
<1>8. DOMAIN program.code \subseteq Nat
  <2>1. program.code \in Seq(Instruction)
    BY ProgramsAssumption DEF IInv
  <2>2. QED
    BY <2>1
<1>9. CASE Jump
  <2>1. ip' \in Nat
    BY <1>8, <1>9 DEF Jump, Dests, Places
  <2>2. QED
    BY <1>9, <2>1, LeavesHeight, Booked DEF Jump, Ready, Fetched, Running
<1>10. CASE Move
  <2>1. ip' \in Nat
    BY <1>8, <1>10 DEF Move, Places
  <2>2. QED
    BY <1>10, <2>1, LeavesHeight, Booked DEF Move, Ready, Fetched, Running
<1>11. CASE Exchanges
  <2>1. PICK S : stack \in Seq(S)
    BY DEF IInv, IsStack
  <2>2. Now.pops = 0 /\ Now.pushes = 0
    BY <1>11, Fetching DEF Exchanges, Ready, Fetched
  <2> DEFINE T == S \cup {stack[Height], stack[Height - Now.arg]}
  <2>3. stack \in Seq(T)
    BY <2>1
  <2>4. stack' = [stack EXCEPT ![Height] = stack[Height - Now.arg],
                               ![Height - Now.arg] = stack[Height]]
    BY <1>11 DEF Exchanges
  <2>5. stack[Height] \in T /\ stack[Height - Now.arg] \in T
    OBVIOUS
  <2> HIDE DEF T
  <2> DEFINE once == [stack EXCEPT ![Height] = stack[Height - Now.arg]]
  <2>6. once \in Seq(T) /\ Len(once) = Len(stack)
    BY <2>3, <2>5, SetItem
  <2>10. stack' = [once EXCEPT ![Height - Now.arg] = stack[Height]]
    BY <2>4
  <2> HIDE DEF once
  <2>11. stack' \in Seq(T) /\ Len(stack') = Len(stack)
    BY <2>5, <2>6, <2>10, SetItem
  <2>7. Len(stack') = Height - Now.pops + Now.pushes
    BY <2>2, <2>3, <2>11 DEF Height
  <2>8. IsStack(stack')
    BY <2>11 DEF IsStack
  <2>9. QED
    BY <1>0, <1>11, <2>7, <2>8, Booked DEF Exchanges, GoesOn, Ready, Fetched, Running
<1>12. CASE Stop
  <2>1. UNCHANGED <<program, ip, stack, ran, peak, lowest>> /\ status' = Fault
    BY <1>12 DEF Stop
  <2>2. Start' = Start /\ Height' = Height /\ This' = This
    BY <2>1 DEF Start, Height, This, Now
  <2>3. ASSUME status' = "underflow" PROVE Start < Concat(ran, This).min
    <3>1. ip \in DOMAIN program.code /\ Height < Now.min
      BY <2>1, <2>3 DEF Fault
    <3>2. /\ Sound(This) /\ This.min = Now.min /\ Sound(ran)
      BY <3>1, Fetching DEF IInv
    <3>3. Concat(ran, This).min = AtLeast(ran.min, This.min + ran.pops - ran.pushes)
      BY <3>2, ConcatSound DEF SumOf
    <3>4. Start \in Int /\ Height = Start - ran.pops + ran.pushes
      <4>1. program.stack \in Seq(Int)
        BY ProgramsAssumption DEF IInv
      <4>2. QED
        BY <4>1 DEF IInv, TraceMetrics, Start
    <3>5. QED
      BY <3>1, <3>2, <3>3, <3>4 DEF AtLeast, Sound
  <2>4. TraceMetrics'
    BY <2>1, <2>2, <2>3 DEF IInv, TraceMetrics
  <2>5. QED
    BY <2>1, <2>4 DEF IInv
<1>13. CASE UNCHANGED vars
  <2>1. UNCHANGED <<program, ip, stack, ran, peak, lowest, status>>
    BY <1>13 DEF vars, machine
  <2>2. Start' = Start /\ Height' = Height /\ This' = This
    BY <2>1 DEF Start, Height, This, Now
  <2>3. QED
    BY <2>1, <2>2 DEF IInv, TraceMetrics
<1>14. QED
  BY <1>1, <1>2, <1>3, <1>4, <1>5, <1>6, <1>7, <1>9, <1>10, <1>11, <1>12, <1>13 DEF Next

\* The sum of what ran, its height, its lowest and highest stack: always, for any programs.
THEOREM Invariance == Spec => []IInv
  BY InitIInv, NextIInv, PTL DEF Spec

THEOREM TypeCorrect == Spec => []TypeOK
  BY Invariance, TraceTypes, PTL

\* The algebra says what the stack did.
THEOREM TraceIsSummed == Spec => []TraceMetrics
<1>1. IInv => TraceMetrics
  BY DEF IInv
<1>2. QED
  BY Invariance, <1>1, PTL

(***************************************************************************)
(* What a bytecode says of itself is what its instructions do.             *)
(***************************************************************************)
LEMMA LeastNat ==
  ASSUME NEW T, T \subseteq Nat, T # {}
  PROVE  Min(T) \in T /\ \A y \in T : Min(T) <= y
<1>1. PICK x \in T : \A y \in T : ~(<<y, x>> \in OpToRel(<, Nat))
  BY NatLessThanWellFounded, WFMin
<1>2. \A y \in T : ~(y < x)
  BY <1>1 DEF OpToRel
<1>3. \A y \in T : x <= y
  BY <1>2
<1> QED
  BY <1>3 DEF Min

LEMMA SameSums ==
  ASSUME NEW a, NEW b, NEW c, NEW d, SameNumbers(a, c), SameNumbers(b, d)
  PROVE  SameNumbers(Concat(a, b), Concat(c, d))
BY DEF SameNumbers, Concat

LEMMA SameSound ==
  ASSUME NEW a, NEW b, SameNumbers(a, b), Sound(a)
  PROVE  Sound(b)
BY DEF SameNumbers, Sound

LEMMA EmptySound == Sound(Empty)
BY DEF Empty, Sound

LEMMA OneIsSound ==
  ASSUME NEW i \in Instruction, Plain(i)
  PROVE  /\ Sound(One(i)) /\ One(i).min = i.min /\ One(i).max = i.max
         /\ One(i).pops = i.pops /\ One(i).pushes = i.pushes
<1>1. i.pops \in Nat /\ i.pushes \in Nat /\ i.min \in Nat /\ i.max \in Nat
  BY DEF Instruction
<1>2. i.pops <= i.min /\ i.min <= i.max /\ i.min - i.pops + i.pushes <= i.max
  BY <1>1 DEF Plain, AtLeast
<1>3. /\ One(i).min = i.min /\ One(i).max = i.max
      /\ One(i).pops = i.pops /\ One(i).pushes = i.pushes
  BY DEF One, Single
<1> QED
  BY <1>1, <1>2, <1>3 DEF Sound

\* They are sound, and none needs less of the stack than the one before.
LEMMA SumsGrow ==
  ASSUME NEW code, Instructions(code), NEW sums, AreSums(sums, code)
  PROVE  \A k \in 0..Len(code) :
            Sound(sums[k]) /\ \A j \in 0..k : sums[j].min \in Int /\ sums[j].min <= sums[k].min
<1> DEFINE n == Len(code)
           Good(k) == /\ Sound(sums[k])
                      /\ \A j \in 0..k : sums[j].min \in Int /\ sums[j].min <= sums[k].min
           bad == {k \in 0..n : ~Good(k)}
<1>1. n \in Nat /\ DOMAIN code = 1..n /\ \A k \in 1..n : code[k] \in Instruction /\ Plain(code[k])
  BY DEF Instructions
<1>2. Good(0)
  <2>1. Sound(sums[0])
    BY EmptySound, SameSound DEF AreSums, SameNumbers
  <2>2. sums[0].min \in Int /\ sums[0].min <= sums[0].min /\ \A j \in 0..0 : j = 0
    BY <2>1 DEF Sound
  <2> QED
    BY <2>1, <2>2
<1>3. ASSUME NEW k \in 1..n, Good(k - 1) PROVE Good(k)
  <2>1. Sound(One(code[k]))
    BY <1>1, OneIsSound
  <2> DEFINE c == Concat(sums[k - 1], One(code[k]))
  <2>2. SameNumbers(c, sums[k])
    BY DEF AreSums, SameNumbers
  <2>3. /\ Sound(c)
        /\ c.min = AtLeast(sums[k - 1].min, One(code[k]).min + sums[k - 1].pops - sums[k - 1].pushes)
    BY <1>3, <2>1, ConcatSound DEF SumOf
  <2> HIDE DEF c
  <2>4. /\ Sound(sums[k])
        /\ sums[k].min = AtLeast(sums[k - 1].min, One(code[k]).min + sums[k - 1].pops - sums[k - 1].pushes)
    BY <2>2, <2>3, SameSound DEF SameNumbers
  <2>5. sums[k - 1].min <= sums[k].min /\ sums[k].min \in Int
    <3>1. /\ sums[k - 1].min \in Int /\ One(code[k]).min \in Int
          /\ sums[k - 1].pops \in Int /\ sums[k - 1].pushes \in Int
      BY <1>3, <2>1 DEF Sound
    <3>2. PICK x \in Int, y \in Int, p \in Int, u \in Int :
             /\ x = sums[k - 1].min /\ y = One(code[k]).min
             /\ p = sums[k - 1].pops /\ u = sums[k - 1].pushes
      BY <3>1, Zenon
    <3>3. sums[k].min = AtLeast(x, y + p - u)
      BY <2>4, <3>2
    <3>4. \A z \in Int : AtLeast(x, z) >= x /\ AtLeast(x, z) \in Int
      BY <3>2 DEF AtLeast
    <3>5. y + p - u \in Int
      BY <3>2
    <3> QED
      BY <3>2, <3>3, <3>4, <3>5
  <2>6. ASSUME NEW j \in 0..k PROVE sums[j].min \in Int /\ sums[j].min <= sums[k].min
    <3>1. CASE j = k
      BY <2>5, <3>1
    <3>2. CASE j # k
      <4>1. j \in 0..(k - 1) /\ sums[j].min \in Int /\ sums[j].min <= sums[k - 1].min
        BY <1>3, <3>2
      <4>2. sums[k - 1].min \in Int
        BY <1>3
      <4> QED
        BY <2>5, <4>1, <4>2
    <3> QED
      BY <3>1, <3>2
  <2> QED
    BY <2>4, <2>6
<1> HIDE DEF Good
<1>4. bad = {}
  <2> SUFFICES ASSUME bad # {} PROVE FALSE
    OBVIOUS
  <2> DEFINE k == Min(bad)
  <2>1. k \in bad /\ \A j \in bad : k <= j
    BY LeastNat
  <2> HIDE DEF k
  <2>2. k \in 1..n /\ k - 1 \in 0..n
    BY <1>2, <2>1
  <2>3. Good(k - 1)
    BY <2>1, <2>2
  <2> QED
    BY <1>3, <2>1, <2>2, <2>3
<1> QED
  BY <1>4 DEF Good

LEMMA EmptyAddsUp == AddsUp(Empty)
<1> DEFINE sums == [k \in 0..0 |-> Empty]
<1>1. Empty.code = <<>> /\ <<>> \in Seq(Instruction)
  BY DEF Empty
<1>2. AreSums(sums, Empty.code) /\ SameNumbers(sums[Len(Empty.code)], Empty)
  BY <1>1 DEF AreSums, SameNumbers
<1> QED
  BY <1>1, <1>2 DEF AddsUp, Instructions

\* One instruction of an opcode that needs what it pops adds up.
LEMMA SingleAddsUp ==
  ASSUME NEW op \in Ops, NEW opcode, NEW arg \in Int, IsOpcode(opcode)
  PROVE  AddsUp(Single(op, opcode, arg))
<1> DEFINE a == Single(op, opcode, arg)
           i == a.code[1]
           sums == [k \in 0..1 |-> IF k = 0 THEN Empty ELSE Concat(Empty, One(i))]
<1>1. /\ a.code = <<i>> /\ i \in Instruction /\ Plain(i)
      /\ SameNumbers(One(i), a)
  BY DEF Single, Instruction, IsOpcode, Plain, One, SameNumbers
<1> HIDE DEF a, i
<1>2. a.code \in Seq(Instruction) /\ Len(a.code) = 1 /\ DOMAIN a.code = 1..1 /\ a.code[1] = i
  BY <1>1
<1>3. Instructions(a.code)
  BY <1>1, <1>2 DEF Instructions
<1>4. SameNumbers(Concat(Empty, One(i)), a)
  <2>1. Sound(One(i))
    BY <1>1, OneIsSound
  <2>2. SameNumbers(Concat(Empty, One(i)), One(i))
    BY <2>1, EmptyIsNeutral
  <2> QED
    BY <1>1, <2>2 DEF SameNumbers
<1>5. sums[0] = Empty /\ sums[1] = Concat(Empty, One(i))
  OBVIOUS
<1> HIDE DEF sums
<1>6. AreSums(sums, a.code)
  BY <1>2, <1>5 DEF AreSums, SameNumbers
<1>7. SameNumbers(sums[Len(a.code)], a)
  BY <1>2, <1>4, <1>5
<1>8. AddsUp(a)
  BY <1>3, <1>6, <1>7 DEF AddsUp
<1> QED
  BY <1>8 DEF a

\* The sum of two bytecodes that add up adds up.
LEMMA ConcatAddsUp ==
  ASSUME NEW a, NEW b, AddsUp(a), AddsUp(b)
  PROVE  AddsUp(Concat(a, b))
<1> DEFINE m == Len(a.code)
           n == Len(b.code)
           c == a.code \o b.code
<1>1. Instructions(a.code) /\ Instructions(b.code)
  BY DEF AddsUp
<1>2. /\ m \in Nat /\ n \in Nat /\ DOMAIN a.code = 1..m /\ DOMAIN b.code = 1..n
      /\ \A k \in 1..m : a.code[k] \in Instruction /\ Plain(a.code[k])
      /\ \A k \in 1..n : b.code[k] \in Instruction /\ Plain(b.code[k])
  BY <1>1 DEF Instructions
<1>3. /\ c \in Seq(Instruction) /\ Len(c) = m + n
      /\ \A k \in 1..(m + n) : c[k] = IF k <= m THEN a.code[k] ELSE b.code[k - m]
  BY <1>1, ConcatProperties DEF Instructions
<1>4. PICK sa : AreSums(sa, a.code) /\ SameNumbers(sa[m], a)
  BY DEF AddsUp
<1>5. PICK sb : AreSums(sb, b.code) /\ SameNumbers(sb[n], b)
  BY DEF AddsUp
<1>6. \A k \in 0..m : Sound(sa[k])
  BY <1>1, <1>4, SumsGrow
<1>7. \A k \in 0..n : Sound(sb[k])
  BY <1>1, <1>5, SumsGrow
<1> HIDE DEF m, n, c
<1> DEFINE sums == [k \in 0..(m + n) |-> IF k < m THEN sa[k] ELSE Concat(sa[m], sb[k - m])]
<1>8. SameNumbers(Concat(sa[m], sb[0]), sa[m])
  <2>1. SameNumbers(sb[0], Empty) /\ Sound(sa[m])
    BY <1>2, <1>5, <1>6 DEF AreSums
  <2>2. SameNumbers(Concat(sa[m], sb[0]), Concat(sa[m], Empty))
    BY <2>1, SameSums DEF SameNumbers
  <2>3. SameNumbers(Concat(sa[m], Empty), sa[m])
    BY <2>1, EmptyIsNeutral
  <2> QED
    BY <2>2, <2>3 DEF SameNumbers
<1>9. ASSUME NEW k \in 0..m PROVE SameNumbers(sums[k], sa[k])
  <2>1. k \in 0..(m + n)
    BY <1>2
  <2>2. CASE k < m
    BY <2>1, <2>2 DEF SameNumbers
  <2>3. CASE ~(k < m)
    <3>1. k = m /\ k - m = 0
      BY <1>2, <2>3
    <3> QED
      BY <1>8, <2>1, <3>1
  <2> QED
    BY <2>2, <2>3
<1>10. ASSUME NEW k \in 0..n PROVE sums[m + k] = Concat(sa[m], sb[k])
  BY <1>2
<1> HIDE DEF sums
<1>11. ASSUME NEW k \in 1..m PROVE SameNumbers(sums[k], Concat(sums[k - 1], One(c[k])))
  <2>1. k \in 0..m /\ k - 1 \in 0..m /\ k \in 1..(m + n) /\ k <= m
    BY <1>2
  <2>2. SameNumbers(sa[k], Concat(sa[k - 1], One(a.code[k]))) /\ c[k] = a.code[k]
    BY <1>3, <1>4, <2>1 DEF AreSums, m
  <2>3. SameNumbers(sums[k], sa[k]) /\ SameNumbers(sums[k - 1], sa[k - 1])
    BY <1>9, <2>1
  <2>4. SameNumbers(Concat(sums[k - 1], One(a.code[k])), Concat(sa[k - 1], One(a.code[k])))
    BY <2>3, SameSums DEF SameNumbers
  <2> QED
    BY <2>2, <2>3, <2>4 DEF SameNumbers
<1>12. ASSUME NEW k \in 1..n
       PROVE  SameNumbers(sums[m + k], Concat(sums[m + k - 1], One(c[m + k])))
  <2>1. k \in 0..n /\ k - 1 \in 0..n /\ m + k \in 1..(m + n) /\ ~(m + k <= m)
        /\ m + k - m = k /\ m + k - 1 = m + (k - 1) /\ m \in 0..m
    BY <1>2
  <2>2. SameNumbers(sb[k], Concat(sb[k - 1], One(b.code[k]))) /\ c[m + k] = b.code[k]
    <3>1. SameNumbers(sb[k], Concat(sb[k - 1], One(b.code[k])))
      BY <1>5 DEF AreSums, n
    <3>2. c[m + k] = b.code[m + k - m]
      BY <1>3, <2>1
    <3> QED
      BY <2>1, <3>1, <3>2
  <2>3. sums[m + k] = Concat(sa[m], sb[k]) /\ sums[m + k - 1] = Concat(sa[m], sb[k - 1])
    BY <1>10, <2>1
  <2>4. Sound(sa[m]) /\ Sound(sb[k - 1]) /\ Sound(One(b.code[k]))
    BY <1>2, <1>6, <1>7, <2>1, OneIsSound
  <2>5. SameNumbers(Concat(sa[m], sb[k]), Concat(sa[m], Concat(sb[k - 1], One(b.code[k]))))
    BY <2>2, SameSums DEF SameNumbers
  <2>6. SameNumbers(Concat(Concat(sa[m], sb[k - 1]), One(b.code[k])),
                    Concat(sa[m], Concat(sb[k - 1], One(b.code[k]))))
    BY <2>4, AdditionAssociates
  <2> QED
    BY <2>2, <2>3, <2>5, <2>6 DEF SameNumbers
<1>13. ASSUME NEW k \in 1..(m + n)
       PROVE  SameNumbers(sums[k], Concat(sums[k - 1], One(c[k])))
  <2>1. CASE k <= m
    <3>1. k \in 1..m
      BY <1>2, <2>1
    <3> QED
      BY <1>11, <3>1
  <2>2. CASE ~(k <= m)
    <3>1. PICK j \in 1..n : m + j = k
      BY <1>2, <2>2
    <3>2. SameNumbers(sums[m + j], Concat(sums[m + j - 1], One(c[m + j])))
      BY <1>12
    <3>3. sums[k] = sums[m + j] /\ sums[k - 1] = sums[m + j - 1] /\ c[k] = c[m + j]
      BY <1>2, <3>1
    <3> QED
      BY <3>2, <3>3
  <2> QED
    BY <2>1, <2>2
<1>14. SameNumbers(sums[0], Empty)
  <2>1. SameNumbers(sums[0], sa[0]) /\ SameNumbers(sa[0], Empty)
    BY <1>2, <1>4, <1>9 DEF AreSums
  <2> QED
    BY <2>1 DEF SameNumbers
<1>15. AreSums(sums, c)
  BY <1>3, <1>13, <1>14 DEF AreSums
<1>16. SameNumbers(sums[Len(c)], Concat(a, b))
  <2>1. sums[Len(c)] = Concat(sa[m], sb[n])
    BY <1>2, <1>3, <1>10
  <2> QED
    BY <1>4, <1>5, <2>1, SameSums DEF m, n, SameNumbers
<1>17. Instructions(c)
  <2>1. ASSUME NEW k \in DOMAIN c PROVE Plain(c[k])
    <3>1. k \in 1..(m + n)
      BY <1>3
    <3>2. CASE k <= m
      <4>1. k \in 1..m /\ c[k] = a.code[k]
        BY <1>2, <1>3, <3>1, <3>2
      <4> QED
        BY <1>2, <4>1
    <3>3. CASE ~(k <= m)
      <4>1. k - m \in 1..n /\ c[k] = b.code[k - m]
        BY <1>2, <1>3, <3>1, <3>3
      <4> QED
        BY <1>2, <4>1
    <3> QED
      BY <3>2, <3>3
  <2> QED
    BY <1>3, <2>1 DEF Instructions
<1>18. Concat(a, b).code = c
  BY DEF Concat, c
<1> QED
  BY <1>15, <1>16, <1>17, <1>18 DEF AddsUp

LEMMA GreatestNat ==
  ASSUME NEW n \in Nat, NEW T \in SUBSET (1..n), T # {}
  PROVE  Max(T) \in T /\ \A y \in T : Max(T) >= y
<1> DEFINE U == {u \in Nat : \A y \in T : y <= u}
           u == Min(U)
<1>1. U \subseteq Nat /\ n \in U
  OBVIOUS
<1>2. u \in U /\ \A v \in U : u <= v
  BY <1>1, LeastNat
<1> HIDE DEF u
<1>3. u \in T
  <2> SUFFICES ASSUME u \notin T PROVE FALSE
    OBVIOUS
  <2>1. PICK y \in T : y \in 1..n /\ y <= u /\ y # u
    BY <1>2
  <2>2. u - 1 \in Nat /\ \A z \in T : z <= u - 1
    BY <1>2, <2>1
  <2> QED
    BY <1>2, <2>2
<1>4. \A y \in T : u >= y
  BY <1>2
<1> QED
  BY <1>3, <1>4 DEF Max

LEMMA FoldExists ==
  ASSUME NEW n \in Nat, NEW V, NEW base \in V, NEW next \in [(1..n) \X V -> V]
  PROVE  \E f : IsFold(f, n, V, base, next)
<1> DEFINE S == SUBSET (1..n)
           Worth(f, s) == IF s = {} THEN base ELSE next[<<Max(s), f[s \ {Max(s)}]>>]
           UpTo(k) == \E f \in [S -> V] : \A s \in S : Cardinality(s) <= k => f[s] = Worth(f, s)
           bad == {k \in Nat : ~UpTo(k)}
<1>1. \A s \in S : IsFiniteSet(s) /\ Cardinality(s) \in Nat
  <2> SUFFICES ASSUME NEW s \in S PROVE IsFiniteSet(s) /\ Cardinality(s) \in Nat
    OBVIOUS
  <2>1. IsFiniteSet(1..n) /\ s \subseteq 1..n
    BY FS_Interval
  <2>2. IsFiniteSet(s)
    BY <2>1, FS_Subset
  <2> QED
    BY <2>2, FS_CardinalityType
<1>2. ASSUME NEW s \in S, s # {}
      PROVE  /\ Max(s) \in 1..n /\ s \ {Max(s)} \in S
             /\ Cardinality(s \ {Max(s)}) = Cardinality(s) - 1
  BY <1>1, <1>2, GreatestNat, FS_RemoveElement
<1>3. ASSUME NEW f \in [S -> V], NEW s \in S
      PROVE  Worth(f, s) \in V
  BY <1>2
<1>4. UpTo(0)
  <2> DEFINE f == [s \in S |-> base]
  <2>1. f \in [S -> V]
    OBVIOUS
  <2>2. ASSUME NEW s \in S, Cardinality(s) <= 0
        PROVE  f[s] = Worth(f, s)
    <3>1. s = {}
      BY <1>1, <2>2, FS_EmptySet
    <3> QED
      BY <3>1
  <2> QED
    BY <2>1, <2>2
<1>5. ASSUME NEW k \in Nat, UpTo(k)
      PROVE  UpTo(k + 1)
  <2>1. PICK f \in [S -> V] : \A s \in S : Cardinality(s) <= k => f[s] = Worth(f, s)
    BY <1>5
  <2> DEFINE g == [s \in S |-> IF Cardinality(s) <= k THEN f[s] ELSE Worth(f, s)]
  <2>2. g \in [S -> V]
    BY <1>3
  <2>3. ASSUME NEW s \in S, Cardinality(s) <= k + 1
        PROVE  g[s] = Worth(f, s) /\ Worth(g, s) = Worth(f, s)
    <3>1. g[s] = Worth(f, s)
      BY <2>1
    <3>2. CASE s = {}
      BY <3>1, <3>2
    <3>3. CASE s # {}
      <4>1. s \ {Max(s)} \in S /\ Cardinality(s \ {Max(s)}) <= k
        BY <1>1, <1>2, <2>3, <3>3
      <4>2. g[s \ {Max(s)}] = f[s \ {Max(s)}]
        BY <4>1
      <4> QED
        BY <3>1, <3>3, <4>2
    <3> QED
      BY <3>2, <3>3
  <2> HIDE DEF g, Worth
  <2> QED
    BY <2>2, <2>3
<1> HIDE DEF UpTo
<1>6. bad = {}
  <2> SUFFICES ASSUME bad # {} PROVE FALSE
    OBVIOUS
  <2> DEFINE k == Min(bad)
  <2>1. k \in bad /\ \A j \in bad : k <= j
    BY LeastNat
  <2> HIDE DEF k
  <2>2. k # 0 /\ k - 1 \in Nat
    BY <1>4, <2>1
  <2>3. UpTo(k - 1)
    BY <2>1, <2>2
  <2> QED
    BY <1>5, <2>1, <2>2, <2>3
<1>7. UpTo(n)
  BY <1>6
<1>8. \A s \in S : Cardinality(s) <= n
  <2> SUFFICES ASSUME NEW s \in S PROVE Cardinality(s) <= n
    OBVIOUS
  <2>1. IsFiniteSet(1..n) /\ Cardinality(1..n) = n /\ s \subseteq 1..n
    BY FS_Interval
  <2> DEFINE I == 1..n
  <2> HIDE DEF I
  <2>2. Cardinality(s) <= Cardinality(I)
    BY <2>1, FS_Subset DEF I
  <2> QED
    BY <2>1, <2>2 DEF I
<1> QED
  BY <1>7, <1>8 DEF UpTo, IsFold

LEMMA Segments ==
  ASSUME NEW n \in Nat, NEW k \in 1..n
  PROVE  /\ 1..k \in SUBSET (1..n) /\ 1..(k - 1) \in SUBSET (1..n)
         /\ 1..k # {} /\ Max(1..k) = k /\ (1..k) \ {k} = 1..(k - 1)
<1>1. 1..k \in SUBSET (1..n) /\ k \in 1..k /\ (1..k) \ {k} = 1..(k - 1)
  OBVIOUS
<1>2. Max(1..k) \in 1..k /\ \A y \in 1..k : Max(1..k) >= y
  BY <1>1, GreatestNat
<1> QED
  BY <1>1, <1>2

LEMMA EmptyBytecode == Empty \in Bytecodes
<1>1. <<>> \in Seq(Instruction)
  OBVIOUS
<1> QED
  BY <1>1 DEF Empty, Bytecodes

LEMMA ConcatBytecode ==
  ASSUME NEW a \in Bytecodes, NEW b \in Bytecodes
  PROVE  Concat(a, b) \in Bytecodes
<1>1. a.code \o b.code \in Seq(Instruction)
  <2>1. a.code \in Seq(Instruction) /\ b.code \in Seq(Instruction)
    BY DEF Bytecodes
  <2> QED
    BY <2>1, ConcatProperties
<1>2. /\ a.pops \in Int /\ a.pushes \in Int /\ a.min \in Int /\ a.max \in Int
      /\ b.pops \in Int /\ b.pushes \in Int /\ b.min \in Int /\ b.max \in Int
      /\ b.terminating \in BOOLEAN
  BY DEF Bytecodes
<1>3. /\ Concat(a, b).pops \in Int /\ Concat(a, b).pushes \in Int /\ Concat(a, b).min \in Int
      /\ Concat(a, b).max \in Int
  BY <1>2 DEF Concat, AtLeast
<1>4. Concat(a, b).code = a.code \o b.code /\ Concat(a, b).terminating = b.terminating
  BY DEF Concat
<1> DEFINE c == Concat(a, b)
<1>5. c = [code |-> c.code, pops |-> c.pops, pushes |-> c.pushes, min |-> c.min, max |-> c.max,
           terminating |-> c.terminating]
  BY DEF Concat
<1> HIDE DEF c
<1>6. c \in Bytecodes
  BY <1>1, <1>2, <1>3, <1>4, <1>5 DEF Bytecodes, c
<1> QED
  BY <1>6 DEF c

LEMMA JoinSums ==
  ASSUME NEW V, Empty \in V, \A a, b \in V : Concat(a, b) \in V, NEW parts \in Seq(V)
  PROVE  \E c : Sums(c, V, parts)
<1> DEFINE n == Len(parts)
           next == [p \in (1..n) \X V |-> Concat(p[2], parts[p[1]])]
           Fold(g) == g = [s \in SUBSET (DOMAIN parts) |->
                             IF s = {} THEN Empty ELSE Concat(g[s \ {Max(s)}], parts[Max(s)])]
           fold == CHOOSE g : Fold(g)
<1>1. n \in Nat /\ DOMAIN parts = 1..n /\ \A k \in 1..n : parts[k] \in V
  OBVIOUS
<1>2. next \in [(1..n) \X V -> V]
  BY <1>1
<1>3. \A i \in 1..n, v \in V : next[<<i, v>>] = Concat(v, parts[i])
  OBVIOUS
<1>4. Join(parts) = fold[DOMAIN parts]
  BY DEF Join, FoldLeft, MapThenFoldSet
<1> HIDE DEF next
<1>5. PICK f : IsFold(f, n, V, Empty, next)
  <2> HIDE DEF n
  <2> QED
    BY <1>1, <1>2, FoldExists
<1>6. Fold(f)
  <2>1. ASSUME NEW s \in SUBSET (1..n), s # {}
        PROVE  next[<<Max(s), f[s \ {Max(s)}]>>] = Concat(f[s \ {Max(s)}], parts[Max(s)])
    <3>1. Max(s) \in 1..n /\ s \ {Max(s)} \in SUBSET (1..n)
      BY <1>1, <2>1, GreatestNat
    <3> QED
      BY <1>3, <1>5, <3>1 DEF IsFold
  <2> QED
    BY <1>1, <1>5, <2>1 DEF IsFold
<1>7. Fold(fold)
  BY <1>6
<1> HIDE DEF fold
<1> DEFINE c == [k \in 0..n |-> fold[1..k]]
<1>8. c[0] = Empty
  <2>1. fold[{}] = Empty
    BY <1>7
  <2>2. 1..0 = {}
    OBVIOUS
  <2> QED
    BY <1>1, <2>1, <2>2
<1>9. ASSUME NEW k \in 1..n
      PROVE  c[k] = Concat(c[k - 1], parts[k])
  <2>1. /\ 1..k \in SUBSET (1..n) /\ 1..k # {} /\ Max(1..k) = k
        /\ (1..k) \ {k} = 1..(k - 1)
    BY <1>1, Segments
  <2>2. fold[1..k] = Concat(fold[1..(k - 1)], parts[k])
    BY <1>1, <1>7, <2>1
  <2>3. k \in 0..n /\ k - 1 \in 0..n
    BY <1>1
  <2> QED
    BY <2>2, <2>3
<1>10. c[n] = Join(parts) /\ DOMAIN c = 0..n /\ c = [k \in 0..n |-> c[k]]
  BY <1>1, <1>4
<1> HIDE DEF c
<1>11. ASSUME NEW k \in 0..n PROVE c[k] \in V
  <2> DEFINE bad == {j \in 0..n : c[j] \notin V}
             j == Min(bad)
  <2> SUFFICES ASSUME bad # {} PROVE FALSE
    OBVIOUS
  <2>1. j \in bad /\ \A i \in bad : j <= i
    <3>1. bad \subseteq Nat
      OBVIOUS
    <3> HIDE DEF bad
    <3> QED
      BY <3>1, LeastNat
  <2> HIDE DEF j
  <2>2. j \in 1..n /\ j - 1 \in 0..n
    BY <1>1, <1>8, <2>1
  <2>3. c[j - 1] \in V
    BY <2>1, <2>2
  <2>4. Concat(c[j - 1], parts[j]) \in V
    BY <1>1, <2>2, <2>3
  <2> QED
    BY <1>9, <2>1, <2>2, <2>4
<1>12. c \in [0..n -> V]
  BY <1>10, <1>11
<1> QED
  BY <1>8, <1>9, <1>10, <1>12 DEF Sums

LEMMA ConcatBuilt ==
  ASSUME NEW a \in Built, NEW b \in Built
  PROVE  Concat(a, b) \in Built
BY ConcatAddsUp, ConcatBytecode DEF Built

LEMMA EmptyBuilt == Empty \in Built
BY EmptyAddsUp, EmptyBytecode DEF Built

LEMMA SingleBuilt ==
  ASSUME NEW op \in Ops, NEW opcode, NEW arg \in Int, IsOpcode(opcode)
  PROVE  Single(op, opcode, arg) \in Built
<1> DEFINE a == Single(op, opcode, arg)
<1>1. AddsUp(a)
  BY SingleAddsUp
<1>2. a.code \in Seq(Instruction)
  BY <1>1 DEF AddsUp, Instructions
<1>3. a \in Bytecodes
  BY <1>2 DEF Single, Bytecodes, IsOpcode
<1> QED
  BY <1>1, <1>3 DEF Built

\* What is joined, repeated or called of bytecodes that add up adds up.
LEMMA JoinBuilt ==
  ASSUME NEW parts \in Seq(Built)
  PROVE  Join(parts) \in Built
<1>1. PICK c : Sums(c, Built, parts)
  BY ConcatBuilt, EmptyBuilt, JoinSums
<1>2. Len(parts) \in 0..Len(parts)
  OBVIOUS
<1> QED
  BY <1>1, <1>2 DEF Sums

LEMMA TimesBuilt ==
  ASSUME NEW n \in Nat, NEW a \in Built
  PROVE  Times(n, a) \in Built
<1>1. [i \in 1..n |-> a] \in Seq(Built)
  <2>1. [i \in 1..n |-> a] \in [1..n -> Built]
    OBVIOUS
  <2> QED
    BY <2>1, SeqDef, Zenon
<1> QED
  BY <1>1, JoinBuilt DEF Times

LEMMA TotalsAgree ==
  ASSUME NEW code \in Seq(Instruction), NEW u, Totals(u, code)
  PROVE  \A k \in 0..Len(code) : u[k] \in Nat /\ \A v : Totals(v, code) => v[k] = u[k]
<1> DEFINE n == Len(code)
           Good(k) == u[k] \in Nat /\ \A v : Totals(v, code) => v[k] = u[k]
           bad == {k \in 0..n : ~Good(k)}
<1>1. n \in Nat /\ \A k \in 1..n : code[k].size \in Nat
  <2>1. n \in Nat /\ \A k \in 1..n : code[k] \in Instruction
    OBVIOUS
  <2> QED
    BY <2>1 DEF Instruction
<1>2. Good(0)
  BY DEF Totals
<1>3. ASSUME NEW k \in 1..n, Good(k - 1) PROVE Good(k)
  <2>1. u[k] = u[k - 1] + code[k].size
    BY DEF Totals
  <2>2. ASSUME NEW v, Totals(v, code) PROVE v[k] = u[k]
    <3>1. v[k] = v[k - 1] + code[k].size /\ v[k - 1] = u[k - 1]
      BY <1>3, <2>2 DEF Totals
    <3> QED
      BY <2>1, <3>1
  <2> QED
    BY <1>1, <1>3, <2>1, <2>2
<1> HIDE DEF Good
<1>4. bad = {}
  <2> SUFFICES ASSUME bad # {} PROVE FALSE
    OBVIOUS
  <2> DEFINE k == Min(bad)
  <2>1. k \in bad /\ \A j \in bad : k <= j
    <3>1. bad \subseteq Nat
      OBVIOUS
    <3> HIDE DEF bad
    <3> QED
      BY <3>1, LeastNat
  <2> HIDE DEF k
  <2>2. k \in 1..n /\ k - 1 \in 0..n
    BY <1>1, <1>2, <2>1
  <2>3. Good(k - 1)
    BY <2>1, <2>2
  <2> QED
    BY <1>3, <2>1, <2>2, <2>3
<1> QED
  BY <1>4 DEF Good

LEMMA SizeTotals ==
  ASSUME NEW code \in Seq(Instruction)
  PROVE  \E u : Totals(u, code) /\ u[Len(code)] = Size(code)
<1> DEFINE n == Len(code)
           next == [p \in (1..n) \X Nat |-> p[2] + code[p[1]].size]
           Upto(u) == u = [k \in 0..n |-> IF k = 0 THEN 0 ELSE u[k - 1] + code[k].size]
           upto == CHOOSE u : Upto(u)
<1>1. n \in Nat /\ \A k \in 1..n : code[k].size \in Nat
  <2>1. n \in Nat /\ \A k \in 1..n : code[k] \in Instruction
    OBVIOUS
  <2> QED
    BY <2>1 DEF Instruction
<1>2. Size(code) = upto[n]
  BY DEF Size
<1>3. next \in [(1..n) \X Nat -> Nat]
  BY <1>1
<1>4. \A i \in 1..n, v \in Nat : next[<<i, v>>] = v + code[i].size
  OBVIOUS
<1> HIDE DEF next, n
<1>5. PICK f : IsFold(f, n, Nat, 0, next)
  <2>1. 0 \in Nat
    OBVIOUS
  <2> QED
    BY <1>1, <1>3, <2>1, FoldExists
<1> DEFINE u == [k \in 0..n |-> f[1..k]]
<1>6. ASSUME NEW k \in 0..n
      PROVE  u[k] = IF k = 0 THEN 0 ELSE u[k - 1] + code[k].size
  <2>1. CASE k = 0
    <3>1. f[{}] = 0
      BY <1>5 DEF IsFold
    <3>2. 1..0 = {} /\ 0 \in 0..n
      BY <1>1
    <3> QED
      BY <2>1, <3>1, <3>2
  <2>2. CASE k # 0
    <3>1. k \in 1..n /\ k - 1 \in 0..n
      BY <1>1, <2>2
    <3>2. /\ 1..k \in SUBSET (1..n) /\ 1..k # {} /\ Max(1..k) = k
          /\ (1..k) \ {k} = 1..(k - 1) /\ 1..(k - 1) \in SUBSET (1..n)
      BY <1>1, <3>1, Segments
    <3>3. f[1..k] = next[<<k, f[1..(k - 1)]>>] /\ f[1..(k - 1)] \in Nat
      BY <1>5, <3>2 DEF IsFold
    <3>4. f[1..k] = f[1..(k - 1)] + code[k].size
      BY <1>4, <3>1, <3>3
    <3> QED
      BY <2>2, <3>1, <3>4
  <2> QED
    BY <2>1, <2>2
<1>7. Upto(u)
  <2>1. DOMAIN u = 0..n /\ u = [k \in 0..n |-> u[k]]
    OBVIOUS
  <2> HIDE DEF u
  <2> QED
    BY <1>6, <2>1
<1> HIDE DEF u
<1>8. Upto(upto)
  BY <1>7
<1> HIDE DEF upto
<1>9. Totals(upto, code)
  <2>1. \A k \in 0..n : upto[k] = IF k = 0 THEN 0 ELSE upto[k - 1] + code[k].size
    BY <1>8
  <2>2. \A k \in 1..n : k \in 0..n /\ k # 0
    OBVIOUS
  <2>3. 0 \in 0..n
    BY <1>1
  <2> QED
    BY <2>1, <2>2, <2>3 DEF Totals, n
<1> QED
  BY <1>2, <1>9 DEF n

\* Code behind code is as long as both.
LEMMA SizeAdds ==
  ASSUME NEW s \in Seq(Instruction), NEW t \in Seq(Instruction)
  PROVE  Size(s) \in Nat /\ Size(t) \in Nat /\ Size(s \o t) = Size(s) + Size(t)
<1> DEFINE m == Len(s)
           n == Len(t)
           c == s \o t
<1>1. /\ c \in Seq(Instruction) /\ m \in Nat /\ n \in Nat /\ Len(c) = m + n
      /\ \A k \in 1..(m + n) : c[k] = IF k <= m THEN s[k] ELSE t[k - m]
  BY ConcatProperties
<1>2. PICK u : Totals(u, s) /\ u[m] = Size(s)
  BY SizeTotals
<1>3. PICK v : Totals(v, t) /\ v[n] = Size(t)
  BY SizeTotals
<1>4. PICK w : Totals(w, c) /\ w[Len(c)] = Size(c)
  BY <1>1, SizeTotals
<1>5. (\A k \in 0..m : u[k] \in Nat) /\ \A k \in 0..n : v[k] \in Nat
  BY <1>2, <1>3, TotalsAgree
<1>6. \A k \in 1..m : u[k] = u[k - 1] + s[k].size
  BY <1>2 DEF Totals
<1>7. \A k \in 1..n : v[k] = v[k - 1] + t[k].size
  BY <1>3 DEF Totals
<1>8. \A k \in 1..n : t[k].size \in Nat
  <2>1. \A k \in 1..n : t[k] \in Instruction
    OBVIOUS
  <2> QED
    BY <2>1 DEF Instruction
<1>9. u[0] = 0 /\ v[0] = 0
  BY <1>2, <1>3 DEF Totals
<1> HIDE DEF m, n, c
<1> DEFINE x == [k \in 0..(m + n) |-> IF k <= m THEN u[k] ELSE u[m] + v[k - m]]
<1>10. ASSUME NEW k \in 1..(m + n) PROVE x[k] = x[k - 1] + c[k].size
  <2>1. k \in 0..(m + n) /\ k - 1 \in 0..(m + n)
    BY <1>1
  <2>2. CASE k <= m
    <3>1. k \in 1..m /\ k - 1 <= m
      BY <1>1, <2>2
    <3>2. x[k] = u[k] /\ x[k - 1] = u[k - 1] /\ c[k] = s[k]
      BY <1>1, <2>1, <2>2, <3>1
    <3> QED
      BY <1>6, <3>1, <3>2
  <2>3. CASE ~(k <= m)
    <3>1. k - m \in 1..n /\ (k - m) - 1 \in 0..n /\ (k - m) - 1 = (k - 1) - m /\ m \in 0..m
      BY <1>1, <2>3
    <3>2. x[k] = u[m] + v[k - m] /\ c[k] = t[k - m]
      BY <1>1, <2>1, <2>3
    <3>3. x[k - 1] = u[m] + v[(k - m) - 1]
      <4>1. CASE k - 1 <= m
        <5>1. k - 1 = m /\ (k - m) - 1 = 0 /\ m \in 0..(m + n)
          BY <1>1, <2>3, <4>1
        <5>2. x[m] = u[m] /\ x[k - 1] = x[m]
          BY <1>1, <5>1
        <5> QED
          BY <1>5, <1>9, <3>1, <5>1, <5>2
      <4>2. CASE ~(k - 1 <= m)
        BY <2>1, <3>1, <4>2
      <4> QED
        BY <4>1, <4>2
    <3>4. v[k - m] = v[(k - m) - 1] + t[k - m].size
      BY <1>7, <3>1
    <3>5. v[(k - m) - 1] \in Nat /\ t[k - m].size \in Nat /\ u[m] \in Nat
      BY <1>5, <1>8, <3>1
    <3> QED
      BY <3>2, <3>3, <3>4, <3>5
  <2> QED
    BY <2>2, <2>3
<1>11. x[0] = 0 /\ x[m + n] = u[m] + v[n]
  <2>1. m \in 0..m /\ n \in 0..n /\ 0 \in 0..(m + n) /\ m + n \in 0..(m + n)
    BY <1>1
  <2>2. x[0] = 0
    BY <1>1, <1>9, <2>1
  <2>3. CASE n = 0
    <3>1. m + n = m /\ x[m + n] = u[m] /\ v[n] = 0
      BY <1>1, <1>9, <2>1, <2>3
    <3> QED
      BY <1>5, <2>1, <2>2, <3>1
  <2>4. CASE n # 0
    <3>1. ~(m + n <= m) /\ (m + n) - m = n
      BY <1>1, <2>4
    <3> QED
      BY <2>1, <2>2, <3>1
  <2> QED
    BY <2>3, <2>4
<1> HIDE DEF x
<1>12. Totals(x, c)
  BY <1>1, <1>10, <1>11 DEF Totals
<1>13. w[Len(c)] = x[Len(c)]
  <2>1. Len(c) \in 0..Len(c)
    BY <1>1
  <2> QED
    BY <1>1, <1>4, <1>12, <2>1, TotalsAgree
<1>14. u[m] \in Nat /\ v[n] \in Nat
  BY <1>1, <1>5
<1> QED
  BY <1>1, <1>2, <1>3, <1>4, <1>11, <1>13, <1>14 DEF c

LEMMA LengthAdds ==
  ASSUME NEW a \in Bytecodes, NEW b \in Bytecodes
  PROVE  /\ Length(Concat(a, b)) = Length(a) + Length(b)
         /\ Length(a) \in Nat /\ Length(b) \in Nat
<1>1. a.code \in Seq(Instruction) /\ b.code \in Seq(Instruction)
  BY DEF Bytecodes
<1>2. Concat(a, b).code = a.code \o b.code
  BY DEF Concat
<1> QED
  BY <1>1, <1>2, SizeAdds DEF Length

LEMMA LengthOfEmpty == Length(Empty) = 0
<1>1. Empty.code = <<>> /\ <<>> \in Seq(Instruction) /\ Len(<<>>) = 0
  BY DEF Empty
<1>2. PICK u : Totals(u, <<>>) /\ u[0] = Size(<<>>)
  BY <1>1, SizeTotals
<1> QED
  BY <1>1, <1>2 DEF Totals, Length

LEMMA LengthOfSingle ==
  ASSUME NEW op \in Ops, NEW opcode, NEW arg \in Int, IsOpcode(opcode)
  PROVE  Length(Single(op, opcode, arg)) = opcode.size /\ Single(op, opcode, arg) \in Bytecodes
<1> DEFINE a == Single(op, opcode, arg)
<1>1. a \in Bytecodes
  BY SingleBuilt DEF Built
<1>2. a.code \in Seq(Instruction)
  BY <1>1 DEF Bytecodes
<1>3. Len(a.code) = 1 /\ a.code[1].size = opcode.size /\ opcode.size \in Nat
  BY DEF Single, IsOpcode
<1> HIDE DEF a
<1>4. PICK u : Totals(u, a.code) /\ u[1] = Size(a.code)
  BY <1>2, <1>3, SizeTotals
<1> QED
  BY <1>1, <1>3, <1>4 DEF Totals, Length, a

\* n times a bytecode is n times as long.
LEMMA LengthOfTimes ==
  ASSUME NEW n \in Nat, NEW a \in Bytecodes
  PROVE  Length(Times(n, a)) = n * Length(a) /\ Times(n, a) \in Bytecodes
<1> DEFINE parts == [i \in 1..n |-> a]
           l == Length(a)
<1>1. parts \in Seq(Bytecodes) /\ Len(parts) = n
  <2>1. parts \in [1..n -> Bytecodes]
    OBVIOUS
  <2>2. parts \in Seq(Bytecodes)
    BY <2>1, SeqDef, Zenon
  <2>3. DOMAIN parts = 1..n
    OBVIOUS
  <2> HIDE DEF parts
  <2> QED
    BY <2>2, <2>3
<1>2. \A i \in 1..n : parts[i] = a
  OBVIOUS
<1>3. Times(n, a) = Join(parts)
  BY DEF Times
<1> HIDE DEF parts
<1>4. PICK c : Sums(c, Bytecodes, parts)
  BY <1>1, EmptyBytecode, ConcatBytecode, JoinSums
<1>5. \A k \in 0..n : c[k] \in Bytecodes
  BY <1>1, <1>4 DEF Sums
<1>6. l \in Nat
  BY LengthAdds
<1> HIDE DEF l
<1> DEFINE bad == {k \in 0..n : Length(c[k]) # k * l}
<1>7. Length(c[0]) = 0 * l
  BY <1>4, <1>6, LengthOfEmpty DEF Sums
<1>8. ASSUME NEW k \in 1..n, Length(c[k - 1]) = (k - 1) * l PROVE Length(c[k]) = k * l
  <2>1. c[k] = Concat(c[k - 1], a) /\ c[k - 1] \in Bytecodes
    BY <1>1, <1>2, <1>4, <1>5 DEF Sums
  <2>2. Length(c[k]) = (k - 1) * l + l
    BY <1>8, <2>1, LengthAdds DEF l
  <2> QED
    BY <1>6, <2>2
<1>9. bad = {}
  <2> SUFFICES ASSUME bad # {} PROVE FALSE
    OBVIOUS
  <2> DEFINE k == Min(bad)
  <2>1. k \in bad /\ \A j \in bad : k <= j
    <3>1. bad \subseteq Nat
      OBVIOUS
    <3> HIDE DEF bad
    <3> QED
      BY <3>1, LeastNat
  <2> HIDE DEF k
  <2>2. k \in 1..n /\ k - 1 \in 0..n
    BY <1>7, <2>1
  <2>3. Length(c[k - 1]) = (k - 1) * l
    BY <2>1, <2>2
  <2> QED
    BY <1>8, <2>1, <2>2, <2>3
<1>10. n \in 0..n
  OBVIOUS
<1>11. Length(c[n]) = n * l
  BY <1>9, <1>10
<1> QED
  BY <1>1, <1>3, <1>4, <1>5, <1>10, <1>11 DEF Sums, l

LEMMA TableKnows == Knows(Table)
<1>1. Knows(Control)
  BY DEF Knows, Names, Control, StorageAndJumps, Position, Transient, ++
<1>2. Names \cap DOMAIN Computing = {}
  BY DEF Names, Computing, Arithmetic, SignedArithmetic, PowersAndOrder, Comparison, ++
<1>3. Names \cap DOMAIN Surroundings = {}
  BY DEF Names, Surroundings, BitLogic, ShiftsAndHash, CallerFields, OwnCode, ++
<1>4. Names \cap DOMAIN Chain = {}
  BY DEF Names, Chain, OtherCode, BlockFields, ChainFields, Memory, ++
<1> QED
  BY <1>1, <1>2, <1>3, <1>4 DEF Knows, Names, Table, ++

LEMMA Quotient ==
  ASSUME NEW n \in Int, n >= 256
  PROVE  n \div 256 \in Nat /\ n \div 256 < n
OBVIOUS

LEMMA BelowExists == \A k \in Nat : \E f : Below(f, k)
<1> DEFINE UpTo(k) == \E f : Below(f, k)
           bad == {k \in Nat : ~UpTo(k)}
<1>1. UpTo(0)
  <2> DEFINE f == [n \in Int |-> 32]
  <2>1. f \in [Int -> Nat] /\ \A n \in Int : n < 0 => f[n] = Width(f, n)
    BY DEF Width
  <2> QED
    BY <2>1 DEF Below
<1>2. ASSUME NEW k \in Nat, UpTo(k) PROVE UpTo(k + 1)
  <2>1. PICK f : Below(f, k)
    BY <1>2
  <2> DEFINE g == [n \in Int |-> IF n < k THEN f[n] ELSE Width(f, n)]
  <2>2. ASSUME NEW n \in Int PROVE Width(f, n) \in Nat
    <3>1. f \in [Int -> Nat]
      BY <2>1 DEF Below
    <3>2. n >= 256 => n \div 256 \in Int
      BY Quotient
    <3> QED
      BY <3>1, <3>2 DEF Width
  <2>3. g \in [Int -> Nat]
    BY <2>1, <2>2 DEF Below
  <2>4. ASSUME NEW n \in Int, n < k + 1 PROVE g[n] = Width(g, n)
    <3>1. g[n] = Width(f, n)
      BY <2>1 DEF Below
    <3>2. CASE n < 256
      BY <3>1, <3>2 DEF Width
    <3>3. CASE ~(n < 256)
      <4>1. n \div 256 \in Int /\ n \div 256 < k
        BY <2>4, <3>3, Quotient
      <4>2. g[n \div 256] = f[n \div 256]
        BY <4>1
      <4> QED
        BY <3>1, <4>2 DEF Width
    <3> QED
      BY <3>2, <3>3
  <2> HIDE DEF g
  <2> QED
    BY <2>3, <2>4 DEF Below
<1> HIDE DEF UpTo
<1>3. bad = {}
  <2> SUFFICES ASSUME bad # {} PROVE FALSE
    OBVIOUS
  <2> DEFINE k == Min(bad)
  <2>1. k \in bad /\ \A j \in bad : k <= j
    BY LeastNat
  <2> HIDE DEF k
  <2>2. k # 0 /\ k - 1 \in Nat
    BY <1>1, <2>1
  <2>3. UpTo(k - 1)
    BY <2>1, <2>2
  <2> QED
    BY <1>2, <2>1, <2>2, <2>3
<1> QED
  BY <1>3 DEF UpTo

LEMMA BelowAgree ==
  ASSUME NEW k \in Nat, NEW l \in Nat, NEW f, NEW g, Below(f, k), Below(g, l)
  PROVE  \A n \in Int : n < k /\ n < l => f[n] = g[n]
<1> DEFINE bad == {n \in Nat : n < k /\ n < l /\ f[n] # g[n]}
<1>1. ASSUME NEW n \in Int, n < 256, n < k, n < l PROVE f[n] = g[n]
  BY <1>1 DEF Below, Width
<1>2. bad = {}
  <2> SUFFICES ASSUME bad # {} PROVE FALSE
    OBVIOUS
  <2> DEFINE n == Min(bad)
  <2>1. n \in bad /\ \A j \in bad : n <= j
    <3>1. bad \subseteq Nat
      OBVIOUS
    <3> HIDE DEF bad
    <3> QED
      BY <3>1, LeastNat
  <2> HIDE DEF n
  <2>2. n \in Nat /\ n < k /\ n < l /\ f[n] # g[n] /\ ~(n < 256)
    BY <1>1, <2>1
  <2>3. n \div 256 \in Nat /\ n \div 256 < n
    BY <2>2, Quotient
  <2>4. f[n \div 256] = g[n \div 256]
    <3> DEFINE q == n \div 256
    <3> HIDE DEF q
    <3>1. q \in Nat /\ q < n
      BY <2>3 DEF q
    <3>2. f[q] = g[q]
      BY <2>1, <2>2, <3>1
    <3> QED
      BY <3>2 DEF q
  <2> QED
    BY <2>2, <2>4 DEF Below, Width
<1>3. ASSUME NEW n \in Int, n < k, n < l PROVE f[n] = g[n]
  BY <1>1, <1>2, <1>3
<1> QED
  BY <1>3

LEMMA IntSizeIs ==
  ASSUME NEW n \in Int
  PROVE  IntSize[n] = Width(IntSize, n) /\ IntSize[n] \in Nat
<1> DEFINE K(i) == IF i < 0 THEN 0 ELSE i + 1
           F(i) == CHOOSE f : Below(f, K(i))
           h == [i \in Int |-> F(i)[i]]
<1>1. ASSUME NEW i \in Int
      PROVE  K(i) \in Nat /\ i < K(i) /\ Below(F(i), K(i))
  <2>1. K(i) \in Nat /\ i < K(i)
    OBVIOUS
  <2> HIDE DEF K
  <2> QED
    BY <2>1, BelowExists
<1> HIDE DEF K, F
<1>2. ASSUME NEW i \in Int
      PROVE  h[i] = Width(h, i) /\ h[i] \in Nat
  <2>1. h[i] = F(i)[i] /\ F(i)[i] = Width(F(i), i) /\ F(i)[i] \in Nat
    BY <1>1 DEF Below
  <2>2. CASE i < 256
    BY <2>1, <2>2 DEF Width
  <2>3. CASE ~(i < 256)
    <3> DEFINE q == i \div 256
    <3>1. q \in Nat /\ q < i
      BY <2>3, Quotient
    <3> HIDE DEF q
    <3>2. q \in Int /\ q < K(i) /\ q < K(q) /\ K(i) \in Nat /\ K(q) \in Nat
      BY <1>1, <3>1 DEF K
    <3>3. F(i)[q] = F(q)[q]
      BY <1>1, <3>2, BelowAgree
    <3>4. h[q] = F(i)[q]
      BY <3>2, <3>3
    <3> HIDE DEF h
    <3> QED
      BY <2>1, <2>3, <3>4 DEF Width, q
  <2> QED
    BY <2>2, <2>3
<1>3. h = [i \in Int |-> h[i]]
  OBVIOUS
<1> HIDE DEF h
<1>4. h = [i \in Int |-> Width(h, i)]
  BY <1>2, <1>3
<1>5. IntSize = CHOOSE f : f = [i \in Int |-> Width(f, i)]
  BY DEF IntSize, Width
<1>6. IntSize = [i \in Int |-> Width(IntSize, i)]
  BY <1>4, <1>5
<1>7. \A i \in Int : IntSize[i] = Width(IntSize, i)
  BY <1>6
<1> DEFINE bad == {i \in Nat : IntSize[i] \notin Nat}
<1>8. \A i \in Int : i < 256 => IntSize[i] \in Nat
  BY <1>7 DEF Width
<1>9. bad = {}
  <2> SUFFICES ASSUME bad # {} PROVE FALSE
    OBVIOUS
  <2> DEFINE i == Min(bad)
  <2>1. i \in bad /\ \A j \in bad : i <= j
    <3>1. bad \subseteq Nat
      OBVIOUS
    <3> HIDE DEF bad
    <3> QED
      BY <3>1, LeastNat
  <2> HIDE DEF i
  <2>2. i \in Nat /\ IntSize[i] \notin Nat /\ ~(i < 256)
    BY <1>8, <2>1
  <2> DEFINE q == i \div 256
  <2>3. q \in Nat /\ q < i
    BY <2>2, Quotient
  <2>4. IntSize[i] = 1 + IntSize[q]
    BY <1>7, <2>2 DEF Width
  <2> HIDE DEF q
  <2>5. IntSize[q] \in Nat
    BY <2>1, <2>2, <2>3
  <2> QED
    BY <2>2, <2>4, <2>5
<1>10. IntSize[n] \in Nat
  BY <1>8, <1>9
<1> QED
  BY <1>7, <1>10

(***************************************************************************)
(* Opcodes, and the code that fills a contract.                            *)
(***************************************************************************)
\* The constructor of the opcodes makes opcodes that need what they pop.
LEMMA OpcodeFits ==
  ASSUME NEW pops \in Nat, NEW pushes \in Nat, NEW min \in Nat, pops <= min, NEW data \in Nat,
         NEW ends \in BOOLEAN
  PROVE  /\ IsOpcode(Opcode(pops, pushes, min, data, ends))
         /\ Opcode(pops, pushes, min, data, ends).size = 1 + data
<1> DEFINE o == Opcode(pops, pushes, min, data, ends)
<1>1. /\ o.pops = pops /\ o.pushes = pushes /\ o.min = min /\ o.size = 1 + data
      /\ o.terminating = ends /\ o.max = AtLeast(min - pops + pushes, min)
  BY DEF Opcode
<1> HIDE DEF o
<1>2. o.max \in Nat /\ o.max >= AtLeast(min, min - pops + pushes)
  BY <1>1 DEF AtLeast
<1>3. IsOpcode(o) /\ o.size = 1 + data
  BY <1>1, <1>2 DEF IsOpcode, Plain
<1> QED
  BY <1>3 DEF o

\* A number, on the stack in as few bytes as it takes; copies and exchanges.
LEMMA PushBuilt ==
  ASSUME NEW n \in Int
  PROVE  Push(n) \in Built /\ Length(Push(n)) = 1 + IntSize[n] /\ IntSize[n] \in Nat
<1>1. IntSize[n] \in Nat
  BY IntSizeIs
<1>2. IsOpcode(Pushes(IntSize[n])) /\ Pushes(IntSize[n]).size = 1 + IntSize[n]
  <2>1. 0 \in Nat /\ 1 \in Nat /\ 0 <= 0 /\ FALSE \in BOOLEAN
    OBVIOUS
  <2> QED
    BY <1>1, <2>1, OpcodeFits, ZenonT(60) DEF Pushes
<1>3. "PUSH" \in Ops
  BY DEF Ops
<1> QED
  BY <1>1, <1>2, <1>3, SingleBuilt, LengthOfSingle DEF Push, PushN

LEMMA DupSwapBuilt ==
  ASSUME NEW n \in Nat
  PROVE  Dup(n) \in Built /\ Swap(n) \in Built
<1>1. 0 \in Nat /\ 1 \in Nat /\ 0 <= n /\ 0 <= n + 1 /\ n + 1 \in Nat /\ n \in Int
  OBVIOUS
<1>2. IsOpcode(Copies(n)) /\ IsOpcode(Swaps(n))
  <2>1. FALSE \in BOOLEAN
    OBVIOUS
  <2> QED
    BY <1>1, <2>1, OpcodeFits, ZenonT(60) DEF Copies, Swaps
<1>3. "DUP" \in Ops /\ "SWAP" \in Ops
  BY DEF Ops
<1> QED
  BY <1>1, <1>2, <1>3, SingleBuilt DEF Dup, Swap

LEMMA JumpsBuilt ==
  ASSUME NEW op \in Names
  PROVE  Op(op) \in Built /\ Length(Op(op)) = 1
<1>1. ASSUME NEW i \in Nat, NEW j \in Nat PROVE IsOpcode(Takes(i, j)) /\ Takes(i, j).size = 1
  <2>1. 0 \in Nat /\ i <= i /\ 1 + 0 = 1
    OBVIOUS
  <2>2. FALSE \in BOOLEAN
    OBVIOUS
  <2>3. IsOpcode(Takes(i, j)) /\ Takes(i, j).size = 1 + 0
    BY <2>1, <2>2, OpcodeFits, ZenonT(60) DEF Takes
  <2> QED
    BY <2>1, <2>3
<1>2. IsOpcode(Table[op]) /\ Table[op].size = 1
  <2>1. Table[op] \in {Takes(1, 0), Takes(0, 0), Takes(0, 1)}
    BY TableKnows DEF Knows, Names
  <2>2. 0 \in Nat /\ 1 \in Nat
    OBVIOUS
  <2> QED
    BY <1>1, <2>1, <2>2
<1>3. op \in Ops /\ 0 \in Int
  BY TableKnows DEF Knows, Ops
<1> QED
  BY <1>2, <1>3, SingleBuilt, LengthOfSingle DEF Op

\* A call with one argument: the argument, then the opcode.
LEMMA CallOfOne ==
  ASSUME NEW o \in Bytecodes, NEW x \in Bytecodes
  PROVE  Call(o, <<x>>) \in Bytecodes /\ Length(Call(o, <<x>>)) = Length(x) + Length(o)
<1> DEFINE args == <<x>>
<1>1. Reverse(args) = args
  BY DEF Reverse
<1>2. args \in Seq(Bytecodes) /\ Len(args) = 1 /\ args[1] = x
  OBVIOUS
<1> HIDE DEF args
<1>3. PICK c : Sums(c, Bytecodes, args)
  BY <1>2, EmptyBytecode, ConcatBytecode, JoinSums
<1>4. Join(args) = Concat(Empty, x)
  BY <1>2, <1>3 DEF Sums
<1>5. Concat(Empty, x) \in Bytecodes /\ Length(Concat(Empty, x)) = 0 + Length(x) /\ Length(x) \in Nat
  BY EmptyBytecode, ConcatBytecode, LengthAdds, LengthOfEmpty
<1>6. Call(o, args) = Concat(Concat(Empty, x), o)
  BY <1>1, <1>4 DEF Call
<1> QED
  BY <1>5, <1>6, ConcatBytecode, LengthAdds DEF args

LEMMA LengthOfFive ==
  ASSUME NEW parts \in Seq(Bytecodes), Len(parts) = 5
  PROVE  /\ Length(Join(parts)) = Length(parts[1]) + Length(parts[2]) + Length(parts[3])
                                  + Length(parts[4]) + Length(parts[5])
         /\ Join(parts) \in Bytecodes
<1>1. PICK c : Sums(c, Bytecodes, parts)
  BY EmptyBytecode, ConcatBytecode, JoinSums
<1>2. /\ c[0] = Empty /\ c[5] = Join(parts)
      /\ c[1] = Concat(c[0], parts[1]) /\ c[2] = Concat(c[1], parts[2])
      /\ c[3] = Concat(c[2], parts[3]) /\ c[4] = Concat(c[3], parts[4])
      /\ c[5] = Concat(c[4], parts[5])
  BY <1>1 DEF Sums
<1>3. /\ c[0] \in Bytecodes /\ c[1] \in Bytecodes /\ c[2] \in Bytecodes /\ c[3] \in Bytecodes
      /\ c[4] \in Bytecodes /\ c[5] \in Bytecodes
  BY <1>1 DEF Sums
<1>4. /\ parts[1] \in Bytecodes /\ parts[2] \in Bytecodes /\ parts[3] \in Bytecodes
      /\ parts[4] \in Bytecodes /\ parts[5] \in Bytecodes
  <2>1. \A k \in 1..Len(parts) : parts[k] \in Bytecodes
    BY ElementOfSeq
  <2> QED
    BY <2>1
<1>5. /\ Length(c[1]) = Length(c[0]) + Length(parts[1]) /\ Length(c[2]) = Length(c[1]) + Length(parts[2])
      /\ Length(c[3]) = Length(c[2]) + Length(parts[3]) /\ Length(c[4]) = Length(c[3]) + Length(parts[4])
      /\ Length(c[5]) = Length(c[4]) + Length(parts[5])
  BY <1>2, <1>3, <1>4, LengthAdds
<1>6. Length(c[0]) = 0
  BY <1>2, LengthOfEmpty
<1>7. /\ Length(parts[1]) \in Nat /\ Length(parts[2]) \in Nat /\ Length(parts[3]) \in Nat
      /\ Length(parts[4]) \in Nat /\ Length(parts[5]) \in Nat
  BY <1>4, LengthAdds
<1> QED
  BY <1>2, <1>3, <1>5, <1>6, <1>7

\* What is left when a division is multiplied again.
LEMMA Remainder ==
  ASSUME NEW n \in Nat, NEW d \in Nat, d > 0
  PROVE  (n \div d) \in Nat /\ (n \div d) * d <= n /\ n < (n \div d) * d + d
<1> DEFINE q == n \div d
           r == n % d
<1>1. q \in Int /\ q >= 0
  OBVIOUS
<1>2. n = d * q + r /\ r \in 0..(d - 1)
  OBVIOUS
<1> HIDE DEF q, r
<1>3. q * d = d * q /\ d * q \in Int
  BY <1>1
<1>4. q \in Nat /\ q * d <= n /\ n < q * d + d
  BY <1>1, <1>2, <1>3
<1> QED
  BY <1>4 DEF q

\* Code repeated to fill a contract is at most as long as a contract may be, and the
\* repeated part does not fit once more, whatever the parts, as long as they fit.
THEOREM RepeatedFills ==
  ASSUME NEW setup \in Bytecodes, NEW body \in Bytecodes, NEW cleanup \in Bytecodes,
         NEW most \in Nat, Length(body) > 0, Overhead(setup, cleanup) <= most
  PROVE  LET size == Length(Repeated(setup, body, cleanup, most))
         IN  size <= most /\ size + Length(body) >= most
<1> DEFINE back == Call(Op("JUMP"), <<Push(Length(setup))>>)
           last == IF Length(setup) > 0 THEN back ELSE Concat(Op("PUSH0"), Op("JUMP"))
           room == most - Overhead(setup, cleanup)
           times == room \div Length(body)
           parts == <<setup, Op("JUMPDEST"), Times(times, body), cleanup, last>>
           code == Repeated(setup, body, cleanup, most)
<1>1. Length(setup) \in Nat /\ Length(body) \in Nat /\ Length(cleanup) \in Nat
  BY LengthAdds
<1>2. /\ Op("JUMP") \in Bytecodes /\ Op("JUMPDEST") \in Bytecodes /\ Op("PUSH0") \in Bytecodes
      /\ Length(Op("JUMP")) = 1 /\ Length(Op("JUMPDEST")) = 1 /\ Length(Op("PUSH0")) = 1
  BY JumpsBuilt DEF Names, Built
<1>3. Push(Length(setup)) \in Bytecodes /\ Length(Push(Length(setup))) \in Nat
      /\ Length(Push(Length(setup))) = 1 + IntSize[Length(setup)] /\ IntSize[Length(setup)] \in Nat
  BY <1>1, PushBuilt DEF Built
<1>4. back \in Bytecodes /\ Length(back) = Length(Push(Length(setup))) + 1
  BY <1>2, <1>3, CallOfOne
<1>5. Length(setup) = 0 => Length(back) = 3
  <2>1. IntSize[0] = 1
    BY IntSizeIs DEF Width
  <2> QED
    BY <1>3, <1>4, <2>1
<1> HIDE DEF back
<1>6. last \in Bytecodes /\ Length(last) = IF Length(setup) > 0 THEN Length(back) ELSE 2
  <2>1. Concat(Op("PUSH0"), Op("JUMP")) \in Bytecodes
        /\ Length(Concat(Op("PUSH0"), Op("JUMP"))) = 1 + 1
    BY <1>2, ConcatBytecode, LengthAdds
  <2> QED
    BY <1>4, <2>1
<1>7. room \in Nat /\ room = most - (Length(setup) + 1 + Length(cleanup) + Length(back))
      /\ Length(back) \in Nat
  BY <1>1, <1>3, <1>4 DEF Overhead, back
<1>8. code = Join(parts)
  BY DEF Repeated, Overhead, back
<1> HIDE DEF last, room, code
<1>9. times \in Nat /\ times * Length(body) <= room /\ room < times * Length(body) + Length(body)
  BY <1>1, <1>7, Remainder
<1> HIDE DEF times
<1>10. Times(times, body) \in Bytecodes /\ Length(Times(times, body)) = times * Length(body)
  BY <1>9, LengthOfTimes
<1>11. parts \in Seq(Bytecodes) /\ Len(parts) = 5
  BY <1>2, <1>6, <1>10
<1>12. Length(code) = Length(setup) + 1 + times * Length(body) + Length(cleanup) + Length(last)
  <2>1. /\ parts[1] = setup /\ parts[2] = Op("JUMPDEST") /\ parts[3] = Times(times, body)
        /\ parts[4] = cleanup /\ parts[5] = last
    OBVIOUS
  <2> HIDE DEF parts
  <2>2. Length(Join(parts)) = Length(parts[1]) + Length(parts[2]) + Length(parts[3])
                              + Length(parts[4]) + Length(parts[5])
    BY <1>11, LengthOfFive
  <2> QED
    BY <1>2, <1>8, <1>10, <2>1, <2>2
<1> DEFINE all == times * Length(body)
<1>13. all \in Nat
  BY <1>1, <1>9
<1> HIDE DEF all
<1>14. all <= room /\ room < all + Length(body)
  BY <1>9 DEF all
<1>15. Length(code) = Length(setup) + 1 + all + Length(cleanup) + Length(last)
  BY <1>12 DEF all
<1>16. Length(code) <= most /\ Length(code) + Length(body) >= most
  BY <1>1, <1>5, <1>6, <1>7, <1>13, <1>14, <1>15
<1> QED
  BY <1>16 DEF code

LEMMA AlongNext ==
  ASSUME IInv, Along, [Next]_vars
  PROVE  Along'
<1> SUFFICES ASSUME Forward(program.code)' PROVE Along'
  BY DEF Along
<1>1. program' = program /\ Forward(program.code)
  BY DEF Next, vars, Compute, Exchanges, Works, Asks, Jump, Move, FallThrough, Store, CodeCopy, Halt,
         Stop, Executes
<1>2. program.code \in Seq(Instruction) /\ Len(program.code) \in Nat
      /\ DOMAIN program.code = 1..Len(program.code)
  BY ProgramsAssumption DEF IInv
<1>3. /\ ip \in 1..(Len(program.code) + 1)
      /\ \A sums : AreSums(sums, program.code) =>
            SameNumbers(ran, sums[IF status = "halted" THEN ip ELSE ip - 1])
  BY <1>1 DEF Along
<1>4. ASSUME Ready, Executes, ip' = IF status' = "halted" THEN ip ELSE ip + 1,
             status' \in {"running", "halted"},
             status' = "halted" => Now.op \in {"STOP", "RETURN"}
      PROVE  Along'
  <2>1. ip \in DOMAIN program.code /\ status = "running"
    BY <1>4 DEF Ready, Fetched, Running
  <2>2. ran' = Concat(ran, One(program.code[ip]))
    BY <1>4 DEF Executes, This, Now, One
  <2>3. ASSUME NEW sums, AreSums(sums, program.code)
        PROVE  SameNumbers(ran', sums[ip])
    <3>1. SameNumbers(ran, sums[ip - 1])
      BY <1>3, <2>1, <2>3
    <3>2. SameNumbers(sums[ip], Concat(sums[ip - 1], One(program.code[ip])))
      BY <1>2, <2>1, <2>3 DEF AreSums
    <3>3. SameNumbers(ran', Concat(sums[ip - 1], One(program.code[ip])))
      BY <2>2, <3>1, SameSums DEF SameNumbers
    <3> QED
      BY <3>2, <3>3 DEF SameNumbers
  <2>4. status' = "halted" => ip = Len(program.code)
    BY <1>1, <1>4, <2>1 DEF Forward, Now
  <2>5. ip' \in 1..(Len(program.code) + 1)
    BY <1>2, <1>4, <2>1
  <2>6. (IF status' = "halted" THEN ip' ELSE ip' - 1) = ip
    BY <1>2, <1>4, <2>1
  <2> QED
    BY <1>1, <1>4, <2>1, <2>3, <2>4, <2>5, <2>6 DEF Along
<1>5. ASSUME Running PROVE status = "running"
  BY <1>5 DEF Running
<1>6. CASE Compute \/ Exchanges \/ Works \/ Asks \/ Store \/ CodeCopy
  <2>1. Ready /\ Executes /\ ip' = ip + 1 /\ status' = status
    BY <1>6 DEF Compute, Exchanges, Works, Asks, Store, CodeCopy, GoesOn
  <2>2. status = "running"
    BY <2>1 DEF Ready, Fetched, Running
  <2> QED
    BY <1>4, <2>1, <2>2
<1>7. CASE Halt
  BY <1>4, <1>7 DEF Halt
<1>8. CASE Jump \/ Move \/ FallThrough
  <2>1. Now.op \in {"JUMP", "JUMPI", "RJUMP", "RJUMPI"} /\ ip \in DOMAIN program.code
    BY <1>8 DEF Jump, Move, FallThrough, Jumps, Moves, Ready, Fetched
  <2> QED
    BY <1>1, <2>1 DEF Forward, Now
<1>9. CASE Stop
  <2>1. /\ UNCHANGED <<program, ip, stack, gas, ran>> /\ status' = Fault /\ status = "running"
    BY <1>9 DEF Stop, Running
  <2>2. Fault # "halted"
    BY DEF Fault
  <2>3. Fault' = Fault
    BY <2>1 DEF Fault, Now, Height, Cost, Top, Jumps, Moves, Dests, Places, At, Target_
  <2> QED
    BY <1>1, <1>3, <2>1, <2>2, <2>3 DEF Along
<1>10. CASE UNCHANGED vars
  <2>1. UNCHANGED <<program, ip, stack, gas, ran, status>>
    BY <1>10 DEF vars, machine
  <2>2. Fault' = Fault
    BY <2>1 DEF Fault, Now, Height, Cost, Top, Jumps, Moves, Dests, Places, At, Target_
  <2> QED
    BY <1>1, <2>1, <2>2 DEF Along
<1> QED
  BY <1>6, <1>7, <1>8, <1>9, <1>10 DEF Next

LEMMA ForwardRuns ==
  ASSUME IInv, Along, Forward(program.code), Declared(program)
  PROVE  DeclaredIsTrue
<1> DEFINE code == program.code
           n == Len(code)
           d == program.declares
<1>1. PICK a \in Bytecodes : AddsUp(a) /\ a.code = code /\ SameNumbers(d, a)
  BY DEF Declared, Built
<1>2. PICK sums : AreSums(sums, code) /\ SameNumbers(sums[n], a)
  BY <1>1 DEF AddsUp
<1>3. Instructions(code) /\ n \in Nat /\ DOMAIN code = 1..n
  BY <1>1 DEF AddsUp, Instructions
<1>4. \A k \in 0..n : Sound(sums[k]) /\ \A j \in 0..k : sums[j].min \in Int /\ sums[j].min <= sums[k].min
  BY <1>2, <1>3, SumsGrow
<1>5. /\ ip \in 1..(n + 1)
      /\ status = "halted" => ip \in DOMAIN code /\ ip = n
      /\ status \notin {"running", "halted"} => status = Fault
      /\ SameNumbers(ran, sums[IF status = "halted" THEN ip ELSE ip - 1])
  BY <1>2 DEF Along
<1>6. Done => SameNumbers(ran, a)
  <2>1. CASE status = "halted"
    BY <1>2, <1>5, <2>1 DEF SameNumbers
  <2>2. CASE status = "end"
    <3>1. Fault = "end"
      BY <1>5, <2>2
    <3>2. ip > n
      BY <3>1 DEF Fault
    <3> QED
      BY <1>2, <1>3, <1>5, <2>2, <3>2 DEF SameNumbers
  <2> QED
    BY <2>1, <2>2 DEF Done
<1>7. Start \in Int
  <2>1. program.stack \in Seq(Int)
    BY ProgramsAssumption DEF IInv
  <2> QED
    BY <2>1 DEF Start
<1>8. /\ Height = Start - ran.pops + ran.pushes /\ lowest = Start - ran.pops
      /\ peak = Start + ran.max - ran.min /\ ran.min <= Start
      /\ status = "underflow" => Start < Concat(ran, This).min
  BY DEF IInv, TraceMetrics
<1>9. d.pops = a.pops /\ d.pushes = a.pushes /\ d.min = a.min /\ d.max = a.max
  BY <1>1 DEF SameNumbers
<1>10. status = "underflow" => Start < d.min
  <2> SUFFICES ASSUME status = "underflow" PROVE Start < d.min
    OBVIOUS
  <2>1. Fault = "underflow" /\ SameNumbers(ran, sums[ip - 1])
    BY <1>5
  <2>2. ip \in 1..n
    BY <1>3, <2>1 DEF Fault
  <2>3. Concat(ran, This).min = sums[ip].min
    <3>1. SameNumbers(Concat(ran, This), Concat(sums[ip - 1], One(code[ip])))
      BY <2>1, SameSums DEF This, Now, One, SameNumbers
    <3> QED
      BY <1>2, <2>2, <3>1 DEF AreSums, SameNumbers
  <2>4. sums[ip].min \in Int /\ sums[ip].min <= sums[n].min /\ sums[n].min \in Int
    BY <1>3, <1>4, <2>2
  <2> QED
    BY <1>2, <1>7, <1>8, <1>9, <2>3, <2>4 DEF SameNumbers
<1>11. ASSUME Done
       PROVE  /\ Height = Start - d.pops + d.pushes /\ peak = Start + d.max - d.min
              /\ Start >= d.min /\ lowest = Start - d.pops
              /\ Start + d.max - d.min \in Int
  <2>1. Sound(a)
    BY <1>2, <1>3, <1>4, SameSound
  <2>2. d.max \in Int /\ d.min \in Int
    BY <1>9, <2>1 DEF Sound
  <2> QED
    BY <1>6, <1>7, <1>8, <1>9, <1>11, <2>2 DEF SameNumbers
<1>12. Done => peak <= Start + d.max - d.min
  BY <1>11
<1> QED
  BY <1>10, <1>11, <1>12 DEF DeclaredIsTrue

\* A bytecode that adds up and does not jump declares what it does: on a stack of its
\* minimum it runs, lower it underflows; it rises to its maximum, ends as high as it says.
THEOREM ForwardIsDeclared ==
    Spec => [](Forward(program.code) /\ Declared(program) => DeclaredIsTrue)
<1>1. ASSUME Init PROVE Along
  <2>1. program.code \in Seq(Instruction)
    BY <1>1, ProgramsAssumption DEF Init
  <2>2. Len(program.code) \in Nat
    BY <2>1
  <2> QED
    BY <1>1, <2>2 DEF Init, Along, AreSums, SameNumbers
<1>2. IInv /\ Along /\ [Next]_vars => Along'
  BY AlongNext
<1>3. IInv /\ Along => (Forward(program.code) /\ Declared(program) => DeclaredIsTrue)
  BY ForwardRuns
<1> QED
  BY <1>1, <1>2, <1>3, Invariance, PTL DEF Spec

\* Every code that generate_repeated_code writes, of any parts and for any limit its
\* overhead keeps, is within the limit and leaves no room for the repeated part.
THEOREM RepeatedFillsTheContract == Spec => [](Fills(program) => FillsTheContract)
<1>1. Fills(program) => FillsTheContract
  <2> SUFFICES ASSUME Fills(program), program.fills # <<>>
               PROVE  LET size == Size(program.code)
                      IN  size <= program.fills[1] /\ size + program.fills[2] >= program.fills[1]
    BY DEF FillsTheContract
  <2>1. PICK setup \in Bytecodes, body \in Bytecodes, cleanup \in Bytecodes, most \in Nat :
           /\ Length(body) > 0 /\ Overhead(setup, cleanup) <= most
           /\ program.code = Repeated(setup, body, cleanup, most).code
           /\ program.fills = <<most, Length(body)>>
    BY DEF Fills
  <2>2. /\ Length(Repeated(setup, body, cleanup, most)) <= most
        /\ Length(Repeated(setup, body, cleanup, most)) + Length(body) >= most
    BY <2>1, RepeatedFills
  <2>3. Size(program.code) = Length(Repeated(setup, body, cleanup, most))
    BY <2>1 DEF Length
  <2> QED
    BY <2>1, <2>2, <2>3
<1> QED
  BY <1>1, PTL

\* A run that is at one of Y is there.
LEMMA LeadsThere ==
  ASSUME NEW C, NEW X, NEW Y, NEW h, NEW W, X \subseteq Y
  PROVE  Leads(C, X, Y, h, W)
<1>1. X \subseteq {} \union Y /\ Closed(C, {}, Y, h, W)
  BY DEF Closed
<1> QED
  BY <1>1, Zenon DEF Leads

\* One step leads to where every successor is.
LEMMA LeadsStep ==
  ASSUME NEW C, NEW X, NEW Y, NEW h, NEW W,
         \A c \in X : Safe(C, c, h, W) /\ After(C, c) \subseteq Y
  PROVE  Leads(C, X, Y, h, W)
<1>1. X \subseteq X \union Y /\ Closed(C, X, Y, h, W)
  BY Zenon DEF Closed
<1> QED
  BY <1>1, Zenon DEF Leads

\* What leads to Y leads to Z if Y does.
LEMMA LeadsOn ==
  ASSUME NEW C, NEW X, NEW Y, NEW Z, NEW h, NEW W, Leads(C, X, Y, h, W), Leads(C, Y, Z, h, W)
  PROVE  Leads(C, X, Z, h, W)
<1>1. PICK I : X \subseteq I \union Y /\ Closed(C, I, Y, h, W)
  BY Zenon DEF Leads
<1>2. PICK J : Y \subseteq J \union Z /\ Closed(C, J, Z, h, W)
  BY Zenon DEF Leads
<1>3. X \subseteq (I \union J) \union Z
  BY <1>1, <1>2, Zenon
<1>4. Closed(C, I \union J, Z, h, W)
  <2> SUFFICES ASSUME NEW c \in I \union J
               PROVE  Safe(C, c, h, W) /\ After(C, c) \subseteq (I \union J) \union Z
    BY Zenon DEF Closed
  <2>1. CASE c \in I
    BY <1>1, <1>2, <2>1, Zenon DEF Closed
  <2>2. CASE c \in J
    BY <1>2, <2>2, Zenon DEF Closed
  <2> QED
    BY <2>1, <2>2, Zenon
<1> QED
  BY <1>3, <1>4, Zenon DEF Leads

\* From fewer places, to more.
LEMMA LeadsWithin ==
  ASSUME NEW C, NEW X, NEW Y, NEW h, NEW W, NEW V, NEW Z, Leads(C, X, Y, h, W), V \subseteq X, Y \subseteq Z
  PROVE  Leads(C, V, Z, h, W)
<1>1. PICK I : X \subseteq I \union Y /\ Closed(C, I, Y, h, W)
  BY Zenon DEF Leads
<1>2. V \subseteq I \union Z /\ Closed(C, I, Z, h, W)
  BY <1>1, Zenon DEF Closed
<1> QED
  BY <1>2, Zenon DEF Leads

\* Where each of some places leads, they all lead.
LEMMA LeadsFromEach ==
  ASSUME NEW C, NEW X, NEW Y, NEW h, NEW W, \A x \in X : Leads(C, {x}, Y, h, W)
  PROVE  Leads(C, X, Y, h, W)
<1> DEFINE On(x, I) == {x} \subseteq I \union Y /\ Closed(C, I, Y, h, W)
           way == [x \in X |-> CHOOSE I : On(x, I)]
           J == UNION {way[x] : x \in X}
<1>1. \A x \in X : On(x, way[x])
  BY Zenon DEF Leads
<1> HIDE DEF way
<1>2. X \subseteq J \union Y
  BY <1>1, Zenon
<1>3. Closed(C, J, Y, h, W)
  <2> SUFFICES ASSUME NEW c \in J PROVE Safe(C, c, h, W) /\ After(C, c) \subseteq J \union Y
    BY Zenon DEF Closed
  <2>1. PICK x \in X : c \in way[x]
    BY Zenon
  <2>2. Safe(C, c, h, W) /\ After(C, c) \subseteq way[x] \union Y
    BY <1>1, <2>1, Zenon DEF Closed
  <2> QED
    BY <2>2, Zenon
<1> HIDE DEF J
<1> QED
  BY <1>2, <1>3, Zenon DEF Leads

\* One turn after the other, each with a first step, for ever.
LEMMA LeadsForEver ==
  ASSUME NEW C, NEW X, NEW Y, NEW h, NEW W,
         \A k \in Nat : \A c \in X[k] : Safe(C, c, h, W) /\ After(C, c) \subseteq Y[k],
         \A k \in Nat : Leads(C, Y[k], X[k + 1], h, W)
  PROVE  Leads(C, X[0], {}, h, W)
<1> DEFINE On(k, I) == Y[k] \subseteq I \union X[k + 1] /\ Closed(C, I, X[k + 1], h, W)
           way == [k \in Nat |-> CHOOSE I : On(k, I)]
           J == UNION {way[k] \union X[k] : k \in Nat}
<1>1. \A k \in Nat : On(k, way[k])
  BY Zenon DEF Leads
<1> HIDE DEF way
<1>2. \A k \in Nat : k + 1 \in Nat /\ X[k + 1] \subseteq J
  OBVIOUS
<1>3. X[0] \subseteq J \union {}
  OBVIOUS
<1>4. Closed(C, J, {}, h, W)
  <2> SUFFICES ASSUME NEW c \in J PROVE Safe(C, c, h, W) /\ After(C, c) \subseteq J
    BY Zenon DEF Closed
  <2>1. PICK k \in Nat : c \in way[k] \/ c \in X[k]
    OBVIOUS
  <2>2. way[k] \subseteq J
    OBVIOUS
  <2> HIDE DEF J
  <2>3. CASE c \in way[k]
    <3>1. Safe(C, c, h, W) /\ After(C, c) \subseteq way[k] \union X[k + 1]
      BY <1>1, <2>3, Zenon DEF Closed
    <3> QED
      BY <1>2, <2>2, <3>1, Zenon
  <2>4. CASE c \in X[k]
    <3>1. Safe(C, c, h, W) /\ After(C, c) \subseteq way[k] \union X[k + 1]
      BY <1>1, <2>4, Zenon
    <3> QED
      BY <1>2, <2>2, <3>1, Zenon
  <2> QED
    BY <2>1, <2>3, <2>4
<1> HIDE DEF J
<1> QED
  BY <1>3, <1>4, Zenon DEF Leads

\* One turn after the other, n of them.
LEMMA LeadsInTurns ==
  ASSUME NEW C, NEW X, NEW h, NEW W, NEW n \in Nat,
         \A k \in 0..(n - 1) : Leads(C, X[k], X[k + 1], h, W)
  PROVE  Leads(C, X[0], X[n], h, W)
<1> DEFINE bad == {k \in 0..n : ~Leads(C, X[0], X[k], h, W)}
<1>1. Leads(C, X[0], X[0], h, W)
  BY LeadsThere
<1>2. ASSUME NEW k \in 0..(n - 1), Leads(C, X[0], X[k], h, W)
      PROVE  Leads(C, X[0], X[k + 1], h, W)
  BY <1>2, LeadsOn, Zenon
<1>3. bad = {}
  <2> SUFFICES ASSUME bad # {} PROVE FALSE
    OBVIOUS
  <2>1. Min(bad) \in bad /\ \A j \in bad : Min(bad) <= j
    <3>1. bad \subseteq Nat
      OBVIOUS
    <3> HIDE DEF bad
    <3> QED
      BY <3>1, LeastNat
  <2> DEFINE k == Min(bad)
  <2>2. k # 0 /\ k \in 0..n
    BY <1>1, <2>1
  <2> HIDE DEF k
  <2>3. k - 1 \in 0..(n - 1) /\ k - 1 \in 0..n /\ k - 1 + 1 = k
    BY <2>2
  <2>4. k - 1 \notin bad
    BY <2>1, <2>2 DEF k
  <2>5. Leads(C, X[0], X[k], h, W)
    BY <1>2, <2>3, <2>4
  <2> QED
    BY <2>1, <2>5 DEF k
<1> QED
  BY <1>3

\* The fields of the place of the run.
LEMMA SpotIs ==
  /\ Spot.stack = stack /\ Spot.left = left /\ Spot.marks = marks
  /\ Spot.books.gas = gas /\ Spot.books.memory = memory /\ Spot.books.result = result
  /\ status # "halted" => Spot.ip = ip
  /\ status = "halted" => Spot.ip = 0
BY DEF Spot, Place

\* An executed instruction goes to one of the places after its own.
LEMMA SpotNext ==
  ASSUME status = "running", Ready, Executes,
         stack' = StackAfter(program.code, Spot), left' = LeftAfter(program.code, Spot),
         marks' = MarksAfter(program.code, Spot),
         memory' = BooksAfter(program.code, Spot).memory,
         result' = BooksAfter(program.code, Spot).result,
         (IF status' = "halted" THEN 0 ELSE ip') \in Follows(program.code, Spot)
  PROVE  Spot' \in After(program.code, Spot)
<1> DEFINE C == program.code
           c == Spot
<1>1. c.ip = ip /\ c.stack = stack /\ c.books.gas = gas
  BY SpotIs
<1>2. C[c.ip] = Now
  BY <1>1 DEF Now
<1>3. Charge(C, c) = Cost
  BY <1>1, <1>2 DEF Charge, Cost, FromTop, Top
<1>4. gas' = BooksAfter(C, c).gas
  BY <1>1, <1>3 DEF BooksAfter, Executes
<1>5. BooksAfter(C, c) = [gas |-> BooksAfter(C, c).gas, memory |-> BooksAfter(C, c).memory,
                          result |-> BooksAfter(C, c).result]
  BY DEF BooksAfter
<1>6. [gas |-> gas', memory |-> memory', result |-> result'] = BooksAfter(C, c)
  BY <1>4, <1>5
<1>7. Spot' = Place(IF status' = "halted" THEN 0 ELSE ip', stack', left', marks',
                    [gas |-> gas', memory |-> memory', result |-> result'])
  BY DEF Spot, Place
<1>8. Spot' = Place(IF status' = "halted" THEN 0 ELSE ip', StackAfter(C, c), LeftAfter(C, c),
                    MarksAfter(C, c), BooksAfter(C, c))
  BY <1>6, <1>7
<1> QED
  BY <1>8 DEF After

\* Every step but the last is such an execution.
LEMMA Followed ==
  ASSUME status = "running", ip \in Nat, ip # 0, Next, ~Stop, program.code \in Seq(Instruction)
  PROVE  /\ Spot' \in After(program.code, Spot)
         /\ Ready /\ Executes /\ status' \in {"running", "halted"} /\ ip' \in Nat
         /\ ip' # 0
<1> DEFINE C == program.code
           c == Spot
<1>1. /\ c.ip = ip /\ c.stack = stack /\ c.left = left /\ c.marks = marks /\ c.books.gas = gas
      /\ c.books.memory = memory /\ c.books.result = result
  BY SpotIs
<1>2. C[c.ip] = Now /\ Offset(C, c.ip) = At(ip) /\ Len(c.stack) = Height
  BY <1>1 DEF Now, Offset, At, Height
<1>3. \A n : FromTop(c.stack, n) = Top(n)
  BY <1>1 DEF FromTop, Top
<1>4. \A n : DestsAt(C, n) = Dests(n) /\ PlacesAt(C, n) = Places(n)
  BY DEF DestsAt, Dests, PlacesAt, Places, Offset, At
<1> DEFINE v == Given(C, c)
<1>5. ASSUME Leaves(v), Now.op # "SWAP" PROVE stack' = StackAfter(C, c)
  BY <1>1, <1>2, <1>5 DEF Leaves, StackAfter, Popped, Height
<1>6. Now.op \notin {"PUSH", "PC", "GAS", "DUP", "ADD", "SUB", "COND"} => v = 0
  BY <1>2 DEF Given
<1> HIDE DEF c, C, v
<1>7. DOMAIN C \subseteq Nat \ {0} /\ ip + 1 \in Nat /\ ip + 1 # 0
  <2>1. C \in Seq(Instruction)
    BY DEF C
  <2> QED
    BY <2>1
<1>8. ASSUME Ready, Executes, stack' = StackAfter(C, c), left' = LeftAfter(C, c),
             marks' = MarksAfter(C, c), memory' = BooksAfter(C, c).memory,
             result' = BooksAfter(C, c).result,
             (IF status' = "halted" THEN 0 ELSE ip') \in Follows(C, c)
      PROVE  Spot' \in After(C, c)
  BY <1>8, SpotNext DEF c, C
<1>9. /\ Now.op # "COND" => LeftAfter(C, c) = left
      /\ Now.op \notin {"WORK", "COND"} => MarksAfter(C, c) = marks
      /\ Now.op # "CODECOPY" => BooksAfter(C, c).memory = memory
      /\ Now.op \notin {"SSTORE", "RETURN"} => BooksAfter(C, c).result = result
  BY <1>1, <1>2 DEF LeftAfter, MarksAfter, BooksAfter
<1>10. /\ Now.op \notin {"JUMP", "JUMPI", "RJUMP", "RJUMPI", "STOP", "RETURN"} => Follows(C, c) = {ip + 1}
       /\ Now.op \in {"JUMPI", "RJUMPI"} /\ ~Jumps /\ ~Moves => Follows(C, c) = {ip + 1}
       /\ Jumps => Follows(C, c) = Dests(Top(1))
       /\ Moves => Follows(C, c) = Places(Target_)
       /\ Now.op \in {"STOP", "RETURN"} => Follows(C, c) = {0}
  BY <1>1, <1>2, <1>3, <1>4 DEF Follows, Jumps, Moves, Target_
<1>11. CASE Compute
  <2>1. v = Value
    BY <1>1, <1>2, <1>3, <1>11 DEF Compute, Given, Value, Special, v
  <2>2. Leaves(v) /\ Now.op \notin Special /\ Ready /\ Executes /\ GoesOn /\ Quiet
    BY <1>11, <2>1 DEF Compute
  <2> QED
    BY <1>5, <1>7, <1>8, <1>9, <1>10, <2>2 DEF Special, GoesOn, Quiet, C, c
<1>12. CASE Exchanges
  <2>1. stack' = StackAfter(C, c)
    BY <1>1, <1>2, <1>12 DEF Exchanges, StackAfter, Height
  <2> QED
    BY <1>7, <1>8, <1>9, <1>10, <1>12, <2>1 DEF Exchanges, GoesOn, Quiet, C, c
<1>13. CASE Works
  <2>1. stack' = StackAfter(C, c) /\ marks' = MarksAfter(C, c)
    BY <1>1, <1>2, <1>5, <1>6, <1>13 DEF Works, MarksAfter
  <2> QED
    BY <1>7, <1>8, <1>9, <1>10, <1>13, <2>1 DEF Works, GoesOn, C, c
<1>14. CASE Asks
  <2>1. v = IF left[Now.arg] > 0 THEN 1 ELSE 0
    BY <1>1, <1>2, <1>14 DEF Asks, Given, v
  <2>2. stack' = StackAfter(C, c)
    BY <1>5, <1>14, <2>1 DEF Asks
  <2>3. marks' = MarksAfter(C, c) /\ left' = LeftAfter(C, c)
    BY <1>1, <1>2, <1>14 DEF Asks, MarksAfter, LeftAfter
  <2> QED
    BY <1>7, <1>8, <1>9, <1>10, <1>14, <2>2, <2>3 DEF Asks, GoesOn, C, c
<1>15. CASE Jump
  <2>1. Jumps /\ Now.op \in {"JUMP", "JUMPI"} /\ Leaves(v) /\ ip' \in Dests(Top(1))
    BY <1>6, <1>15 DEF Jump, Jumps
  <2>2. Dests(Top(1)) \subseteq DOMAIN C
    BY DEF Dests, Places, C
  <2> QED
    BY <1>5, <1>7, <1>8, <1>9, <1>10, <1>15, <2>1, <2>2 DEF Jump, Quiet, C, c
<1>16. CASE Move
  <2>1. Moves /\ Now.op \in {"RJUMP", "RJUMPI"} /\ Leaves(v) /\ ip' \in Places(Target_)
    BY <1>6, <1>16 DEF Move, Moves
  <2>2. Places(Target_) \subseteq DOMAIN C
    BY DEF Places, C
  <2> QED
    BY <1>5, <1>7, <1>8, <1>9, <1>10, <1>16, <2>1, <2>2 DEF Move, Quiet, C, c
<1>17. CASE FallThrough
  <2>1. Now.op \in {"JUMPI", "RJUMPI"} /\ ~Jumps /\ ~Moves /\ Leaves(v)
    BY <1>6, <1>17 DEF FallThrough
  <2> QED
    BY <1>5, <1>7, <1>8, <1>9, <1>10, <1>17, <2>1 DEF FallThrough, GoesOn, Quiet, C, c
<1>18. CASE Store
  <2>1. Leaves(v) /\ result' = BooksAfter(C, c).result
    BY <1>1, <1>2, <1>3, <1>6, <1>18 DEF Store, BooksAfter
  <2> QED
    BY <1>5, <1>7, <1>8, <1>9, <1>10, <1>18, <2>1 DEF Store, GoesOn, C, c
<1>19. CASE CodeCopy
  <2>1. Leaves(v) /\ memory' = BooksAfter(C, c).memory
    BY <1>1, <1>2, <1>3, <1>6, <1>19 DEF CodeCopy, BooksAfter
  <2> QED
    BY <1>5, <1>7, <1>8, <1>9, <1>10, <1>19, <2>1 DEF CodeCopy, GoesOn, C, c
<1>20. CASE Halt
  <2>1. Leaves(v) /\ result' = BooksAfter(C, c).result
    BY <1>1, <1>2, <1>3, <1>6, <1>20 DEF Halt, BooksAfter
  <2> QED
    BY <1>5, <1>7, <1>8, <1>9, <1>10, <1>20, <2>1 DEF Halt, C, c
<1> QED
  BY <1>11, <1>12, <1>13, <1>14, <1>15, <1>16, <1>17, <1>18, <1>19, <1>20 DEF Next, C, c

\* The fields of a code have their types.
LEMMA CodesAre ==
  ASSUME NEW a \in Codes
  PROVE  /\ a \in Bytecodes /\ Sound(a) /\ a.code \in Seq(Instruction) /\ Len(a.code) \in Nat
         /\ a.pops \in Nat /\ a.pushes \in Nat /\ a.min \in Nat /\ a.max \in Nat /\ Length(a) \in Nat
<1>1. a \in Bytecodes /\ Sound(a)
  BY DEF Codes
<1>2. a.code \in Seq(Instruction)
  BY <1>1 DEF Bytecodes
<1> QED
  BY <1>1, <1>2, SizeAdds DEF Sound, Length

\* A sum of codes is a code, as long as both.
LEMMA ConcatCodes ==
  ASSUME NEW a \in Codes, NEW b \in Codes
  PROVE  /\ Concat(a, b) \in Codes /\ Concat(a, b).code = a.code \o b.code
         /\ Len(Concat(a, b).code) = Len(a.code) + Len(b.code)
         /\ Length(Concat(a, b)) = Length(a) + Length(b)
         /\ Concat(a, b).pushes - Concat(a, b).pops = a.pushes - a.pops + b.pushes - b.pops
<1>1. /\ a \in Bytecodes /\ b \in Bytecodes /\ Sound(a) /\ Sound(b)
      /\ a.code \in Seq(Instruction) /\ b.code \in Seq(Instruction)
  BY CodesAre
<1>2. Concat(a, b) \in Bytecodes /\ SumOf(Concat(a, b), a, b) /\ Length(Concat(a, b)) = Length(a) + Length(b)
  BY <1>1, ConcatBytecode, ConcatSound, LengthAdds
<1>3. Concat(a, b).code = a.code \o b.code
  BY DEF Concat
<1>4. Takes_room(a.code \o b.code)
  <2>1. /\ Len(a.code \o b.code) = Len(a.code) + Len(b.code)
        /\ \A k \in 1..(Len(a.code) + Len(b.code)) :
              (a.code \o b.code)[k] = IF k <= Len(a.code) THEN a.code[k] ELSE b.code[k - Len(a.code)]
        /\ a.code \o b.code \in Seq(Instruction)
    BY <1>1, ConcatProperties
  <2>2. Takes_room(a.code) /\ Takes_room(b.code)
    BY DEF Codes
  <2>3. DOMAIN (a.code \o b.code) = 1..(Len(a.code) + Len(b.code))
    BY <2>1
  <2>4. ASSUME NEW k \in 1..(Len(a.code) + Len(b.code)) PROVE (a.code \o b.code)[k].size > 0
    <3>1. CASE k <= Len(a.code)
      <4>1. (a.code \o b.code)[k] = a.code[k] /\ k \in DOMAIN a.code
        BY <1>1, <2>1, <3>1
      <4> QED
        BY <2>2, <4>1 DEF Takes_room
    <3>2. CASE k > Len(a.code)
      <4>1. (a.code \o b.code)[k] = b.code[k - Len(a.code)] /\ k - Len(a.code) \in DOMAIN b.code
        <5>1. Len(a.code) \in Nat /\ Len(b.code) \in Nat /\ DOMAIN b.code = 1..Len(b.code)
          BY <1>1
        <5> DEFINE x == Len(a.code)
                   y == Len(b.code)
        <5>2. x \in Nat /\ y \in Nat /\ k \in 1..(x + y) /\ k > x
          BY <3>2, <5>1
        <5>3. k - x \in 1..y /\ ~(k <= x)
          <6> HIDE DEF x, y
          <6> QED
            BY <5>2
        <5> QED
          BY <2>1, <5>1, <5>3
      <4> QED
        BY <2>2, <4>1 DEF Takes_room
    <3> QED
      BY <1>1, <3>1, <3>2
  <2> QED
    BY <2>3, <2>4 DEF Takes_room
<1>5. Len(a.code \o b.code) = Len(a.code) + Len(b.code)
  BY <1>1
<1> QED
  BY <1>1, <1>2, <1>3, <1>4, <1>5 DEF Codes, SumOf

\* Where a sum stands its parts stand, and they find the stack they need.
LEMMA SpansParts ==
  ASSUME NEW a \in Codes, NEW b \in Codes, NEW C, NEW k, NEW n, NEW h, Spans(Concat(a, b), C, k, n, h)
  PROVE  /\ Spans(a, C, k, n, h)
         /\ Spans(b, C, k + Len(a.code), n + a.pushes - a.pops, h)
<1> DEFINE c == Concat(a, b)
<1>1. /\ a.code \in Seq(Instruction) /\ b.code \in Seq(Instruction)
      /\ Len(a.code) \in Nat /\ Len(b.code) \in Nat
      /\ a.pops \in Nat /\ a.pushes \in Nat /\ a.min \in Nat /\ a.max \in Nat
      /\ b.pops \in Nat /\ b.pushes \in Nat /\ b.min \in Nat /\ b.max \in Nat /\ a.pops <= a.min
  BY CodesAre DEF Sound
<1>2. c.code = a.code \o b.code /\ Len(c.code) = Len(a.code) + Len(b.code)
  BY ConcatCodes, Zenon
<1>3. /\ \A j \in 1..(Len(a.code) + Len(b.code)) :
            c.code[j] = IF j <= Len(a.code) THEN a.code[j] ELSE b.code[j - Len(a.code)]
  BY <1>1, <1>2, ConcatProperties
<1>4. /\ c.min \in Nat /\ c.max \in Nat
      /\ c.min = AtLeast(a.min, b.min + a.pops - a.pushes)
      /\ c.max - c.min = AtLeast(a.max - a.min, b.max - b.min + a.pushes - a.pops)
  BY CodesAre, ConcatSound DEF SumOf, Sound
<1> DEFINE x == Len(a.code)
           y == Len(b.code)
<1> HIDE DEF c
<1>5. /\ C \in Seq(Instruction) /\ Takes_room(C) /\ k \in Nat /\ k + (x + y) <= Len(C)
      /\ \A j \in 1..(x + y) : C[k + j] = c.code[j]
      /\ n \in Nat /\ h \in Int /\ c.min <= n /\ n + c.max - c.min <= h
  BY <1>2 DEF Spans, Stands, c
<1>6. x \in Nat /\ y \in Nat /\ Len(C) \in Nat
  BY <1>1, <1>5
<1>10. \A j \in 1..(x + y) : c.code[j] = IF j <= x THEN a.code[j] ELSE b.code[j - x]
  BY <1>3
<1> HIDE DEF x, y
<1>7. /\ \A j \in 1..x : c.code[j] = a.code[j]
      /\ \A j \in 1..y : c.code[x + j] = b.code[j]
  <2>1. ASSUME NEW j \in 1..y PROVE c.code[x + j] = b.code[j]
    <3>1. x + j \in 1..(x + y) /\ ~(x + j <= x) /\ (x + j) - x = j
      BY <1>6
    <3>2. c.code[x + j] = IF x + j <= x THEN a.code[x + j] ELSE b.code[(x + j) - x]
      BY <1>10, <3>1, Zenon
    <3> QED
      BY <3>1, <3>2, Zenon
  <2>2. ASSUME NEW j \in 1..x PROVE c.code[j] = a.code[j]
    <3>1. j \in 1..(x + y) /\ j <= x
      BY <1>6
    <3> QED
      BY <1>10, <3>1
  <2> QED
    BY <2>1, <2>2
<1>8. /\ k + x <= Len(C) /\ \A j \in 1..x : C[k + j] = a.code[j]
      /\ k + x \in Nat /\ k + x + y <= Len(C) /\ \A j \in 1..y : C[k + x + j] = b.code[j]
  <2>1. ASSUME NEW j \in 1..y PROVE C[k + x + j] = b.code[j]
    <3>1. x + j \in 1..(x + y) /\ k + (x + j) = k + x + j
      BY <1>5, <1>6
    <3> QED
      BY <1>5, <1>7, <3>1
  <2>2. ASSUME NEW j \in 1..x PROVE C[k + j] = a.code[j]
    <3>1. j \in 1..(x + y)
      BY <1>6
    <3> QED
      BY <1>5, <1>7, <3>1
  <2> QED
    BY <1>5, <1>6, <2>1, <2>2
<1>9. /\ a.min <= n /\ n + a.max - a.min <= h
      /\ n + a.pushes - a.pops \in Nat /\ b.min <= n + a.pushes - a.pops
      /\ n + a.pushes - a.pops + b.max - b.min <= h
  <2> DEFINE cm == c.min
             cx == c.max
  <2>1. /\ cm \in Nat /\ cx \in Nat /\ cm = AtLeast(a.min, b.min + a.pops - a.pushes)
        /\ cx - cm = AtLeast(a.max - a.min, b.max - b.min + a.pushes - a.pops)
        /\ n \in Nat /\ h \in Int /\ cm <= n /\ n + cx - cm <= h
    BY <1>4, <1>5, Zenon
  <2> DEFINE ap == a.pops
             aq == a.pushes
             am == a.min
             ax == a.max
             bp == b.pops
             bq == b.pushes
             bm == b.min
             bx == b.max
  <2>2. /\ ap \in Nat /\ aq \in Nat /\ am \in Nat /\ ax \in Nat /\ ap <= am
        /\ bp \in Nat /\ bq \in Nat /\ bm \in Nat /\ bx \in Nat
    BY <1>1
  <2> HIDE DEF cm, cx, ap, aq, am, ax, bp, bq, bm, bx
  <2>3. cm = AtLeast(am, bm + ap - aq) /\ cx - cm = AtLeast(ax - am, bx - bm + aq - ap)
    BY <2>1 DEF ap, aq, am, ax, bp, bq, bm, bx
  <2>4. /\ am <= n /\ n + ax - am <= h
        /\ n + aq - ap \in Nat /\ bm <= n + aq - ap /\ n + aq - ap + bx - bm <= h
    BY <2>1, <2>2, <2>3 DEF AtLeast
  <2> QED
    BY <2>4 DEF ap, aq, am, ax, bp, bq, bm, bx
<1> QED
  BY <1>5, <1>8, <1>9 DEF Spans, Stands, x, y

\* The bytes before a place, over the code that stands there.
LEMMA OffsetAdds ==
  ASSUME NEW a \in Codes, NEW C, NEW k, NEW n, NEW h, Spans(a, C, k, n, h)
  PROVE  /\ Offset(C, k + 1) \in Nat
         /\ Offset(C, k + Len(a.code) + 1) = Offset(C, k + 1) + Length(a)
<1>1. a.code \in Seq(Instruction) /\ Len(a.code) \in Nat
  BY CodesAre
<1> DEFINE l == Len(a.code)
           s == SubSeq(C, 1, k)
           t == SubSeq(C, 1, k + l)
<1>2. /\ C \in Seq(Instruction) /\ k \in Nat /\ k + l <= Len(C) /\ l \in Nat
      /\ \A j \in 1..l : C[k + j] = a.code[j]
  BY <1>1 DEF Spans, Stands
<1>3. s \in Seq(Instruction) /\ Len(s) = k /\ \A j \in 1..k : s[j] = C[j]
  BY <1>2, SubSeqProperties
<1>4. t \in Seq(Instruction) /\ Len(t) = k + l /\ \A j \in 1..(k + l) : t[j] = C[j]
  BY <1>2, SubSeqProperties
<1>5. /\ s \o a.code \in Seq(Instruction) /\ Len(s \o a.code) = k + l
      /\ \A j \in 1..(k + l) : (s \o a.code)[j] = IF j <= k THEN s[j] ELSE a.code[j - k]
  BY <1>1, <1>3, ConcatProperties
<1> HIDE DEF s, t, l
<1>6. ASSUME NEW j \in 1..(k + l) PROVE t[j] = (s \o a.code)[j]
  <2>1. CASE j <= k
    <3>1. j \in 1..k
      BY <1>2, <2>1
    <3>2. t[j] = C[j] /\ s[j] = C[j] /\ (s \o a.code)[j] = s[j]
      BY <1>3, <1>4, <1>5, <2>1, <3>1
    <3> QED
      BY <3>2
  <2>2. CASE j > k
    <3>1. j - k \in 1..l /\ k + (j - k) = j /\ ~(j <= k)
      BY <1>2, <2>2
    <3>2. C[j] = a.code[j - k]
      BY <1>2, <3>1
    <3> QED
      BY <1>4, <1>5, <3>1, <3>2
  <2>3. j <= k \/ j > k
    <3>1. k \in Nat /\ l \in Nat
      BY <1>2
    <3> QED
      BY <3>1
  <2> QED
    BY <2>1, <2>2, <2>3
<1>7. t = s \o a.code
  BY <1>4, <1>5, <1>6, SeqEqual
<1>8. Size(t) = Size(s) + Size(a.code) /\ Size(s) \in Nat
  BY <1>1, <1>3, <1>7, SizeAdds
<1>9. (k + 1) - 1 = k /\ (k + l + 1) - 1 = k + l
  BY <1>2
<1>10. Offset(C, k + 1) = Size(s)
  <2>1. Offset(C, k + 1) = Size(SubSeq(C, 1, (k + 1) - 1))
    BY DEF Offset
  <2>2. SubSeq(C, 1, (k + 1) - 1) = s
    BY <1>9, Zenon DEF s
  <2> QED
    BY <2>1, <2>2, Zenon
<1>11. Offset(C, k + l + 1) = Size(t)
  <2>1. Offset(C, k + l + 1) = Size(SubSeq(C, 1, (k + l + 1) - 1))
    BY DEF Offset
  <2>2. SubSeq(C, 1, (k + l + 1) - 1) = t
    BY <1>9, Zenon DEF t
  <2> QED
    BY <2>1, <2>2, Zenon
<1> QED
  BY <1>8, <1>10, <1>11 DEF Length, l

\* No two places have the same offset.
LEMMA OffsetsDiffer ==
  ASSUME NEW C \in Seq(Instruction), Takes_room(C), NEW j \in DOMAIN C, NEW k \in DOMAIN C,
         Offset(C, j) = Offset(C, k)
  PROVE  j = k
<1> SUFFICES ASSUME NEW i \in DOMAIN C, NEW l \in DOMAIN C, i < l PROVE Offset(C, i) # Offset(C, l)
  <2>1. j \in Nat /\ k \in Nat
    BY LenProperties
  <2> QED
    BY <2>1
<1>1. PICK u : Totals(u, C) /\ u[Len(C)] = Size(C)
  BY SizeTotals
<1>2. Len(C) \in Nat /\ DOMAIN C = 1..Len(C)
  OBVIOUS
<1>3. \A x \in 0..Len(C) : u[x] \in Nat
  BY <1>1, TotalsAgree
<1>4. ASSUME NEW x \in DOMAIN C PROVE Offset(C, x) = u[x - 1]
  <2> DEFINE s == SubSeq(C, 1, x - 1)
  <2>1. /\ s \in Seq(Instruction) /\ Len(s) = x - 1 /\ \A y \in 1..(x - 1) : s[y] = C[y]
        /\ x - 1 \in 0..(x - 1)
    BY <1>2, SubSeqProperties
  <2> HIDE DEF s
  <2>2. PICK v : Totals(v, s) /\ v[Len(s)] = Size(s)
    BY <2>1, SizeTotals
  <2>3. Totals(u, s)
    BY <1>1, <1>2, <2>1 DEF Totals
  <2>4. u[x - 1] = v[x - 1]
    BY <2>1, <2>2, <2>3, TotalsAgree
  <2> QED
    BY <2>1, <2>2, <2>4 DEF Offset, s
<1>5. \A x \in 1..Len(C) : u[x - 1] < u[x]
  <2> SUFFICES ASSUME NEW x \in 1..Len(C) PROVE u[x - 1] < u[x]
    OBVIOUS
  <2>1. C[x].size > 0 /\ C[x].size \in Nat
    <3>1. x \in DOMAIN C /\ C[x] \in Instruction
      BY <1>2
    <3> QED
      BY <3>1 DEF Takes_room, Instruction
  <2>2. u[x] = u[x - 1] + C[x].size /\ u[x - 1] \in Nat
    BY <1>1, <1>2, <1>3 DEF Totals
  <2> QED
    BY <2>1, <2>2
<1> DEFINE bad == {x \in i..(l - 1) : ~(u[i - 1] < u[x])}
<1>6. bad = {}
  <2> SUFFICES ASSUME bad # {} PROVE FALSE
    OBVIOUS
  <2> DEFINE x == Min(bad)
  <2>1. x \in bad /\ \A y \in bad : x <= y
    <3>1. bad \subseteq Nat
      BY <1>2
    <3> HIDE DEF bad
    <3> QED
      BY <3>1, LeastNat
  <2> HIDE DEF x
  <2>2. x \in i..(l - 1) /\ x \in 1..Len(C) /\ u[x - 1] < u[x]
    BY <1>2, <1>5, <2>1
  <2>3. x # i
    BY <2>1, <2>2
  <2>4. x - 1 \in i..(l - 1) /\ x - 1 \notin bad
    BY <1>2, <2>1, <2>2, <2>3
  <2>5. u[i - 1] < u[x - 1] /\ u[i - 1] \in Nat /\ u[x - 1] \in Nat /\ u[x] \in Nat
    BY <1>2, <1>3, <2>2, <2>4
  <2> QED
    BY <2>1, <2>2, <2>5
<1>7. u[i - 1] < u[l - 1] /\ u[i - 1] \in Nat /\ u[l - 1] \in Nat
  BY <1>2, <1>3, <1>6, SMTT(30)
<1> QED
  BY <1>4, <1>7

\* A jump to where a jump destination stands goes there and nowhere else.
LEMMA OnlyDest ==
  ASSUME NEW C \in Seq(Instruction), Takes_room(C), NEW q \in DOMAIN C, NEW n, n = Offset(C, q)
  PROVE  /\ PlacesAt(C, n) = {q}
         /\ C[q].op = "JUMPDEST" => DestsAt(C, n) = {q}
<1>1. \A k \in DOMAIN C : Offset(C, k) = n => k = q
  BY OffsetsDiffer
<1> QED
  BY <1>1 DEF PlacesAt, DestsAt

\* What is in the first part of the table is in both together.
LEMMA NamesOfFirst ==
  ASSUME NEW f, NEW g, NEW names, names \subseteq DOMAIN f
  PROVE  names \subseteq DOMAIN (f ++ g)
BY DEF ++

\* So is what is in the second.
LEMMA NamesOfSecond ==
  ASSUME NEW f, NEW g, NEW names, names \subseteq DOMAIN g
  PROVE  names \subseteq DOMAIN (f ++ g)
BY DEF ++

\* Two parts of the table that agree with the opcodes do so together.
LEMMA FindsInBoth ==
  ASSUME NEW f, NEW g, Finds(f), Finds(g)
  PROVE  Finds(f ++ g)
<1> DEFINE t == f ++ g
<1>1. /\ DOMAIN t = DOMAIN f \union DOMAIN g
      /\ \A x \in DOMAIN t : t[x] = IF x \in DOMAIN f THEN f[x] ELSE g[x]
  BY DEF ++
<1> HIDE DEF t
<1>2. Finds(t)
  BY <1>1, SMTT(30) DEF Finds
<1> QED
  BY <1>2 DEF t

\* Every opcode of the table that the generators use is as in opcodes.py.
LEMMA TableFinds == Finds(Table)
<1>1. Finds(Computing)
  <2>1. /\ Finds(Arithmetic) /\ Finds(SignedArithmetic) /\ Finds(PowersAndOrder)
        /\ Finds(Comparison)
    BY SMTT(30) DEF Finds, Arithmetic, SignedArithmetic, PowersAndOrder, Comparison
  <2> QED
    BY <2>1, FindsInBoth, Zenon DEF Computing
<1>2. Finds(Surroundings)
  <2>1. /\ Finds(BitLogic) /\ Finds(ShiftsAndHash) /\ Finds(CallerFields) /\ Finds(OwnCode)
    BY SMTT(30) DEF Finds, BitLogic, ShiftsAndHash, CallerFields, OwnCode
  <2> QED
    BY <2>1, FindsInBoth, Zenon DEF Surroundings
<1>3. Finds(Chain)
  <2>1. /\ Finds(OtherCode) /\ Finds(BlockFields) /\ Finds(ChainFields) /\ Finds(Memory)
    BY SMTT(30) DEF Finds, OtherCode, BlockFields, ChainFields, Memory
  <2> QED
    BY <2>1, FindsInBoth, Zenon DEF Chain
<1>4. Finds(Control)
  <2>1. /\ Finds(StorageAndJumps) /\ Finds(Position) /\ Finds(Transient)
    BY SMTT(30) DEF Finds, StorageAndJumps, Position, Transient
  <2> QED
    BY <2>1, FindsInBoth, Zenon DEF Control
<1>5. Finds(Pushing)
  <2>1. /\ Finds(Push1To5) /\ Finds(Push6To10) /\ Finds(Push11To15) /\ Finds(Push16To20)
        /\ Finds(Push21To25) /\ Finds(Push26To30) /\ Finds(Push31To32)
    BY SMTT(30) DEF Finds, Push1To5, Push6To10, Push11To15, Push16To20, Push21To25, Push26To30,
      Push31To32
  <2> QED
    BY <2>1, FindsInBoth, Zenon DEF Pushing
<1>6. Finds(Copying)
  <2>1. /\ Finds(Dup1To4) /\ Finds(Dup5To8) /\ Finds(Dup9To12) /\ Finds(Dup13To16)
    BY SMTT(30) DEF Finds, Dup1To4, Dup5To8, Dup9To12, Dup13To16
  <2> QED
    BY <2>1, FindsInBoth, Zenon DEF Copying
<1>7. Finds(Swapping)
  <2>1. /\ Finds(Swap1To4) /\ Finds(Swap5To8) /\ Finds(Swap9To12) /\ Finds(Swap13To16)
    BY SMTT(30) DEF Finds, Swap1To4, Swap5To8, Swap9To12, Swap13To16
  <2> QED
    BY <2>1, FindsInBoth, Zenon DEF Swapping
<1>8. Finds(Eof)
  <2>1. /\ Finds(Logs) /\ Finds(LogAndEofData) /\ Finds(RelativeJumps) /\ Finds(EofStack)
        /\ Finds(EofCreation)
    BY SMTT(30) DEF Finds, Logs, LogAndEofData, RelativeJumps, EofStack, EofCreation
  <2> QED
    BY <2>1, FindsInBoth, Zenon DEF Eof
<1>9. Finds(Calling)
  <2>1. /\ Finds(Calls) /\ Finds(Returns) /\ Finds(EofCalls) /\ Finds(StaticCalls)
        /\ Finds(Halting)
    BY SMTT(30) DEF Finds, Calls, Returns, EofCalls, StaticCalls, Halting
  <2> QED
    BY <2>1, FindsInBoth, Zenon DEF Calling
<1> QED
  BY <1>1, <1>2, <1>3, <1>4, <1>5, <1>6, <1>7, <1>8, <1>9, FindsInBoth, Zenon DEF Table

\* The table has the opcodes that the generators use, as they are.
LEMMA TableHas == Has(Table, Used)
<1>1. {"STOP", "ADD", "SUB"} \subseteq DOMAIN Computing
  <2>1. {"STOP", "ADD", "SUB"} \subseteq DOMAIN Arithmetic
    BY DEF Arithmetic
  <2> QED
    BY <2>1, NamesOfFirst, NamesOfSecond, Zenon DEF Computing
<1>2. {"CODECOPY"} \subseteq DOMAIN Surroundings
  <2>1. {"CODECOPY"} \subseteq DOMAIN OwnCode
    BY DEF OwnCode
  <2> QED
    BY <2>1, NamesOfFirst, NamesOfSecond, Zenon DEF Surroundings
<1>3. {"POP"} \subseteq DOMAIN Chain
  <2>1. {"POP"} \subseteq DOMAIN Memory
    BY DEF Memory
  <2> QED
    BY <2>1, NamesOfFirst, NamesOfSecond, Zenon DEF Chain
<1>4. {"SSTORE", "JUMP", "JUMPI"} \subseteq DOMAIN Control
  <2>1. {"SSTORE", "JUMP", "JUMPI"} \subseteq DOMAIN StorageAndJumps
    BY DEF StorageAndJumps
  <2> QED
    BY <2>1, NamesOfFirst, NamesOfSecond, Zenon DEF Control
<1>5. {"PC", "GAS", "JUMPDEST"} \subseteq DOMAIN Control
  <2>1. {"PC", "GAS", "JUMPDEST"} \subseteq DOMAIN Position
    BY DEF Position
  <2> QED
    BY <2>1, NamesOfFirst, NamesOfSecond, Zenon DEF Control
<1>6. {"PUSH0"} \subseteq DOMAIN Control
  <2>1. {"PUSH0"} \subseteq DOMAIN Transient
    BY DEF Transient
  <2> QED
    BY <2>1, NamesOfFirst, NamesOfSecond, Zenon DEF Control
<1>7. {"RJUMP"} \subseteq DOMAIN Eof
  <2>1. {"RJUMP"} \subseteq DOMAIN LogAndEofData
    BY DEF LogAndEofData
  <2> QED
    BY <2>1, NamesOfFirst, NamesOfSecond, Zenon DEF Eof
<1>8. {"RJUMPI"} \subseteq DOMAIN Eof
  <2>1. {"RJUMPI"} \subseteq DOMAIN RelativeJumps
    BY DEF RelativeJumps
  <2> QED
    BY <2>1, NamesOfFirst, NamesOfSecond, Zenon DEF Eof
<1>9. {"RETURN"} \subseteq DOMAIN Calling
  <2>1. {"RETURN"} \subseteq DOMAIN Returns
    BY DEF Returns
  <2> QED
    BY <2>1, NamesOfFirst, NamesOfSecond, Zenon DEF Calling
<1>10. /\ DOMAIN Computing \subseteq DOMAIN Table /\ DOMAIN Surroundings \subseteq DOMAIN Table
       /\ DOMAIN Chain \subseteq DOMAIN Table /\ DOMAIN Control \subseteq DOMAIN Table
       /\ DOMAIN Eof \subseteq DOMAIN Table /\ DOMAIN Calling \subseteq DOMAIN Table
  <2>1. \A f, g, h, names :
            names \subseteq DOMAIN f \/ names \subseteq DOMAIN g \/ names \subseteq DOMAIN h
            => names \subseteq DOMAIN (f ++ g ++ h)
    BY NamesOfFirst, NamesOfSecond, Zenon
  <2> DEFINE a == Computing ++ Surroundings ++ Chain
             b == Control ++ Pushing ++ Copying
             c == Swapping ++ Eof ++ Calling
  <2>2. DOMAIN Computing \subseteq DOMAIN a
    BY <2>1, Zenon
  <2>3. DOMAIN Surroundings \subseteq DOMAIN a
    BY <2>1, Zenon
  <2>4. DOMAIN Chain \subseteq DOMAIN a
    BY <2>1, Zenon
  <2>5. DOMAIN Control \subseteq DOMAIN b
    BY <2>1, Zenon
  <2>6. DOMAIN Eof \subseteq DOMAIN c
    BY <2>1, Zenon
  <2>7. DOMAIN Calling \subseteq DOMAIN c
    BY <2>1, Zenon
  <2>8. Table = a ++ b ++ c
    BY Zenon DEF Table
  <2> HIDE DEF a, b, c
  <2>9. DOMAIN a \subseteq DOMAIN (a ++ b ++ c)
    BY <2>1, Zenon
  <2>10. DOMAIN b \subseteq DOMAIN (a ++ b ++ c)
    BY <2>1, Zenon
  <2>11. DOMAIN c \subseteq DOMAIN (a ++ b ++ c)
    BY <2>1, Zenon
  <2> QED
    BY <2>2, <2>3, <2>4, <2>5, <2>6, <2>7, <2>8, <2>9, <2>10, <2>11
<1> QED
  BY <1>1, <1>2, <1>3, <1>4, <1>5, <1>6, <1>7, <1>8, <1>9, <1>10, TableFinds DEF Has, Used

(***************************************************************************)
(* Single instructions.                                                    *)
(***************************************************************************)
\* What is put on a sequence of numbers leaves one.
LEMMA OnTop ==
  ASSUME NEW u \in Seq(Int), NEW w \in Seq(Int)
  PROVE  /\ u \o w \in Seq(Int) /\ Len(u \o w) = Len(u) + Len(w) /\ Len(u) \in Nat /\ Len(w) \in Nat
         /\ SubSeq(u \o w, 1, Len(u \o w) - Len(w)) = u
         /\ \A n \in 1..Len(w) : FromTop(u \o w, n) = w[Len(w) - n + 1]
<1> DEFINE t == u \o w
           x == Len(u)
           y == Len(w)
<1>1. /\ t \in Seq(Int) /\ Len(t) = x + y /\ x \in Nat /\ y \in Nat
      /\ \A j \in 1..(x + y) : t[j] = IF j <= x THEN u[j] ELSE w[j - x]
  BY ConcatProperties
<1> HIDE DEF t
<1>2. SubSeq(t, 1, x) = u
  <2>1. /\ SubSeq(t, 1, x) \in Seq(Int) /\ Len(SubSeq(t, 1, x)) = x
        /\ \A j \in 1..x : SubSeq(t, 1, x)[j] = t[j]
    <3>1. x <= x + y
      BY <1>1
    <3> QED
      BY <1>1, <3>1, SubSeqProperties
  <2> DEFINE v == SubSeq(t, 1, x)
  <2>2. \A j \in 1..x : v[j] = u[j]
    BY <1>1, <2>1
  <2> HIDE DEF v
  <2> QED
    BY <2>1, <2>2, SeqEqual DEF v
<1>3. Len(t) - y = x
  BY <1>1
<1>4. ASSUME NEW n \in 1..y PROVE FromTop(t, n) = w[y - n + 1]
  <2> HIDE DEF x, y
  <2>1. (x + y) - n + 1 \in 1..(x + y) /\ ~((x + y) - n + 1 <= x)
        /\ ((x + y) - n + 1) - x = y - n + 1
    BY <1>1
  <2> QED
    BY <1>1, <2>1 DEF FromTop
<1> QED
  BY <1>1, <1>2, <1>3, <1>4 DEF t

\* No copy, and one copy, of a value.
LEMMA NoneAndOne ==
  ASSUME NEW v
  PROVE  [j \in 1..0 |-> v] = <<>> /\ [j \in 1..1 |-> v] = <<v>>
<1>1. 1..0 = {}
  OBVIOUS
<1> QED
  BY <1>1

\* Nothing put on a stack.
LEMMA NothingOnTop ==
  ASSUME NEW u \in Seq(Int)
  PROVE  u \o <<>> = u
BY ConcatEmptySeq

\* Gas adds up, and nothing else of the books changes.
LEMMA SpentIs ==
  ASSUME NEW b \in Books, NEW n \in Int, NEW m \in Int
  PROVE  /\ Spent(b, n) \in Books /\ Spent(b, n).gas = b.gas + n /\ Spent(b, n).memory = b.memory
         /\ Spent(b, n).result = b.result /\ Spent(Spent(b, n), m) = Spent(b, n + m)
         /\ Spent(b, n) = [gas |-> b.gas + n, memory |-> b.memory, result |-> b.result]
         /\ Spent(b, 0) = b
<1>1. /\ b = [gas |-> b.gas, memory |-> b.memory, result |-> b.result]
      /\ b.gas \in Int /\ b.memory \in Int \X Int /\ b.result \in Int
  BY DEF Books
<1>2. \A i \in Int : Spent(b, i) = [gas |-> b.gas + i, memory |-> b.memory, result |-> b.result]
  BY <1>1 DEF Spent
<1>3. Spent(Spent(b, n), m) = [gas |-> (b.gas + n) + m, memory |-> b.memory, result |-> b.result]
  <2>1. Spent(b, n) = [gas |-> b.gas + n, memory |-> b.memory, result |-> b.result]
    BY <1>2
  <2> DEFINE y == Spent(b, n)
  <2>2. Spent(y, m) = [y EXCEPT !.gas = y.gas + m]
    BY DEF Spent
  <2> HIDE DEF y
  <2>3. y = [gas |-> b.gas + n, memory |-> b.memory, result |-> b.result]
    BY <2>1 DEF y
  <2> QED
    BY <2>2, <2>3 DEF y
<1>4. (b.gas + n) + m = b.gas + (n + m) /\ b.gas + 0 = b.gas /\ b.gas + n \in Int /\ n + m \in Int
  BY <1>1
<1> QED
  BY <1>1, <1>2, <1>3, <1>4 DEF Books

\* An instruction as a code.
LEMMA SingleCodes ==
  ASSUME NEW op \in Ops, NEW o, NEW arg \in Int, IsOpcode(o), o.size > 0
  PROVE  /\ Single(op, o, arg) \in Codes /\ Length(Single(op, o, arg)) = o.size
         /\ Len(Single(op, o, arg).code) = 1
         /\ Single(op, o, arg).pops = o.pops /\ Single(op, o, arg).pushes = o.pushes
         /\ Single(op, o, arg).min = o.min /\ Single(op, o, arg).max = o.max
         /\ Single(op, o, arg).terminating = o.terminating
<1> DEFINE a == Single(op, o, arg)
<1>1. a \in Bytecodes /\ Length(a) = o.size
  BY LengthOfSingle
<1>2. Len(a.code) = 1 /\ DOMAIN a.code = {1} /\ a.code[1].size = o.size
  BY DEF Single
<1>3. /\ a.pops = o.pops /\ a.pushes = o.pushes /\ a.min = o.min /\ a.max = o.max
      /\ a.terminating = o.terminating
  BY DEF Single
<1> HIDE DEF a
<1>4. Takes_room(a.code)
  BY <1>2 DEF Takes_room
<1>5. Sound(a)
  BY <1>3 DEF Sound, IsOpcode, Plain, AtLeast
<1>6. a \in Codes
  BY <1>1, <1>4, <1>5 DEF Codes
<1> QED
  BY <1>1, <1>2, <1>3, <1>6 DEF a

\* What a run finds that meets an instruction.
LEMMA Meeting ==
  ASSUME NEW op, NEW o, NEW arg, NEW C, NEW k, NEW h, NEW W, NEW u, NEW w, NEW c,
         Meets(op, o, arg, C, k, h, W, u, w, c)
  PROVE  /\ C \in Seq(Instruction) /\ Takes_room(C) /\ k \in Nat /\ k + 1 \in DOMAIN C /\ (k + 1) + 1 = k + 2
         /\ C[c.ip].op = op /\ C[c.ip].arg = arg /\ C[c.ip].pops = o.pops /\ C[c.ip].pushes = o.pushes
         /\ C[c.ip].min = o.min /\ C[c.ip].max = o.max /\ C[c.ip].size = o.size
         /\ o.min <= Len(c.stack) /\ Len(c.stack) + o.max - o.min <= h
<1> DEFINE a == Single(op, o, arg)
           i == a.code[1]
           n == Len(u \o w)
<1>1. Len(a.code) = 1 /\ a.min = o.min /\ a.max = o.max
  BY SingleCodes DEF Meets
<1>2. /\ i.op = op /\ i.arg = arg /\ i.size = o.size /\ i.pops = o.pops /\ i.pushes = o.pushes
      /\ i.min = o.min /\ i.max = o.max
  BY DEF Single
<1> HIDE DEF a, i
<1>3. /\ C \in Seq(Instruction) /\ Takes_room(C) /\ k \in Nat /\ k + 1 <= Len(C) /\ C[k + 1] = i
      /\ o.min <= n /\ n + o.max - o.min <= h
  BY <1>1 DEF Meets, Spans, Stands, a, i
<1>4. k + 1 \in DOMAIN C /\ (k + 1) + 1 = k + 2
  BY <1>3
<1>5. c.ip = k + 1 /\ c.stack = u \o w
  BY DEF Meets
<1> QED
  BY <1>2, <1>3, <1>4, <1>5

\* It goes on to the only place that follows.
LEMMA MeetsGoes ==
  ASSUME NEW op, NEW o, NEW arg, NEW C, NEW k, NEW h, NEW W, NEW u, NEW w, NEW c,
         Meets(op, o, arg, C, k, h, W, u, w, c), op # "DATA", op # "SWAP",
         NEW q, Follows(C, c) = {q}
  PROVE  Leads(C, {c}, {Place(q, u \o [j \in 1..o.pushes |-> Given(C, c)], LeftAfter(C, c), MarksAfter(C, c),
                              BooksAfter(C, c))}, h, W)
<1>1. /\ C[c.ip].op = op /\ C[c.ip].pops = o.pops /\ C[c.ip].pushes = o.pushes
      /\ C[c.ip].min = o.min /\ C[c.ip].max = o.max
      /\ o.min <= Len(c.stack) /\ Len(c.stack) + o.max - o.min <= h
  BY Meeting
<1>2. c.ip \in DOMAIN C /\ c.stack = u \o w /\ OnTrack(c.marks, W)
  <2>1. k + 1 \in DOMAIN C
    BY Meeting
  <2>2. c.ip = k + 1 /\ c.stack = u \o w /\ OnTrack(c.marks, W)
    BY DEF Meets
  <2> QED
    BY <2>1, <2>2
<1>3. Safe(C, c, h, W)
  BY <1>1, <1>2 DEF Safe
<1>4. StackAfter(C, c) = u \o [j \in 1..o.pushes |-> Given(C, c)]
  <2>1. SubSeq(u \o w, 1, Len(u \o w) - o.pops) = u
    BY OnTop DEF Meets
  <2>2. StackAfter(C, c) = SubSeq(c.stack, 1, Len(c.stack) - C[c.ip].pops)
                           \o [j \in 1..C[c.ip].pushes |-> Given(C, c)]
    BY <1>1 DEF StackAfter
  <2> QED
    BY <1>1, <1>2, <2>1, <2>2
<1> DEFINE d == Place(q, u \o [j \in 1..o.pushes |-> Given(C, c)], LeftAfter(C, c), MarksAfter(C, c),
                      BooksAfter(C, c))
<1>5. After(C, c) \subseteq {d}
  BY <1>4 DEF After
<1> HIDE DEF d
<1>6. Leads(C, {c}, {d}, h, W)
  BY <1>3, <1>5, LeadsStep
<1> QED
  BY <1>6 DEF d

\* An instruction that just computes.
LEMMA PlainGoes ==
  ASSUME NEW op, NEW o, NEW arg, NEW C, NEW k, NEW h, NEW W, NEW u, NEW w, NEW c,
         Meets(op, o, arg, C, k, h, W, u, w, c), c.books \in Books, o.pushes \in {0, 1},
         op \notin {"DATA", "SWAP", "JUMP", "JUMPI", "RJUMP", "RJUMPI", "STOP", "RETURN", "COND", "WORK",
                    "SSTORE", "CODECOPY"}
  PROVE  LET v == CASE op = "PUSH" -> arg
                    [] op = "PC" -> Offset(C, k + 1)
                    [] op = "GAS" -> GasLimit - c.books.gas - 2
                    [] op = "DUP" -> FromTop(u \o w, arg)
                    [] op = "ADD" -> FromTop(u \o w, 1) + FromTop(u \o w, 2)
                    [] op = "SUB" -> FromTop(u \o w, 1) - FromTop(u \o w, 2)
                    [] OTHER -> 0
             g == CASE op \in Cheap -> 2 [] op = "JUMPDEST" -> 1 [] OTHER -> 3
         IN  Leads(C, {c}, {Place(k + 2, With(u, o.pushes, v), c.left, c.marks, Spent(c.books, g))}, h, W)
<1> DEFINE v == CASE op = "PUSH" -> arg
                  [] op = "PC" -> Offset(C, k + 1)
                  [] op = "GAS" -> GasLimit - c.books.gas - 2
                  [] op = "DUP" -> FromTop(u \o w, arg)
                  [] op = "ADD" -> FromTop(u \o w, 1) + FromTop(u \o w, 2)
                  [] op = "SUB" -> FromTop(u \o w, 1) - FromTop(u \o w, 2)
                  [] OTHER -> 0
           g == CASE op \in Cheap -> 2 [] op = "JUMPDEST" -> 1 [] OTHER -> 3
<1>1. C[c.ip].op = op /\ C[c.ip].arg = arg /\ k \in Nat /\ (k + 1) + 1 = k + 2
  BY Meeting
<1>2. c.ip = k + 1 /\ c.stack = u \o w
  BY DEF Meets
<1>3. Follows(C, c) = {k + 2}
  BY <1>1, <1>2 DEF Follows
<1>4. Given(C, c) = v
  BY <1>1, <1>2 DEF Given
<1>5. LeftAfter(C, c) = c.left /\ MarksAfter(C, c) = c.marks
  BY <1>1, <1>2 DEF LeftAfter, MarksAfter
<1>6. Charge(C, c) = g /\ g \in Int
  BY <1>1, <1>2 DEF Charge, Cheap
<1> HIDE DEF v, g
<1>7. BooksAfter(C, c) = Spent(c.books, g)
  <2>1. BooksAfter(C, c) = [gas |-> c.books.gas + g, memory |-> c.books.memory, result |-> c.books.result]
    BY <1>1, <1>2, <1>6 DEF BooksAfter
  <2> QED
    BY <1>6, <2>1, SpentIs
<1>8. Leads(C, {c}, {Place(k + 2, u \o [j \in 1..o.pushes |-> Given(C, c)], LeftAfter(C, c), MarksAfter(C, c),
                           BooksAfter(C, c))}, h, W)
  BY <1>3, MeetsGoes
<1>9. u \o [j \in 1..o.pushes |-> v] = With(u, o.pushes, v)
  <2>1. u \in Seq(Int)
    BY DEF Meets
  <2>2. CASE o.pushes = 0
    BY <2>1, <2>2, NoneAndOne, NothingOnTop DEF With
  <2>3. CASE o.pushes = 1
    BY <2>3, NoneAndOne DEF With
  <2> QED
    BY <2>2, <2>3
<1>10. Leads(C, {c}, {Place(k + 2, With(u, o.pushes, v), c.left, c.marks, Spent(c.books, g))}, h, W)
  BY <1>4, <1>5, <1>7, <1>8, <1>9
<1> QED
  BY <1>10 DEF v, g

\* The opcodes, one by one.
LEMMA UsedOpcodes ==
  /\ \A op \in Used : op \in Ops /\ op \in DOMAIN Table
  /\ Table["STOP"] = Ends(0) /\ Table["ADD"] = Takes(2, 1) /\ Table["SUB"] = Takes(2, 1)
  /\ Table["CODECOPY"] = Takes(3, 0) /\ Table["POP"] = Takes(1, 0) /\ Table["SSTORE"] = Takes(2, 0)
  /\ Table["JUMP"] = Takes(1, 0) /\ Table["JUMPI"] = Takes(2, 0) /\ Table["PC"] = Takes(0, 1)
  /\ Table["GAS"] = Takes(0, 1) /\ Table["JUMPDEST"] = Takes(0, 0) /\ Table["PUSH0"] = Takes(0, 1)
  /\ Table["RJUMP"] = WithData(2, Takes(0, 0)) /\ Table["RJUMPI"] = WithData(2, Takes(1, 0))
  /\ Table["RETURN"] = Ends(2)
<1>1. Finds(Table) /\ Used \subseteq DOMAIN Table
  BY TableHas DEF Has
<1>2. \A op \in Used : op \in Ops /\ op \in DOMAIN Table
  BY <1>1, Zenon DEF Ops
<1>3. /\ "STOP" \in DOMAIN Table /\ "ADD" \in DOMAIN Table /\ "SUB" \in DOMAIN Table
      /\ "CODECOPY" \in DOMAIN Table /\ "POP" \in DOMAIN Table /\ "SSTORE" \in DOMAIN Table
      /\ "JUMP" \in DOMAIN Table /\ "JUMPI" \in DOMAIN Table /\ "PC" \in DOMAIN Table
      /\ "GAS" \in DOMAIN Table /\ "JUMPDEST" \in DOMAIN Table /\ "PUSH0" \in DOMAIN Table
      /\ "RJUMP" \in DOMAIN Table /\ "RJUMPI" \in DOMAIN Table /\ "RETURN" \in DOMAIN Table
  BY <1>2 DEF Used
<1> QED
  BY <1>1, <1>2, <1>3 DEF Finds

\* The numbers of an opcode that takes and leaves so many items.
LEMMA TakesIs ==
  ASSUME NEW i \in Nat, NEW j \in Nat
  PROVE  /\ IsOpcode(Takes(i, j)) /\ Takes(i, j).pops = i /\ Takes(i, j).pushes = j /\ Takes(i, j).size = 1
         /\ Takes(i, j).min = i /\ ~Takes(i, j).terminating
         /\ IsOpcode(WithData(2, Takes(i, j))) /\ WithData(2, Takes(i, j)).pops = i
         /\ WithData(2, Takes(i, j)).pushes = j /\ WithData(2, Takes(i, j)).size = 3
         /\ ~WithData(2, Takes(i, j)).terminating
         /\ IsOpcode(Ends(i)) /\ Ends(i).pops = i /\ Ends(i).pushes = 0 /\ Ends(i).size = 1
         /\ Ends(i).terminating
<1> DEFINE x(p) == AtLeast((i - i) + p, i)
<1>1. \A p \in Nat : x(p) \in Nat /\ x(p) >= AtLeast(i, (i - i) + p)
  BY DEF AtLeast
<1>2. Takes(i, j) = [pops |-> i, pushes |-> j, min |-> i, max |-> x(j), size |-> 1, terminating |-> FALSE]
  BY DEF Takes, Opcode
<1>3. Ends(i) = [pops |-> i, pushes |-> 0, min |-> i, max |-> x(0), size |-> 1, terminating |-> TRUE]
  BY DEF Ends, Opcode
<1>4. /\ WithData(2, Takes(i, j)).pops = i /\ WithData(2, Takes(i, j)).pushes = j
      /\ WithData(2, Takes(i, j)).min = i /\ WithData(2, Takes(i, j)).max = x(j)
      /\ WithData(2, Takes(i, j)).size = 3 /\ WithData(2, Takes(i, j)).terminating = FALSE
  <2> DEFINE t == Takes(i, j)
  <2>1. WithData(2, t) = [t EXCEPT !.size = 1 + 2]
    BY DEF WithData
  <2> HIDE DEF t
  <2>2. t = [pops |-> i, pushes |-> j, min |-> i, max |-> x(j), size |-> 1, terminating |-> FALSE]
    BY <1>2 DEF t
  <2> HIDE DEF x
  <2> QED
    BY <2>1, <2>2 DEF t
<1> HIDE DEF x
<1>5. i <= i /\ i - i = 0 /\ 1 \in Nat /\ 3 \in Nat /\ 0 \in Nat
  OBVIOUS
<1>6. IsOpcode(Takes(i, j))
  BY <1>1, <1>2, <1>5 DEF IsOpcode, Plain
<1>7. IsOpcode(Ends(i))
  BY <1>1, <1>3, <1>5 DEF IsOpcode, Plain
<1>8. IsOpcode(WithData(2, Takes(i, j)))
  BY <1>1, <1>4, <1>5 DEF IsOpcode, Plain
<1> QED
  BY <1>2, <1>3, <1>4, <1>6, <1>7, <1>8

\* The numbers of a PUSH.
LEMMA PushesIs ==
  ASSUME NEW z \in Nat
  PROVE  /\ IsOpcode(Pushes(z)) /\ Pushes(z).pops = 0 /\ Pushes(z).pushes = 1 /\ Pushes(z).size = 1 + z
         /\ Pushes(z).size > 0 /\ ~Pushes(z).terminating
<1>1. Pushes(z) = [pops |-> 0, pushes |-> 1, min |-> 0, max |-> 1, size |-> 1 + z, terminating |-> FALSE]
  BY DEF Pushes, Opcode, AtLeast
<1> QED
  BY <1>1 DEF IsOpcode, Plain, AtLeast

\* The bytecode of an opcode: a code of one instruction, with its length and balance.
LEMMA OpsAre ==
  /\ \A op \in Used : Op(op) \in Codes /\ Len(Op(op).code) = 1
  /\ \A op \in Used \ {"RJUMP", "RJUMPI"} : Length(Op(op)) = 1
  /\ \A op \in {"RJUMP", "RJUMPI"}, x \in Int :
        Data(op, x) \in Codes /\ Len(Data(op, x).code) = 1 /\ Length(Data(op, x)) = 3
  /\ \A op \in {"PC", "GAS", "PUSH0"} : Balance(Op(op)) = 1
  /\ \A op \in {"ADD", "SUB", "JUMP", "POP"} : Balance(Op(op)) = -1
  /\ \A op \in {"JUMPI", "SSTORE", "RETURN"} : Balance(Op(op)) = -2
  /\ \A op \in {"JUMPDEST", "STOP"} : Balance(Op(op)) = 0
  /\ Balance(Op("CODECOPY")) = -3
  /\ \A x \in Int : Balance(Data("RJUMP", x)) = 0 /\ Balance(Data("RJUMPI", x)) = -1
<1>1. ASSUME NEW op \in Used
      PROVE  /\ op \in Ops /\ IsOpcode(Table[op])
             /\ op \in {"RJUMP", "RJUMPI"} => Table[op].size = 3
             /\ op \notin {"RJUMP", "RJUMPI"} => Table[op].size = 1
             /\ Table[op].size > 0
  BY UsedOpcodes, TakesIs DEF Used
<1>2. ASSUME NEW op \in Used, NEW x \in Int
      PROVE  /\ Single(op, Table[op], x) \in Codes /\ Len(Single(op, Table[op], x).code) = 1
             /\ Length(Single(op, Table[op], x)) = Table[op].size
             /\ Single(op, Table[op], x).pushes = Table[op].pushes
             /\ Single(op, Table[op], x).pops = Table[op].pops
  BY <1>1, SingleCodes
<1>3. /\ \A op \in {"PC", "GAS", "PUSH0"} : Table[op].pushes - Table[op].pops = 1
      /\ \A op \in {"ADD", "SUB", "JUMP", "POP"} : Table[op].pushes - Table[op].pops = -1
      /\ \A op \in {"JUMPI", "SSTORE", "RETURN"} : Table[op].pushes - Table[op].pops = -2
      /\ \A op \in {"JUMPDEST", "STOP"} : Table[op].pushes - Table[op].pops = 0
      /\ Table["CODECOPY"].pushes - Table["CODECOPY"].pops = -3
      /\ Table["RJUMP"].pushes - Table["RJUMP"].pops = 0 /\ Table["RJUMPI"].pushes - Table["RJUMPI"].pops = -1
  BY UsedOpcodes, TakesIs
<1>4. \A op \in Used : Op(op) = Single(op, Table[op], 0) /\ 0 \in Int
  BY DEF Op
<1>5. \A op, x : Data(op, x) = Single(op, Table[op], x)
  BY DEF Data
<1>6. /\ {"PC", "GAS", "PUSH0", "ADD", "SUB", "JUMP", "POP", "JUMPI", "SSTORE", "RETURN", "JUMPDEST", "STOP",
          "CODECOPY", "RJUMP", "RJUMPI"} \subseteq Used
  BY DEF Used
<1>7. ASSUME NEW op \in Used PROVE Balance(Op(op)) = Table[op].pushes - Table[op].pops
  BY <1>2, <1>4 DEF Balance
<1>8. ASSUME NEW op \in Used, NEW x \in Int PROVE Balance(Data(op, x)) = Table[op].pushes - Table[op].pops
  BY <1>2, <1>5 DEF Balance
<1>9. \A op \in Used : Op(op) \in Codes /\ Len(Op(op).code) = 1
  BY <1>2, <1>4
<1>10. \A op \in Used \ {"RJUMP", "RJUMPI"} : Length(Op(op)) = 1
  BY <1>1, <1>2, <1>4
<1>11. \A op \in {"RJUMP", "RJUMPI"}, x \in Int :
        Data(op, x) \in Codes /\ Len(Data(op, x).code) = 1 /\ Length(Data(op, x)) = 3
  BY <1>1, <1>2, <1>5, <1>6
<1> QED
  BY <1>3, <1>6, <1>7, <1>8, <1>9, <1>10, <1>11

\* The bytecode of a PUSH.
LEMMA PushAre ==
  ASSUME NEW z \in Nat, NEW x \in Int
  PROVE  /\ PushN(z, x) \in Codes /\ Len(PushN(z, x).code) = 1 /\ Length(PushN(z, x)) = 1 + z
         /\ Balance(PushN(z, x)) = 1 /\ ~PushN(z, x).terminating
<1>1. "PUSH" \in Ops
  BY DEF Ops
<1>2. IsOpcode(Pushes(z)) /\ Pushes(z).size = 1 + z /\ Pushes(z).size > 0
  BY PushesIs
<1> QED
  BY <1>1, <1>2, SingleCodes, PushesIs DEF PushN, Balance

\* Who enters a sum enters its first part, and then the second.
LEMMA EntersParts ==
  ASSUME NEW a \in Codes, NEW b \in Codes, NEW C, NEW k, NEW u, NEW m, NEW h, NEW W,
         Enters(Concat(a, b), C, k, u, m, h, W)
  PROVE  /\ Enters(a, C, k, u, m, h, W)
         /\ \A v \in Seq(Int), x \in Seq(Int) :
               Len(v) = Len(u) + Balance(a) /\ OnTrack(x, W) => Enters(b, C, k + Len(a.code), v, x, h, W)
<1>1. Spans(a, C, k, Len(u), h) /\ Spans(b, C, k + Len(a.code), Len(u) + a.pushes - a.pops, h)
  BY SpansParts DEF Enters
<1> QED
  BY <1>1 DEF Enters, Balance

\* A run that is in order was so before.
LEMMA OnTrackBefore ==
  ASSUME NEW m \in Seq(Int), NEW r \in Seq(Int), NEW W, OnTrack(m \o r, W)
  PROVE  OnTrack(m, W)
<1> DEFINE t == m \o r
           x == Len(m)
           y == Len(r)
<1>1. /\ Len(t) = x + y /\ x \in Nat /\ y \in Nat
      /\ \A j \in 1..(x + y) : t[j] = IF j <= x THEN m[j] ELSE r[j - x]
  BY ConcatProperties
<1>2. \A j \in 1..Len(t) : j \in DOMAIN W /\ t[j] = W[j]
  BY DEF OnTrack
<1> HIDE DEF t
<1>3. ASSUME NEW j \in 1..x PROVE j \in DOMAIN W /\ m[j] = W[j]
  <2>1. j \in 1..(x + y) /\ j <= x
    <3> HIDE DEF x, y
    <3> QED
      BY <1>1
  <2> QED
    BY <1>1, <1>2, <2>1
<1> QED
  BY <1>3 DEF OnTrack

\* Putting sequences together associates.
LEMMA Together ==
  ASSUME NEW s \in Seq(Int), NEW t \in Seq(Int), NEW w \in Seq(Int)
  PROVE  s \o (t \o w) = (s \o t) \o w
<1>1. (s \o t) \o w = s \o (t \o w)
  BY ConcatAssociative, SMTT(20)
<1> QED
  BY <1>1, Zenon

\* One and two items on a stack.
LEMMA TopTwo ==
  ASSUME NEW u \in Seq(Int), NEW x \in Int, NEW y \in Int
  PROVE  /\ <<x>> \in Seq(Int) /\ <<x, y>> \in Seq(Int)
         /\ FromTop(u \o <<x>>, 1) = x /\ u \o <<x>> \in Seq(Int) /\ Len(u \o <<x>>) = Len(u) + 1
         /\ FromTop(u \o <<x, y>>, 1) = y /\ FromTop(u \o <<x, y>>, 2) = x
         /\ u \o <<x, y>> \in Seq(Int) /\ Len(u \o <<x, y>>) = Len(u) + 2
         /\ (u \o <<x>>) \o <<y>> = u \o <<x, y>>
<1> DEFINE v == <<x>>
           w == <<x, y>>
<1>1. v \in Seq(Int) /\ w \in Seq(Int) /\ Len(v) = 1 /\ Len(w) = 2 /\ v[1] = x /\ w[1] = x /\ w[2] = y
  OBVIOUS
<1>2. v \o <<y>> = w /\ <<y>> \in Seq(Int)
  <2> DEFINE t == v \o <<y>>
             z == <<y>>
  <2>1. z \in Seq(Int) /\ Len(z) = 1 /\ z[1] = y
    OBVIOUS
  <2> HIDE DEF v, w, z
  <2>2. t \in Seq(Int) /\ Len(t) = 2 /\ t[1] = x /\ t[2] = y
    <3>1. /\ t \in Seq(Int) /\ Len(t) = Len(v) + Len(z)
          /\ \A i \in 1..(Len(v) + Len(z)) : t[i] = IF i <= Len(v) THEN v[i] ELSE z[i - Len(v)]
      BY <1>1, <2>1, ConcatProperties, Zenon DEF z
    <3> HIDE DEF t
    <3>2. Len(t) = 2 /\ 1 \in 1..(Len(v) + Len(z)) /\ 2 \in 1..(Len(v) + Len(z))
      BY <1>1, <2>1, <3>1
    <3> QED
      BY <1>1, <2>1, <3>1, <3>2
  <2> HIDE DEF t
  <2>3. t = w
    <3>1. \A i \in 1..2 : t[i] = w[i]
      BY <1>1, <2>2
    <3> QED
      BY <1>1, <2>2, <3>1, SeqEqual
  <2> QED
    BY <2>1, <2>3 DEF t, z
<1> HIDE DEF v, w
<1>3. 1 \in 1..1 /\ 1 \in 1..2 /\ 2 \in 1..2 /\ 1 - 1 + 1 = 1 /\ 2 - 1 + 1 = 2 /\ 2 - 2 + 1 = 1
  OBVIOUS
<1>4. FromTop(u \o v, 1) = v[1] /\ u \o v \in Seq(Int) /\ Len(u \o v) = Len(u) + 1
  <2>1. \A n \in 1..Len(v) : FromTop(u \o v, n) = v[Len(v) - n + 1]
    BY <1>1, OnTop, Zenon
  <2>2. u \o v \in Seq(Int) /\ Len(u \o v) = Len(u) + Len(v)
    BY <1>1, OnTop, Zenon
  <2> QED
    BY <1>1, <1>3, <2>1, <2>2
<1>5. /\ FromTop(u \o w, 1) = w[2] /\ FromTop(u \o w, 2) = w[1]
      /\ u \o w \in Seq(Int) /\ Len(u \o w) = Len(u) + 2
  <2>1. \A n \in 1..Len(w) : FromTop(u \o w, n) = w[Len(w) - n + 1]
    BY <1>1, OnTop, Zenon
  <2>2. u \o w \in Seq(Int) /\ Len(u \o w) = Len(u) + Len(w)
    BY <1>1, OnTop, Zenon
  <2> QED
    BY <1>1, <1>3, <2>1, <2>2
<1>6. (u \o v) \o <<y>> = u \o w
  <2> DEFINE z == <<y>>
  <2>1. z \in Seq(Int) /\ v \o z = w
    BY <1>2
  <2> HIDE DEF z
  <2>2. u \o (v \o z) = (u \o v) \o z
    <3>1. u \in Seq(Int) /\ v \in Seq(Int) /\ z \in Seq(Int)
      BY <1>1, <2>1
    <3> QED
      BY <3>1, Together
  <2> QED
    BY <2>1, <2>2 DEF z
<1> QED
  BY <1>1, <1>3, <1>4, <1>5, <1>6 DEF v, w

\* PUSH leaves its number.
LEMMA PushGoes ==
  ASSUME NEW C, NEW k, NEW u \in Seq(Int), NEW x \in Int, NEW z \in Nat, NEW m, NEW h, NEW W, NEW f,
         NEW b \in Books, Enters(PushN(z, x), C, k, u, m, h, W)
  PROVE  Leads(C, {Place(k + 1, u, f, m, b)}, {Place(k + 2, u \o <<x>>, f, m, Spent(b, 3))}, h, W)
<1> DEFINE c == Place(k + 1, u, f, m, b)
           o == Pushes(z)
<1>1. "PUSH" \in Ops /\ u \o <<>> = u /\ <<>> \in Seq(Int) /\ Len(<<>>) = 0
  BY NothingOnTop DEF Ops
<1>2. IsOpcode(o) /\ o.pops = 0 /\ o.pushes = 1 /\ o.size > 0
  BY PushesIs
<1>3. c.ip = k + 1 /\ c.stack = u /\ c.left = f /\ c.marks = m /\ c.books = b
  BY DEF Place
<1>4. PushN(z, x) = Single("PUSH", o, x)
  BY DEF PushN
<1> HIDE DEF c, o
<1>5. Meets("PUSH", o, x, C, k, h, W, u, <<>>, c)
  BY <1>1, <1>2, <1>3, <1>4 DEF Meets, Enters
<1>6. Leads(C, {c}, {Place(k + 2, With(u, o.pushes, x), f, m, Spent(b, 3))}, h, W)
  BY <1>2, <1>3, <1>5, PlainGoes DEF Cheap
<1> QED
  BY <1>2, <1>6 DEF c, With

\* ADD leaves the sum.
LEMMA AddGoes ==
  ASSUME NEW C, NEW k, NEW u \in Seq(Int), NEW x \in Int, NEW y \in Int, NEW m, NEW h, NEW W, NEW f,
         NEW b \in Books, Enters(Op("ADD"), C, k, u \o <<x, y>>, m, h, W)
  PROVE  Leads(C, {Place(k + 1, u \o <<x, y>>, f, m, b)},
               {Place(k + 2, u \o <<y + x>>, f, m, Spent(b, 3))}, h, W)
<1> DEFINE w == <<x, y>>
           c == Place(k + 1, u \o w, f, m, b)
           o == Takes(2, 1)
<1>1. "ADD" \in Ops /\ Op("ADD") = Single("ADD", o, 0) /\ w \in Seq(Int) /\ Len(w) = 2
  BY UsedOpcodes DEF Used, Op
<1>2. IsOpcode(o) /\ o.pops = 2 /\ o.pushes = 1 /\ o.size > 0
  BY TakesIs
<1>3. c.ip = k + 1 /\ c.stack = u \o w /\ c.left = f /\ c.marks = m /\ c.books = b
  BY DEF Place
<1>4. FromTop(u \o w, 1) = y /\ FromTop(u \o w, 2) = x
  BY TopTwo
<1>5. Enters(Single("ADD", o, 0), C, k, u \o w, m, h, W)
  BY <1>1
<1> HIDE DEF c, o, w
<1>6. Meets("ADD", o, 0, C, k, h, W, u, w, c)
  BY <1>1, <1>2, <1>3, <1>5 DEF Meets, Enters
<1>7. Leads(C, {c}, {Place(k + 2, With(u, o.pushes, y + x), f, m, Spent(b, 3))}, h, W)
  <2>1. c.books \in Books /\ o.pushes \in {0, 1}
    BY <1>2, <1>3
  <2> QED
    BY <1>3, <1>4, <1>6, <2>1, PlainGoes, SMTT(30) DEF Cheap
<1> QED
  BY <1>2, <1>7 DEF c, w, With

\* PC leaves its own offset.
LEMMA PcGoes ==
  ASSUME NEW C, NEW k, NEW u \in Seq(Int), NEW m, NEW h, NEW W, NEW f,
         NEW b \in Books, Enters(Op("PC"), C, k, u, m, h, W)
  PROVE  Leads(C, {Place(k + 1, u, f, m, b)}, {Place(k + 2, u \o <<Offset(C, k + 1)>>, f, m, Spent(b, 2))}, h, W)
<1> DEFINE w == <<>>
           c == Place(k + 1, u, f, m, b)
           o == Takes(0, 1)
<1>1. /\ "PC" \in Ops /\ Op("PC") = Single("PC", o, 0) /\ w \in Seq(Int) /\ Len(w) = 0
      /\ u \o w = u
  BY NothingOnTop, UsedOpcodes DEF Used, Op
<1>2. IsOpcode(o) /\ o.pops = 0 /\ o.pushes = 1 /\ o.size > 0
  BY TakesIs
<1>3. c.ip = k + 1 /\ c.stack = u /\ c.left = f /\ c.marks = m /\ c.books = b
  BY DEF Place
<1>5. Enters(Single("PC", o, 0), C, k, u \o w, m, h, W)
  BY <1>1
<1> HIDE DEF c, o, w
<1>6. Meets("PC", o, 0, C, k, h, W, u, w, c)
  BY <1>1, <1>2, <1>3, <1>5 DEF Meets, Enters
<1>7. Leads(C, {c}, {Place(k + 2, With(u, o.pushes, Offset(C, k + 1)), f, m, Spent(b, 2))}, h, W)
  <2>1. c.books \in Books /\ o.pushes \in {0, 1}
    BY <1>2, <1>3
  <2> QED
    BY <1>3, <1>6, <2>1, PlainGoes, SMTT(30) DEF Cheap
<1> QED
  BY <1>2, <1>7 DEF c, w, With

\* SUB leaves the upper less the lower.
LEMMA SubGoes ==
  ASSUME NEW C, NEW k, NEW u \in Seq(Int), NEW x \in Int, NEW y \in Int, NEW m, NEW h, NEW W, NEW f,
         NEW b \in Books, Enters(Op("SUB"), C, k, u \o <<x, y>>, m, h, W)
  PROVE  Leads(C, {Place(k + 1, u \o <<x, y>>, f, m, b)}, {Place(k + 2, u \o <<y - x>>, f, m, Spent(b, 3))}, h, W)
<1> DEFINE w == <<x, y>>
           c == Place(k + 1, u \o w, f, m, b)
           o == Takes(2, 1)
<1>1. /\ "SUB" \in Ops /\ Op("SUB") = Single("SUB", o, 0) /\ w \in Seq(Int) /\ Len(w) = 2
  BY UsedOpcodes DEF Used, Op
<1>2. IsOpcode(o) /\ o.pops = 2 /\ o.pushes = 1 /\ o.size > 0
  BY TakesIs
<1>3. c.ip = k + 1 /\ c.stack = u \o w /\ c.left = f /\ c.marks = m /\ c.books = b
  BY DEF Place
<1>4. FromTop(u \o w, 1) = y /\ FromTop(u \o w, 2) = x
  BY TopTwo
<1>5. Enters(Single("SUB", o, 0), C, k, u \o w, m, h, W)
  BY <1>1
<1> HIDE DEF c, o, w
<1>6. Meets("SUB", o, 0, C, k, h, W, u, w, c)
  BY <1>1, <1>2, <1>3, <1>5 DEF Meets, Enters
<1>7. Leads(C, {c}, {Place(k + 2, With(u, o.pushes, y - x), f, m, Spent(b, 3))}, h, W)
  <2>1. c.books \in Books /\ o.pushes \in {0, 1}
    BY <1>2, <1>3
  <2> QED
    BY <1>3, <1>4, <1>6, <2>1, PlainGoes, SMTT(30) DEF Cheap
<1> QED
  BY <1>2, <1>7 DEF c, w, With

\* GAS leaves what is left, itself paid.
LEMMA GasGoes ==
  ASSUME NEW C, NEW k, NEW u \in Seq(Int), NEW m, NEW h, NEW W, NEW f,
         NEW b \in Books, Enters(Op("GAS"), C, k, u, m, h, W)
  PROVE  Leads(C, {Place(k + 1, u, f, m, b)}, {Place(k + 2, u \o <<GasLimit - b.gas - 2>>, f, m, Spent(b, 2))}, h, W)
<1> DEFINE w == <<>>
           c == Place(k + 1, u, f, m, b)
           o == Takes(0, 1)
<1>1. /\ "GAS" \in Ops /\ Op("GAS") = Single("GAS", o, 0) /\ w \in Seq(Int) /\ Len(w) = 0
      /\ u \o w = u
  BY NothingOnTop, UsedOpcodes DEF Used, Op
<1>2. IsOpcode(o) /\ o.pops = 0 /\ o.pushes = 1 /\ o.size > 0
  BY TakesIs
<1>3. c.ip = k + 1 /\ c.stack = u /\ c.left = f /\ c.marks = m /\ c.books = b
  BY DEF Place
<1>5. Enters(Single("GAS", o, 0), C, k, u \o w, m, h, W)
  BY <1>1
<1> HIDE DEF c, o, w
<1>6. Meets("GAS", o, 0, C, k, h, W, u, w, c)
  BY <1>1, <1>2, <1>3, <1>5 DEF Meets, Enters
<1>7. Leads(C, {c}, {Place(k + 2, With(u, o.pushes, GasLimit - b.gas - 2), f, m, Spent(b, 2))}, h, W)
  <2>1. c.books \in Books /\ o.pushes \in {0, 1}
    BY <1>2, <1>3
  <2> QED
    BY <1>3, <1>6, <2>1, PlainGoes, SMTT(30) DEF Cheap
<1> QED
  BY <1>2, <1>7 DEF c, w, With

\* POP takes one.
LEMMA PopGoes ==
  ASSUME NEW C, NEW k, NEW u \in Seq(Int), NEW x \in Int, NEW m, NEW h, NEW W, NEW f,
         NEW b \in Books, Enters(Op("POP"), C, k, u \o <<x>>, m, h, W)
  PROVE  Leads(C, {Place(k + 1, u \o <<x>>, f, m, b)}, {Place(k + 2, u, f, m, Spent(b, 2))}, h, W)
<1> DEFINE w == <<x>>
           c == Place(k + 1, u \o w, f, m, b)
           o == Takes(1, 0)
<1>1. /\ "POP" \in Ops /\ Op("POP") = Single("POP", o, 0) /\ w \in Seq(Int) /\ Len(w) = 1
  BY UsedOpcodes DEF Used, Op
<1>2. IsOpcode(o) /\ o.pops = 1 /\ o.pushes = 0 /\ o.size > 0
  BY TakesIs
<1>3. c.ip = k + 1 /\ c.stack = u \o w /\ c.left = f /\ c.marks = m /\ c.books = b
  BY DEF Place
<1>5. Enters(Single("POP", o, 0), C, k, u \o w, m, h, W)
  BY <1>1
<1> HIDE DEF c, o, w
<1>6. Meets("POP", o, 0, C, k, h, W, u, w, c)
  BY <1>1, <1>2, <1>3, <1>5 DEF Meets, Enters
<1>7. Leads(C, {c}, {Place(k + 2, With(u, o.pushes, 0), f, m, Spent(b, 2))}, h, W)
  <2>1. c.books \in Books /\ o.pushes \in {0, 1}
    BY <1>2, <1>3
  <2> QED
    BY <1>3, <1>6, <2>1, PlainGoes, SMTT(30) DEF Cheap
<1> QED
  BY <1>2, <1>7 DEF c, w, With

\* JUMPDEST is passed.
LEMMA JumpdestGoes ==
  ASSUME NEW C, NEW k, NEW u \in Seq(Int), NEW m, NEW h, NEW W, NEW f,
         NEW b \in Books, Enters(Op("JUMPDEST"), C, k, u, m, h, W)
  PROVE  Leads(C, {Place(k + 1, u, f, m, b)}, {Place(k + 2, u, f, m, Spent(b, 1))}, h, W)
<1> DEFINE w == <<>>
           c == Place(k + 1, u, f, m, b)
           o == Takes(0, 0)
<1>1. /\ "JUMPDEST" \in Ops /\ Op("JUMPDEST") = Single("JUMPDEST", o, 0) /\ w \in Seq(Int) /\ Len(w) = 0
      /\ u \o w = u
  BY NothingOnTop, UsedOpcodes DEF Used, Op
<1>2. IsOpcode(o) /\ o.pops = 0 /\ o.pushes = 0 /\ o.size > 0
  BY TakesIs
<1>3. c.ip = k + 1 /\ c.stack = u /\ c.left = f /\ c.marks = m /\ c.books = b
  BY DEF Place
<1>5. Enters(Single("JUMPDEST", o, 0), C, k, u \o w, m, h, W)
  BY <1>1
<1> HIDE DEF c, o, w
<1>6. Meets("JUMPDEST", o, 0, C, k, h, W, u, w, c)
  BY <1>1, <1>2, <1>3, <1>5 DEF Meets, Enters
<1>7. Leads(C, {c}, {Place(k + 2, With(u, o.pushes, 0), f, m, Spent(b, 1))}, h, W)
  <2>1. c.books \in Books /\ o.pushes \in {0, 1}
    BY <1>2, <1>3
  <2> QED
    BY <1>3, <1>6, <2>1, PlainGoes, SMTT(30) DEF Cheap
<1> QED
  BY <1>2, <1>7 DEF c, w, With

\* PUSH0 leaves zero.
LEMMA Push0Goes ==
  ASSUME NEW C, NEW k, NEW u \in Seq(Int), NEW m, NEW h, NEW W, NEW f,
         NEW b \in Books, Enters(Op("PUSH0"), C, k, u, m, h, W)
  PROVE  Leads(C, {Place(k + 1, u, f, m, b)}, {Place(k + 2, u \o <<0>>, f, m, Spent(b, 3))}, h, W)
<1> DEFINE w == <<>>
           c == Place(k + 1, u, f, m, b)
           o == Takes(0, 1)
<1>1. /\ "PUSH0" \in Ops /\ Op("PUSH0") = Single("PUSH0", o, 0) /\ w \in Seq(Int) /\ Len(w) = 0
      /\ u \o w = u
  BY NothingOnTop, UsedOpcodes DEF Used, Op
<1>2. IsOpcode(o) /\ o.pops = 0 /\ o.pushes = 1 /\ o.size > 0
  BY TakesIs
<1>3. c.ip = k + 1 /\ c.stack = u /\ c.left = f /\ c.marks = m /\ c.books = b
  BY DEF Place
<1>5. Enters(Single("PUSH0", o, 0), C, k, u \o w, m, h, W)
  BY <1>1
<1> HIDE DEF c, o, w
<1>6. Meets("PUSH0", o, 0, C, k, h, W, u, w, c)
  BY <1>1, <1>2, <1>3, <1>5 DEF Meets, Enters
<1>7. Leads(C, {c}, {Place(k + 2, With(u, o.pushes, 0), f, m, Spent(b, 3))}, h, W)
  <2>1. c.books \in Books /\ o.pushes \in {0, 1}
    BY <1>2, <1>3
  <2> QED
    BY <1>3, <1>6, <2>1, PlainGoes, SMTT(30) DEF Cheap
<1> QED
  BY <1>2, <1>7 DEF c, w, With

\* The books when gas was spent, field by field.
LEMMA SpentAs ==
  ASSUME NEW b \in Books
  PROVE  \A n \in Int : Spent(b, n) = [gas |-> b.gas + n, memory |-> b.memory, result |-> b.result]
BY SpentIs

\* No gas spent leaves the books.
LEMMA SpentNothing ==
  ASSUME NEW b \in Books
  PROVE  Spent(b, 0) = b
BY SpentIs

\* Code that stands for code of a test costs its size.
LEMMA ChargeOf ==
  ASSUME NEW C, NEW c, C[c.ip].op \in {"WORK", "COND"}
  PROVE  Charge(C, c) = C[c.ip].size
<1>1. CASE C[c.ip].op = "WORK"
  BY <1>1 DEF Charge, Cheap
<1>2. CASE C[c.ip].op = "COND"
  BY <1>2 DEF Charge, Cheap
<1> QED
  BY <1>1, <1>2

\* JUMP goes to the JUMPDEST at its offset.
LEMMA JumpGoes ==
  ASSUME NEW C, NEW k, NEW u \in Seq(Int), NEW d \in Int, NEW q, NEW m, NEW h, NEW W, NEW f,
         NEW b \in Books, Enters(Op("JUMP"), C, k, u \o <<d>>, m, h, W),
         Lands(C, q, d), C[q].op = "JUMPDEST"
  PROVE  Leads(C, {Place(k + 1, u \o <<d>>, f, m, b)}, {Place(q, u, f, m, Spent(b, 8))}, h, W)
<1> DEFINE w == <<d>>
           c == Place(k + 1, u \o w, f, m, b)
           o == Takes(1, 0)
<1>1. /\ "JUMP" \in Ops /\ Op("JUMP") = Single("JUMP", o, 0) /\ w \in Seq(Int) /\ Len(w) = 1 /\ 0 \in Int
  BY UsedOpcodes DEF Used, Op
<1>2. IsOpcode(o) /\ o.pops = 1 /\ o.pushes = 0 /\ o.size > 0 /\ o.size = 1
  BY TakesIs
<1>3. c.ip = k + 1 /\ c.stack = u \o w /\ c.left = f /\ c.marks = m /\ c.books = b
  BY DEF Place
<1>4. FromTop(u \o w, 1) = d
  BY TopTwo
<1>5. Enters(Single("JUMP", o, 0), C, k, u \o w, m, h, W)
  BY <1>1
<1> HIDE DEF c, o, w
<1>6. Meets("JUMP", o, 0, C, k, h, W, u, w, c)
  BY <1>1, <1>2, <1>3, <1>5 DEF Meets, Enters
<1>7. /\ C[k + 1].op = "JUMP" /\ C[k + 1].arg = 0 /\ C \in Seq(Instruction) /\ Takes_room(C)
      /\ k \in Nat /\ (k + 1) + 1 = k + 2
  BY <1>3, <1>6, Meeting
<1>8. DestsAt(C, d) = {q}
  BY <1>7, OnlyDest DEF Lands
<1>9. Follows(C, c) = {q}
  BY <1>1, <1>4, <1>3, <1>7, <1>8 DEF Follows
<1>10. LeftAfter(C, c) = f /\ MarksAfter(C, c) = m /\ BooksAfter(C, c) = Spent(b, 8)
  <2>1. LeftAfter(C, c) = f /\ MarksAfter(C, c) = m /\ Charge(C, c) = 8
    BY <1>3, <1>7 DEF LeftAfter, MarksAfter, Charge, Cheap
  <2>2. BooksAfter(C, c) = [gas |-> b.gas + 8, memory |-> b.memory, result |-> b.result]
    BY <1>3, <1>7, <2>1 DEF BooksAfter
  <2> QED
    BY <2>1, <2>2, SpentAs
<1>11. u \o [j \in 1..o.pushes |-> Given(C, c)] = u
  BY <1>2, NoneAndOne, NothingOnTop
<1>12. Leads(C, {c}, {Place(q, u \o [j \in 1..o.pushes |-> Given(C, c)], LeftAfter(C, c), MarksAfter(C, c),
                           BooksAfter(C, c))}, h, W)
  BY <1>6, <1>9, MeetsGoes
<1> QED
  BY <1>10, <1>11, <1>12 DEF c, w

\* JUMPI goes there when the value is not zero.
LEMMA JumpiGoes ==
  ASSUME NEW C, NEW k, NEW u \in Seq(Int), NEW v \in Int, NEW d \in Int, NEW q, NEW m, NEW h, NEW W, NEW f,
         NEW b \in Books, Enters(Op("JUMPI"), C, k, u \o <<v, d>>, m, h, W),
         v # 0, Lands(C, q, d), C[q].op = "JUMPDEST"
  PROVE  Leads(C, {Place(k + 1, u \o <<v, d>>, f, m, b)}, {Place(q, u, f, m, Spent(b, 10))}, h, W)
<1> DEFINE w == <<v, d>>
           c == Place(k + 1, u \o w, f, m, b)
           o == Takes(2, 0)
<1>1. /\ "JUMPI" \in Ops /\ Op("JUMPI") = Single("JUMPI", o, 0) /\ w \in Seq(Int) /\ Len(w) = 2 /\ 0 \in Int
  BY UsedOpcodes DEF Used, Op
<1>2. IsOpcode(o) /\ o.pops = 2 /\ o.pushes = 0 /\ o.size > 0 /\ o.size = 1
  BY TakesIs
<1>3. c.ip = k + 1 /\ c.stack = u \o w /\ c.left = f /\ c.marks = m /\ c.books = b
  BY DEF Place
<1>4. FromTop(u \o w, 1) = d /\ FromTop(u \o w, 2) = v
  BY TopTwo
<1>5. Enters(Single("JUMPI", o, 0), C, k, u \o w, m, h, W)
  BY <1>1
<1> HIDE DEF c, o, w
<1>6. Meets("JUMPI", o, 0, C, k, h, W, u, w, c)
  BY <1>1, <1>2, <1>3, <1>5 DEF Meets, Enters
<1>7. /\ C[k + 1].op = "JUMPI" /\ C[k + 1].arg = 0 /\ C \in Seq(Instruction) /\ Takes_room(C)
      /\ k \in Nat /\ (k + 1) + 1 = k + 2
  BY <1>3, <1>6, Meeting
<1>8. DestsAt(C, d) = {q}
  BY <1>7, OnlyDest DEF Lands
<1>9. Follows(C, c) = {q}
  BY <1>1, <1>4, <1>3, <1>7, <1>8 DEF Follows
<1>10. LeftAfter(C, c) = f /\ MarksAfter(C, c) = m /\ BooksAfter(C, c) = Spent(b, 10)
  <2>1. LeftAfter(C, c) = f /\ MarksAfter(C, c) = m /\ Charge(C, c) = 10
    BY <1>3, <1>7 DEF LeftAfter, MarksAfter, Charge, Cheap
  <2>2. BooksAfter(C, c) = [gas |-> b.gas + 10, memory |-> b.memory, result |-> b.result]
    BY <1>3, <1>7, <2>1 DEF BooksAfter
  <2> QED
    BY <2>1, <2>2, SpentAs
<1>11. u \o [j \in 1..o.pushes |-> Given(C, c)] = u
  BY <1>2, NoneAndOne, NothingOnTop
<1>12. Leads(C, {c}, {Place(q, u \o [j \in 1..o.pushes |-> Given(C, c)], LeftAfter(C, c), MarksAfter(C, c),
                           BooksAfter(C, c))}, h, W)
  BY <1>6, <1>9, MeetsGoes
<1> QED
  BY <1>10, <1>11, <1>12 DEF c, w

\* JUMPI goes on when it is zero.
LEMMA JumpiStays ==
  ASSUME NEW C, NEW k, NEW u \in Seq(Int), NEW v \in Int, NEW d \in Int, NEW m, NEW h, NEW W, NEW f,
         NEW b \in Books, Enters(Op("JUMPI"), C, k, u \o <<v, d>>, m, h, W),
         v = 0
  PROVE  Leads(C, {Place(k + 1, u \o <<v, d>>, f, m, b)}, {Place(k + 2, u, f, m, Spent(b, 10))}, h, W)
<1> DEFINE w == <<v, d>>
           c == Place(k + 1, u \o w, f, m, b)
           o == Takes(2, 0)
<1>1. /\ "JUMPI" \in Ops /\ Op("JUMPI") = Single("JUMPI", o, 0) /\ w \in Seq(Int) /\ Len(w) = 2 /\ 0 \in Int
  BY UsedOpcodes DEF Used, Op
<1>2. IsOpcode(o) /\ o.pops = 2 /\ o.pushes = 0 /\ o.size > 0 /\ o.size = 1
  BY TakesIs
<1>3. c.ip = k + 1 /\ c.stack = u \o w /\ c.left = f /\ c.marks = m /\ c.books = b
  BY DEF Place
<1>4. FromTop(u \o w, 1) = d /\ FromTop(u \o w, 2) = v
  BY TopTwo
<1>5. Enters(Single("JUMPI", o, 0), C, k, u \o w, m, h, W)
  BY <1>1
<1> HIDE DEF c, o, w
<1>6. Meets("JUMPI", o, 0, C, k, h, W, u, w, c)
  BY <1>1, <1>2, <1>3, <1>5 DEF Meets, Enters
<1>7. /\ C[k + 1].op = "JUMPI" /\ C[k + 1].arg = 0 /\ C \in Seq(Instruction) /\ Takes_room(C)
      /\ k \in Nat /\ (k + 1) + 1 = k + 2
  BY <1>3, <1>6, Meeting
<1>9. Follows(C, c) = {k + 2}
  BY <1>1, <1>4, <1>3, <1>7 DEF Follows
<1>10. LeftAfter(C, c) = f /\ MarksAfter(C, c) = m /\ BooksAfter(C, c) = Spent(b, 10)
  <2>1. LeftAfter(C, c) = f /\ MarksAfter(C, c) = m /\ Charge(C, c) = 10
    BY <1>3, <1>7 DEF LeftAfter, MarksAfter, Charge, Cheap
  <2>2. BooksAfter(C, c) = [gas |-> b.gas + 10, memory |-> b.memory, result |-> b.result]
    BY <1>3, <1>7, <2>1 DEF BooksAfter
  <2> QED
    BY <2>1, <2>2, SpentAs
<1>11. u \o [j \in 1..o.pushes |-> Given(C, c)] = u
  BY <1>2, NoneAndOne, NothingOnTop
<1>12. Leads(C, {c}, {Place(k + 2, u \o [j \in 1..o.pushes |-> Given(C, c)], LeftAfter(C, c), MarksAfter(C, c),
                           BooksAfter(C, c))}, h, W)
  BY <1>6, <1>9, MeetsGoes
<1> QED
  BY <1>10, <1>11, <1>12 DEF c, w

\* RJUMP goes so many bytes beyond its end.
LEMMA RjumpGoes ==
  ASSUME NEW C, NEW k, NEW u \in Seq(Int), NEW n \in Int, NEW q, NEW m, NEW h, NEW W, NEW f,
         NEW b \in Books, Enters(Data("RJUMP", n), C, k, u, m, h, W),
         Lands(C, q, Offset(C, k + 1) + 3 + n)
  PROVE  Leads(C, {Place(k + 1, u, f, m, b)}, {Place(q, u, f, m, Spent(b, 2))}, h, W)
<1> DEFINE w == <<>>
           c == Place(k + 1, u, f, m, b)
           o == WithData(2, Takes(0, 0))
<1>1. /\ "RJUMP" \in Ops /\ Data("RJUMP", n) = Single("RJUMP", o, n) /\ w \in Seq(Int) /\ Len(w) = 0 /\ n \in Int
      /\ u \o w = u
  BY NothingOnTop, UsedOpcodes DEF Used, Data
<1>2. IsOpcode(o) /\ o.pops = 0 /\ o.pushes = 0 /\ o.size > 0 /\ o.size = 3
  BY TakesIs
<1>3. c.ip = k + 1 /\ c.stack = u /\ c.left = f /\ c.marks = m /\ c.books = b
  BY DEF Place
<1>5. Enters(Single("RJUMP", o, n), C, k, u \o w, m, h, W)
  BY <1>1
<1> HIDE DEF c, o, w
<1>6. Meets("RJUMP", o, n, C, k, h, W, u, w, c)
  BY <1>1, <1>2, <1>3, <1>5 DEF Meets, Enters
<1>7. /\ C[k + 1].op = "RJUMP" /\ C[k + 1].arg = n /\ C \in Seq(Instruction) /\ Takes_room(C)
      /\ k \in Nat /\ (k + 1) + 1 = k + 2
  BY <1>3, <1>6, Meeting
<1>8. PlacesAt(C, Offset(C, k + 1) + 3 + n) = {q}
  BY <1>7, OnlyDest DEF Lands
<1>9. Follows(C, c) = {q}
  BY <1>1, <1>3, <1>7, <1>8 DEF Follows
<1>10. LeftAfter(C, c) = f /\ MarksAfter(C, c) = m /\ BooksAfter(C, c) = Spent(b, 2)
  <2>1. LeftAfter(C, c) = f /\ MarksAfter(C, c) = m /\ Charge(C, c) = 2
    BY <1>3, <1>7 DEF LeftAfter, MarksAfter, Charge, Cheap
  <2>2. BooksAfter(C, c) = [gas |-> b.gas + 2, memory |-> b.memory, result |-> b.result]
    BY <1>3, <1>7, <2>1 DEF BooksAfter
  <2> QED
    BY <2>1, <2>2, SpentAs
<1>11. u \o [j \in 1..o.pushes |-> Given(C, c)] = u
  BY <1>2, NoneAndOne, NothingOnTop
<1>12. Leads(C, {c}, {Place(q, u \o [j \in 1..o.pushes |-> Given(C, c)], LeftAfter(C, c), MarksAfter(C, c),
                           BooksAfter(C, c))}, h, W)
  BY <1>6, <1>9, MeetsGoes
<1> QED
  BY <1>10, <1>11, <1>12 DEF c, w

\* RJUMPI goes there when the value is not zero.
LEMMA RjumpiGoes ==
  ASSUME NEW C, NEW k, NEW u \in Seq(Int), NEW v \in Int, NEW n \in Int, NEW q, NEW m, NEW h, NEW W, NEW f,
         NEW b \in Books, Enters(Data("RJUMPI", n), C, k, u \o <<v>>, m, h, W),
         v # 0, Lands(C, q, Offset(C, k + 1) + 3 + n)
  PROVE  Leads(C, {Place(k + 1, u \o <<v>>, f, m, b)}, {Place(q, u, f, m, Spent(b, 4))}, h, W)
<1> DEFINE w == <<v>>
           c == Place(k + 1, u \o w, f, m, b)
           o == WithData(2, Takes(1, 0))
<1>1. /\ "RJUMPI" \in Ops /\ Data("RJUMPI", n) = Single("RJUMPI", o, n) /\ w \in Seq(Int) /\ Len(w) = 1 /\ n \in Int
  BY UsedOpcodes DEF Used, Data
<1>2. IsOpcode(o) /\ o.pops = 1 /\ o.pushes = 0 /\ o.size > 0 /\ o.size = 3
  BY TakesIs
<1>3. c.ip = k + 1 /\ c.stack = u \o w /\ c.left = f /\ c.marks = m /\ c.books = b
  BY DEF Place
<1>4. FromTop(u \o w, 1) = v
  BY TopTwo
<1>5. Enters(Single("RJUMPI", o, n), C, k, u \o w, m, h, W)
  BY <1>1
<1> HIDE DEF c, o, w
<1>6. Meets("RJUMPI", o, n, C, k, h, W, u, w, c)
  BY <1>1, <1>2, <1>3, <1>5 DEF Meets, Enters
<1>7. /\ C[k + 1].op = "RJUMPI" /\ C[k + 1].arg = n /\ C \in Seq(Instruction) /\ Takes_room(C)
      /\ k \in Nat /\ (k + 1) + 1 = k + 2
  BY <1>3, <1>6, Meeting
<1>8. PlacesAt(C, Offset(C, k + 1) + 3 + n) = {q}
  BY <1>7, OnlyDest DEF Lands
<1>9. Follows(C, c) = {q}
  BY <1>1, <1>4, <1>3, <1>7, <1>8 DEF Follows
<1>10. LeftAfter(C, c) = f /\ MarksAfter(C, c) = m /\ BooksAfter(C, c) = Spent(b, 4)
  <2>1. LeftAfter(C, c) = f /\ MarksAfter(C, c) = m /\ Charge(C, c) = 4
    BY <1>3, <1>7 DEF LeftAfter, MarksAfter, Charge, Cheap
  <2>2. BooksAfter(C, c) = [gas |-> b.gas + 4, memory |-> b.memory, result |-> b.result]
    BY <1>3, <1>7, <2>1 DEF BooksAfter
  <2> QED
    BY <2>1, <2>2, SpentAs
<1>11. u \o [j \in 1..o.pushes |-> Given(C, c)] = u
  BY <1>2, NoneAndOne, NothingOnTop
<1>12. Leads(C, {c}, {Place(q, u \o [j \in 1..o.pushes |-> Given(C, c)], LeftAfter(C, c), MarksAfter(C, c),
                           BooksAfter(C, c))}, h, W)
  BY <1>6, <1>9, MeetsGoes
<1> QED
  BY <1>10, <1>11, <1>12 DEF c, w

\* RJUMPI goes on when it is zero.
LEMMA RjumpiStays ==
  ASSUME NEW C, NEW k, NEW u \in Seq(Int), NEW v \in Int, NEW n \in Int, NEW m, NEW h, NEW W, NEW f,
         NEW b \in Books, Enters(Data("RJUMPI", n), C, k, u \o <<v>>, m, h, W),
         v = 0
  PROVE  Leads(C, {Place(k + 1, u \o <<v>>, f, m, b)}, {Place(k + 2, u, f, m, Spent(b, 4))}, h, W)
<1> DEFINE w == <<v>>
           c == Place(k + 1, u \o w, f, m, b)
           o == WithData(2, Takes(1, 0))
<1>1. /\ "RJUMPI" \in Ops /\ Data("RJUMPI", n) = Single("RJUMPI", o, n) /\ w \in Seq(Int) /\ Len(w) = 1 /\ n \in Int
  BY UsedOpcodes DEF Used, Data
<1>2. IsOpcode(o) /\ o.pops = 1 /\ o.pushes = 0 /\ o.size > 0 /\ o.size = 3
  BY TakesIs
<1>3. c.ip = k + 1 /\ c.stack = u \o w /\ c.left = f /\ c.marks = m /\ c.books = b
  BY DEF Place
<1>4. FromTop(u \o w, 1) = v
  BY TopTwo
<1>5. Enters(Single("RJUMPI", o, n), C, k, u \o w, m, h, W)
  BY <1>1
<1> HIDE DEF c, o, w
<1>6. Meets("RJUMPI", o, n, C, k, h, W, u, w, c)
  BY <1>1, <1>2, <1>3, <1>5 DEF Meets, Enters
<1>7. /\ C[k + 1].op = "RJUMPI" /\ C[k + 1].arg = n /\ C \in Seq(Instruction) /\ Takes_room(C)
      /\ k \in Nat /\ (k + 1) + 1 = k + 2
  BY <1>3, <1>6, Meeting
<1>9. Follows(C, c) = {k + 2}
  BY <1>1, <1>4, <1>3, <1>7 DEF Follows
<1>10. LeftAfter(C, c) = f /\ MarksAfter(C, c) = m /\ BooksAfter(C, c) = Spent(b, 4)
  <2>1. LeftAfter(C, c) = f /\ MarksAfter(C, c) = m /\ Charge(C, c) = 4
    BY <1>3, <1>7 DEF LeftAfter, MarksAfter, Charge, Cheap
  <2>2. BooksAfter(C, c) = [gas |-> b.gas + 4, memory |-> b.memory, result |-> b.result]
    BY <1>3, <1>7, <2>1 DEF BooksAfter
  <2> QED
    BY <2>1, <2>2, SpentAs
<1>11. u \o [j \in 1..o.pushes |-> Given(C, c)] = u
  BY <1>2, NoneAndOne, NothingOnTop
<1>12. Leads(C, {c}, {Place(k + 2, u \o [j \in 1..o.pushes |-> Given(C, c)], LeftAfter(C, c), MarksAfter(C, c),
                           BooksAfter(C, c))}, h, W)
  BY <1>6, <1>9, MeetsGoes
<1> QED
  BY <1>10, <1>11, <1>12 DEF c, w

\* The code of a test works, asks, or ends.
LEMMA WorkGoes ==
  ASSUME NEW C, NEW k, NEW u \in Seq(Int), NEW o, NEW arg \in Int, IsOpcode(o), o.size > 0, o.pops = 0,
         NEW m, NEW h, NEW W, NEW f, NEW b \in Books, Enters(Single("WORK", o, arg), C, k, u, m, h, W)
  PROVE  Leads(C, {Place(k + 1, u, f, m, b)},
               {Place(k + 2, u \o [j \in 1..o.pushes |-> 0], f, Append(m, arg), Spent(b, o.size))}, h, W)
<1> DEFINE c == Place(k + 1, u, f, m, b)
<1>1. "WORK" \in Ops /\ <<>> \in Seq(Int) /\ Len(<<>>) = 0 /\ u \o <<>> = u
  BY NothingOnTop DEF Ops
<1>2. c.ip = k + 1 /\ c.stack = u /\ c.left = f /\ c.marks = m /\ c.books = b /\ o.size \in Int
  BY DEF Place, IsOpcode
<1> HIDE DEF c
<1>3. Meets("WORK", o, arg, C, k, h, W, u, <<>>, c)
  BY <1>1, <1>2 DEF Meets, Enters
<1>4. /\ C[k + 1].op = "WORK" /\ C[k + 1].arg = arg /\ C[k + 1].size = o.size
      /\ k \in Nat /\ (k + 1) + 1 = k + 2
  BY <1>2, <1>3, Meeting
<1>5. Follows(C, c) = {k + 2}
  BY <1>2, <1>4 DEF Follows
<1>6. LeftAfter(C, c) = f /\ MarksAfter(C, c) = Append(m, arg) /\ BooksAfter(C, c) = Spent(b, o.size)
  <2>1. LeftAfter(C, c) = f /\ MarksAfter(C, c) = Append(m, arg) /\ Charge(C, c) = o.size
    BY <1>2, <1>4, ChargeOf DEF LeftAfter, MarksAfter
  <2>2. BooksAfter(C, c) = [gas |-> b.gas + o.size, memory |-> b.memory, result |-> b.result]
    BY <1>2, <1>4, <2>1 DEF BooksAfter
  <2> QED
    BY <1>2, <2>1, <2>2, SpentAs
<1>7. Given(C, c) = 0
  BY <1>2, <1>4 DEF Given
<1>8. Leads(C, {c}, {Place(k + 2, u \o [j \in 1..o.pushes |-> Given(C, c)], LeftAfter(C, c), MarksAfter(C, c),
                           BooksAfter(C, c))}, h, W)
  BY <1>3, <1>5, MeetsGoes
<1> QED
  BY <1>6, <1>7, <1>8 DEF c

\* A condition says whether it is still true, and leaves its mark.
LEMMA CondGoes ==
  ASSUME NEW C, NEW k, NEW u \in Seq(Int), NEW o, NEW arg \in Int, IsOpcode(o), o.size > 0, o.pops = 0,
         o.pushes = 1,
         NEW m, NEW h, NEW W, NEW f, NEW b \in Books, Enters(Single("COND", o, arg), C, k, u, m, h, W)
  PROVE  Leads(C, {Place(k + 1, u, f, m, b)},
               {Place(k + 2, u \o <<IF f[arg] > 0 THEN 1 ELSE 0>>, [f EXCEPT ![arg] = AtLeast(0, @ - 1)],
                      Append(m, arg), Spent(b, o.size))}, h, W)
<1> DEFINE c == Place(k + 1, u, f, m, b)
           v == IF f[arg] > 0 THEN 1 ELSE 0
<1>1. "COND" \in Ops /\ <<>> \in Seq(Int) /\ Len(<<>>) = 0 /\ u \o <<>> = u
  BY NothingOnTop DEF Ops
<1>2. c.ip = k + 1 /\ c.stack = u /\ c.left = f /\ c.marks = m /\ c.books = b /\ o.size \in Int
  BY DEF Place, IsOpcode
<1> HIDE DEF c
<1>3. Meets("COND", o, arg, C, k, h, W, u, <<>>, c)
  BY <1>1, <1>2 DEF Meets, Enters
<1>4. /\ C[k + 1].op = "COND" /\ C[k + 1].arg = arg /\ C[k + 1].size = o.size
      /\ k \in Nat /\ (k + 1) + 1 = k + 2
  BY <1>2, <1>3, Meeting
<1>5. Follows(C, c) = {k + 2}
  BY <1>2, <1>4 DEF Follows
<1>6. /\ LeftAfter(C, c) = [f EXCEPT ![arg] = AtLeast(0, @ - 1)] /\ MarksAfter(C, c) = Append(m, arg)
      /\ BooksAfter(C, c) = Spent(b, o.size)
  <2>1. /\ LeftAfter(C, c) = [f EXCEPT ![arg] = AtLeast(0, @ - 1)]
        /\ MarksAfter(C, c) = Append(m, arg) /\ Charge(C, c) = o.size
    BY <1>2, <1>4, ChargeOf DEF LeftAfter, MarksAfter
  <2>2. BooksAfter(C, c) = [gas |-> b.gas + o.size, memory |-> b.memory, result |-> b.result]
    BY <1>2, <1>4, <2>1 DEF BooksAfter
  <2> QED
    BY <1>2, <2>1, <2>2, SpentAs
<1>7. Given(C, c) = v
  BY <1>2, <1>4 DEF Given
<1>8. Leads(C, {c}, {Place(k + 2, u \o [j \in 1..o.pushes |-> Given(C, c)], LeftAfter(C, c), MarksAfter(C, c),
                           BooksAfter(C, c))}, h, W)
  BY <1>3, <1>5, MeetsGoes
<1>9. u \o [j \in 1..o.pushes |-> Given(C, c)] = u \o <<v>>
  BY <1>7, NoneAndOne
<1> QED
  BY <1>6, <1>8, <1>9 DEF c

\* STOP halts.
LEMMA StopGoes ==
  ASSUME NEW C, NEW k, NEW u \in Seq(Int), NEW m, NEW h, NEW W, NEW f, NEW b \in Books,
         Enters(Op("STOP"), C, k, u, m, h, W)
  PROVE  Leads(C, {Place(k + 1, u, f, m, b)}, {Place(0, u, f, m, b)}, h, W)
<1> DEFINE c == Place(k + 1, u, f, m, b)
           o == Ends(0)
<1>1. "STOP" \in Ops /\ Op("STOP") = Single("STOP", o, 0) /\ <<>> \in Seq(Int) /\ Len(<<>>) = 0 /\ u \o <<>> = u
  BY NothingOnTop, UsedOpcodes DEF Used, Op
<1>2. IsOpcode(o) /\ o.pops = 0 /\ o.pushes = 0 /\ o.size > 0
  BY TakesIs
<1>3. c.ip = k + 1 /\ c.stack = u /\ c.left = f /\ c.marks = m /\ c.books = b
  BY DEF Place
<1>4. Enters(Single("STOP", o, 0), C, k, u, m, h, W)
  BY <1>1
<1> HIDE DEF c, o
<1>5. Meets("STOP", o, 0, C, k, h, W, u, <<>>, c)
  BY <1>1, <1>2, <1>3, <1>4 DEF Meets, Enters
<1>6. C[k + 1].op = "STOP"
  BY <1>3, <1>5, Meeting
<1>7. Follows(C, c) = {0}
  BY <1>3, <1>6 DEF Follows
<1>8. LeftAfter(C, c) = f /\ MarksAfter(C, c) = m /\ BooksAfter(C, c) = b
  <2>1. LeftAfter(C, c) = f /\ MarksAfter(C, c) = m /\ Charge(C, c) = 0
    BY <1>3, <1>6 DEF LeftAfter, MarksAfter, Charge, Cheap
  <2>2. BooksAfter(C, c) = Spent(b, 0)
    <3>1. BooksAfter(C, c) = [gas |-> b.gas + 0, memory |-> b.memory, result |-> b.result]
      BY <1>3, <1>6, <2>1 DEF BooksAfter
    <3> QED
      BY <3>1, SpentAs
  <2> QED
    BY <2>1, <2>2, SpentNothing
<1>9. u \o [j \in 1..o.pushes |-> Given(C, c)] = u
  BY <1>2, NoneAndOne, NothingOnTop
<1>10. Leads(C, {c}, {Place(0, u \o [j \in 1..o.pushes |-> Given(C, c)], LeftAfter(C, c), MarksAfter(C, c),
                            BooksAfter(C, c))}, h, W)
  BY <1>5, <1>7, MeetsGoes
<1> QED
  BY <1>8, <1>9, <1>10 DEF c

\* What holds where a run enters a code.
LEMMA EntersIs ==
  ASSUME NEW a \in Codes, NEW C, NEW k, NEW u, NEW m, NEW h, NEW W, Enters(a, C, k, u, m, h, W)
  PROVE  /\ k \in Nat /\ u \in Seq(Int) /\ Len(u) \in Nat /\ m \in Seq(Int) /\ OnTrack(m, W)
         /\ C \in Seq(Instruction) /\ Takes_room(C) /\ k + Len(a.code) <= Len(C) /\ Len(a.code) \in Nat
         /\ \A j \in 1..Len(a.code) : C[k + j] = a.code[j]
         /\ Offset(C, k + 1) \in Nat
         /\ Offset(C, k + Len(a.code) + 1) = Offset(C, k + 1) + Length(a)
<1>1. Spans(a, C, k, Len(u), h)
  BY DEF Enters
<1>2. /\ Offset(C, k + 1) \in Nat
      /\ Offset(C, k + Len(a.code) + 1) = Offset(C, k + 1) + Length(a)
  BY <1>1, OffsetAdds
<1> QED
  BY <1>1, <1>2, CodesAre DEF Enters, Spans, Stands

\* The stack at a part is not below zero.
LEMMA PartFits ==
  ASSUME NEW p, NEW a, NEW x, NEW g, Part(p, a, x, g), NEW C, NEW k, NEW u, NEW m, NEW h, NEW W,
         Enters(a, C, k, u, m, h, W)
  PROVE  Len(u) + g >= 0
BY DEF Part

\* Who enters a code enters its part, when the stack is as high as it is there.
LEMMA PartOf ==
  ASSUME NEW p, NEW a, NEW x, NEW g, Part(p, a, x, g), NEW C, NEW k, NEW u, NEW m, NEW h, NEW W,
         Enters(a, C, k, u, m, h, W), NEW v \in Seq(Int), NEW r \in Seq(Int),
         Len(v) = Len(u) + g, OnTrack(r, W)
  PROVE  Enters(p, C, k + x, v, r, h, W)
BY DEF Part

\* A code is a part of itself.
LEMMA PartSelf ==
  ASSUME NEW a \in Codes
  PROVE  Part(a, a, 0, 0)
<1>2. ASSUME NEW C, NEW k, NEW u, NEW m, NEW h, NEW W, Enters(a, C, k, u, m, h, W)
      PROVE  Len(u) + 0 >= 0
  BY <1>2, EntersIs
<1>1. ASSUME NEW C, NEW k, NEW u, NEW m, NEW h, NEW W, Enters(a, C, k, u, m, h, W),
             NEW v \in Seq(Int), NEW r \in Seq(Int), Len(v) = Len(u) + 0, OnTrack(r, W)
      PROVE  Enters(a, C, k + 0, v, r, h, W)
  <2>1. k + 0 = k /\ Len(u) + 0 = Len(u)
    BY <1>1, EntersIs
  <2> QED
    BY <1>1, <2>1 DEF Enters
<1> QED
  BY <1>1, <1>2 DEF Part

\* A part of a part is a part.
LEMMA PartOfPart ==
  ASSUME NEW p, NEW a, NEW c, NEW x, NEW y, NEW g, NEW i, Part(p, a, x, g), Part(a, c, y, i)
  PROVE  Part(p, c, y + x, i + g)
<1>1. x \in Nat /\ y \in Nat /\ g \in Int /\ i \in Int /\ p \in Codes /\ a \in Codes /\ c \in Codes
  BY DEF Part
<1>2. ASSUME NEW C, NEW k, NEW u, NEW m, NEW h, NEW W, Enters(c, C, k, u, m, h, W),
             NEW v \in Seq(Int), NEW r \in Seq(Int), Len(v) = Len(u) + (i + g), OnTrack(r, W)
      PROVE  Enters(p, C, k + (y + x), v, r, h, W)
  <2>1. k \in Nat /\ Len(u) \in Nat /\ (k + y) + x = k + (y + x) /\ Len(u) + (i + g) = (Len(u) + i) + g
    <3>1. k \in Nat /\ Len(u) \in Nat
      BY <1>1, <1>2, EntersIs
    <3> DEFINE n == Len(u)
    <3>2. n \in Nat
      BY <3>1
    <3> HIDE DEF n
    <3>3. n + (i + g) = (n + i) + g
      BY <1>1, <3>2
    <3> QED
      BY <1>1, <3>1, <3>3 DEF n
  <2>2. u \in Seq(Int) /\ Spans(c, C, k, Len(u), h)
    BY <1>2 DEF Enters
  <2>3. Len(u) + i >= 0
    BY <1>2, PartFits
  <2> DEFINE w == [j \in 1..(Len(u) + i) |-> 0]
  <2>4. Len(u) + i \in Nat
    BY <1>1, <2>1, <2>3
  <2>5. w \in Seq(Int) /\ Len(w) = Len(u) + i
    BY <2>4
  <2> HIDE DEF w
  <2>6. Enters(a, C, k + y, w, r, h, W)
    BY <1>2, <2>5, PartOf
  <2>7. Len(v) = Len(w) + g
    BY <1>2, <2>1, <2>5
  <2>8. Enters(p, C, (k + y) + x, v, r, h, W)
    BY <1>2, <2>6, <2>7, PartOf
  <2> QED
    BY <2>1, <2>8
<1>4. ASSUME NEW C, NEW k, NEW u, NEW m, NEW h, NEW W, Enters(c, C, k, u, m, h, W)
      PROVE  Len(u) + (i + g) >= 0
  <2>1. k \in Nat /\ Len(u) \in Nat /\ Len(u) + (i + g) = (Len(u) + i) + g
    <3>1. k \in Nat /\ Len(u) \in Nat
      BY <1>1, <1>4, EntersIs
    <3> DEFINE n == Len(u)
    <3>2. n \in Nat
      BY <3>1
    <3> HIDE DEF n
    <3>3. n + (i + g) = (n + i) + g
      BY <1>1, <3>2
    <3> QED
      BY <1>1, <3>1, <3>3 DEF n
  <2>2. u \in Seq(Int) /\ m \in Seq(Int) /\ OnTrack(m, W)
    BY <1>4 DEF Enters
  <2>3. Len(u) + i >= 0
    BY <1>4, PartFits
  <2> DEFINE w == [j \in 1..(Len(u) + i) |-> 0]
  <2>4. Len(u) + i \in Nat
    BY <1>1, <2>1, <2>3
  <2>5. w \in Seq(Int) /\ Len(w) = Len(u) + i
    BY <2>4
  <2> HIDE DEF w
  <2>6. Enters(a, C, k + y, w, m, h, W)
    BY <1>4, <2>2, <2>5, PartOf
  <2>7. Len(w) + g >= 0
    BY <2>6, PartFits
  <2> QED
    BY <2>1, <2>5, <2>7
<1>3. y + x \in Nat /\ i + g \in Int
  BY <1>1
<1> QED
  BY <1>1, <1>2, <1>3, <1>4 DEF Part

\* The two parts of a sum.
LEMMA PartsOfSum ==
  ASSUME NEW a \in Codes, NEW b \in Codes
  PROVE  /\ Concat(a, b) \in Codes /\ Len(Concat(a, b).code) = Len(a.code) + Len(b.code)
         /\ Length(Concat(a, b)) = Length(a) + Length(b)
         /\ Balance(Concat(a, b)) = Balance(a) + Balance(b)
         /\ Concat(a, b).terminating = b.terminating
         /\ Part(a, Concat(a, b), 0, 0) /\ Part(b, Concat(a, b), Len(a.code), Balance(a))
<1> DEFINE c == Concat(a, b)
<1>1. /\ c \in Codes /\ Len(c.code) = Len(a.code) + Len(b.code) /\ Length(c) = Length(a) + Length(b)
      /\ c.pushes - c.pops = a.pushes - a.pops + b.pushes - b.pops
  BY ConcatCodes
<1>2. /\ Len(a.code) \in Nat /\ a.pushes \in Nat /\ a.pops \in Nat /\ b.pushes \in Nat /\ b.pops \in Nat
  BY CodesAre
<1>3. Balance(c) = Balance(a) + Balance(b) /\ Balance(a) \in Int
  BY <1>1, <1>2 DEF Balance
<1>4. c.terminating = b.terminating
  BY DEF Concat
<1>5. ASSUME NEW C, NEW k, NEW u, NEW m, NEW h, NEW W, Enters(c, C, k, u, m, h, W)
      PROVE  /\ Len(u) + 0 >= 0 /\ Len(u) + Balance(a) >= 0
             /\ \A v \in Seq(Int), r \in Seq(Int) :
                   Len(v) = Len(u) + 0 /\ OnTrack(r, W) => Enters(a, C, k + 0, v, r, h, W)
             /\ \A v \in Seq(Int), r \in Seq(Int) :
                   Len(v) = Len(u) + Balance(a) /\ OnTrack(r, W) => Enters(b, C, k + Len(a.code), v, r, h, W)
  <2>1. k \in Nat /\ Len(u) \in Nat /\ k + 0 = k /\ Len(u) + 0 = Len(u)
    BY <1>1, <1>5, EntersIs
  <2>2. Spans(a, C, k, Len(u), h) /\ Spans(b, C, k + Len(a.code), Len(u) + a.pushes - a.pops, h)
    BY <1>5, SpansParts DEF Enters
  <2> DEFINE n == Len(u)
  <2>3. n \in Nat
    BY <2>1
  <2>4. n + a.pushes - a.pops = n + Balance(a)
    <3> HIDE DEF n
    <3> QED
      BY <1>2, <2>3 DEF Balance
  <2>5. Len(u) + Balance(a) >= 0
    BY <2>2, <2>4 DEF Spans
  <2> QED
    BY <2>1, <2>2, <2>4, <2>5 DEF Enters
<1>6. Part(a, c, 0, 0)
  BY <1>1, <1>5 DEF Part
<1>7. Part(b, c, Len(a.code), Balance(a))
  BY <1>1, <1>2, <1>3, <1>5 DEF Part
<1> QED
  BY <1>1, <1>3, <1>4, <1>6, <1>7

\* The empty code.
LEMMA EmptyCodes ==
  /\ Empty \in Codes /\ Len(Empty.code) = 0 /\ Balance(Empty) = 0 /\ Length(Empty) = 0
<1>1. Empty \in Bytecodes /\ Length(Empty) = 0
  BY EmptyBytecode, LengthOfEmpty
<1>2. Sound(Empty) /\ Takes_room(Empty.code) /\ Len(Empty.code) = 0 /\ Balance(Empty) = 0
  BY EmptySound DEF Empty, Takes_room, Balance
<1> QED
  BY <1>1, <1>2 DEF Codes

\* Lengths and balance of a code are numbers.
LEMMA CodeIs ==
  ASSUME NEW a \in Codes
  PROVE  Len(a.code) \in Nat /\ Balance(a) \in Int /\ Length(a) \in Nat
BY CodesAre DEF Balance

\* A sum that begins with nothing.
LEMMA PartsOfOne ==
  ASSUME NEW a \in Codes
  PROVE  /\ Concat(Empty, a) \in Codes /\ Len(Concat(Empty, a).code) = Len(a.code)
         /\ Length(Concat(Empty, a)) = Length(a) /\ Balance(Concat(Empty, a)) = Balance(a)
         /\ Concat(Empty, a).terminating = a.terminating
         /\ Part(a, Concat(Empty, a), 0, 0)
<1> DEFINE c == Concat(Empty, a)
<1>1. /\ c \in Codes /\ Len(c.code) = Len(Empty.code) + Len(a.code) /\ Length(c) = Length(Empty) + Length(a)
      /\ Balance(c) = Balance(Empty) + Balance(a) /\ c.terminating = a.terminating
      /\ Part(a, c, Len(Empty.code), Balance(Empty))
  BY EmptyCodes, PartsOfSum
<1> HIDE DEF c
<1> QED
  BY <1>1, EmptyCodes, CodeIs DEF c

\* A part of a first summand, and one of a second.
LEMMA PartOfFirst ==
  ASSUME NEW a \in Codes, NEW b \in Codes, NEW p, NEW x, NEW g, Part(p, a, x, g)
  PROVE  Part(p, Concat(a, b), x, g)
<1>1. Part(a, Concat(a, b), 0, 0)
  BY PartsOfSum
<1>2. x \in Nat /\ g \in Int /\ 0 + x = x /\ 0 + g = g
  BY DEF Part
<1>3. Part(p, Concat(a, b), 0 + x, 0 + g)
  BY <1>1, PartOfPart
<1> QED
  BY <1>2, <1>3

\* Join of one code is a sum.
LEMMA JoinOne ==
  ASSUME NEW a \in Codes
  PROVE  Join(<<a>>) = Concat(Empty, a)
<1> DEFINE parts == <<a>>
<1>1. Empty \in Codes /\ \A x, y \in Codes : Concat(x, y) \in Codes
  BY EmptyCodes, PartsOfSum
<1>2. parts \in Seq(Codes) /\ Len(parts) = 1 /\ parts[1] = a
  OBVIOUS
<1> HIDE DEF parts
<1>3. PICK s : Sums(s, Codes, parts)
  BY <1>1, <1>2, JoinSums
<1>4. /\ s[0] = Empty /\ s[1] = Join(parts)
      /\ s[1] = Concat(s[0], a)
  BY <1>2, <1>3 DEF Sums
<1> QED
  BY <1>4 DEF parts

\* Join of two codes.
LEMMA JoinTwo ==
  ASSUME NEW a \in Codes, NEW b \in Codes
  PROVE  Join(<<a, b>>) = Concat(Concat(Empty, a), b)
<1> DEFINE parts == <<a, b>>
<1>1. Empty \in Codes /\ \A x, y \in Codes : Concat(x, y) \in Codes
  BY EmptyCodes, PartsOfSum
<1>2. parts \in Seq(Codes) /\ Len(parts) = 2 /\ parts[1] = a /\ parts[2] = b
  OBVIOUS
<1> HIDE DEF parts
<1>3. PICK s : Sums(s, Codes, parts)
  BY <1>1, <1>2, JoinSums
<1>4. /\ s[0] = Empty /\ s[2] = Join(parts)
      /\ s[1] = Concat(s[0], a)
      /\ s[2] = Concat(s[1], b)
  BY <1>2, <1>3 DEF Sums
<1> QED
  BY <1>4 DEF parts

\* Join of three codes.
LEMMA JoinThree ==
  ASSUME NEW a \in Codes, NEW b \in Codes, NEW c \in Codes
  PROVE  Join(<<a, b, c>>) = Concat(Concat(Concat(Empty, a), b), c)
<1> DEFINE parts == <<a, b, c>>
<1>1. Empty \in Codes /\ \A x, y \in Codes : Concat(x, y) \in Codes
  BY EmptyCodes, PartsOfSum
<1>2. parts \in Seq(Codes) /\ Len(parts) = 3 /\ parts[1] = a /\ parts[2] = b /\ parts[3] = c
  OBVIOUS
<1> HIDE DEF parts
<1>3. PICK s : Sums(s, Codes, parts)
  BY <1>1, <1>2, JoinSums
<1>4. /\ s[0] = Empty /\ s[3] = Join(parts)
      /\ s[1] = Concat(s[0], a)
      /\ s[2] = Concat(s[1], b)
      /\ s[3] = Concat(s[2], c)
  BY <1>2, <1>3 DEF Sums
<1> QED
  BY <1>4 DEF parts

\* Join of four codes.
LEMMA JoinFour ==
  ASSUME NEW a \in Codes, NEW b \in Codes, NEW c \in Codes, NEW d \in Codes
  PROVE  Join(<<a, b, c, d>>) = Concat(Concat(Concat(Concat(Empty, a), b), c), d)
<1> DEFINE parts == <<a, b, c, d>>
<1>1. Empty \in Codes /\ \A x, y \in Codes : Concat(x, y) \in Codes
  BY EmptyCodes, PartsOfSum
<1>2. parts \in Seq(Codes) /\ Len(parts) = 4 /\ parts[1] = a /\ parts[2] = b /\ parts[3] = c /\ parts[4] = d
  OBVIOUS
<1> HIDE DEF parts
<1>3. PICK s : Sums(s, Codes, parts)
  BY <1>1, <1>2, JoinSums
<1>4. /\ s[0] = Empty /\ s[4] = Join(parts)
      /\ s[1] = Concat(s[0], a)
      /\ s[2] = Concat(s[1], b)
      /\ s[3] = Concat(s[2], c)
      /\ s[4] = Concat(s[3], d)
  BY <1>2, <1>3 DEF Sums
<1> QED
  BY <1>4 DEF parts

\* Where the parts of a join of two stand.
LEMMA TwoParts ==
  ASSUME NEW a \in Codes, NEW b \in Codes
  PROVE  LET j == Join(<<a, b>>)
         IN  /\ j \in Codes /\ Len(j.code) = Len(a.code) + Len(b.code)
             /\ Length(j) = Length(a) + Length(b) /\ Balance(j) = Balance(a) + Balance(b)
             /\ j.terminating = b.terminating
             /\ Part(a, j, 0, 0) /\ Part(b, j, Len(a.code), Balance(a))
<1> DEFINE e == Concat(Empty, a)
           j == Join(<<a, b>>)
<1>1. /\ e \in Codes /\ Len(e.code) = Len(a.code) /\ Length(e) = Length(a) /\ Balance(e) = Balance(a)
      /\ Part(a, e, 0, 0)
  BY PartsOfOne
<1>2. j = Concat(e, b)
  BY JoinTwo
<1> HIDE DEF e, j
<1>3. /\ j \in Codes /\ Len(j.code) = Len(e.code) + Len(b.code) /\ Length(j) = Length(e) + Length(b)
      /\ Balance(j) = Balance(e) + Balance(b) /\ j.terminating = b.terminating
      /\ Part(b, j, Len(e.code), Balance(e)) /\ Part(a, j, 0, 0)
  BY <1>1, <1>2, PartsOfSum, PartOfFirst
<1> QED
  BY <1>1, <1>3 DEF j

\* Where the parts of a join of three stand.
LEMMA ThreeParts ==
  ASSUME NEW a \in Codes, NEW b \in Codes, NEW c \in Codes
  PROVE  LET j == Join(<<a, b, c>>)
         IN  /\ j \in Codes /\ Len(j.code) = Len(a.code) + Len(b.code) + Len(c.code)
             /\ Length(j) = Length(a) + Length(b) + Length(c)
             /\ Balance(j) = Balance(a) + Balance(b) + Balance(c)
             /\ j.terminating = c.terminating
             /\ Part(a, j, 0, 0) /\ Part(b, j, Len(a.code), Balance(a))
             /\ Part(c, j, Len(a.code) + Len(b.code), Balance(a) + Balance(b))
<1> DEFINE e == Join(<<a, b>>)
           j == Join(<<a, b, c>>)
<1>1. /\ e \in Codes /\ Len(e.code) = Len(a.code) + Len(b.code) /\ Length(e) = Length(a) + Length(b)
      /\ Balance(e) = Balance(a) + Balance(b) /\ Part(a, e, 0, 0) /\ Part(b, e, Len(a.code), Balance(a))
  BY TwoParts
<1>2. j = Concat(e, c)
  BY JoinTwo, JoinThree
<1> HIDE DEF e, j
<1>3. /\ j \in Codes /\ Len(j.code) = Len(e.code) + Len(c.code) /\ Length(j) = Length(e) + Length(c)
      /\ Balance(j) = Balance(e) + Balance(c) /\ j.terminating = c.terminating
      /\ Part(c, j, Len(e.code), Balance(e)) /\ Part(a, j, 0, 0) /\ Part(b, j, Len(a.code), Balance(a))
  BY <1>1, <1>2, PartsOfSum, PartOfFirst
<1> QED
  BY <1>1, <1>3 DEF j

\* Where the parts of a join of four stand.
LEMMA FourParts ==
  ASSUME NEW a \in Codes, NEW b \in Codes, NEW c \in Codes, NEW d \in Codes
  PROVE  LET j == Join(<<a, b, c, d>>)
         IN  /\ j \in Codes /\ Len(j.code) = Len(a.code) + Len(b.code) + Len(c.code) + Len(d.code)
             /\ Length(j) = Length(a) + Length(b) + Length(c) + Length(d)
             /\ Balance(j) = Balance(a) + Balance(b) + Balance(c) + Balance(d)
             /\ j.terminating = d.terminating
             /\ Part(a, j, 0, 0) /\ Part(b, j, Len(a.code), Balance(a))
             /\ Part(c, j, Len(a.code) + Len(b.code), Balance(a) + Balance(b))
             /\ Part(d, j, Len(a.code) + Len(b.code) + Len(c.code), Balance(a) + Balance(b) + Balance(c))
<1> DEFINE e == Join(<<a, b, c>>)
           j == Join(<<a, b, c, d>>)
<1>1. /\ e \in Codes /\ Len(e.code) = Len(a.code) + Len(b.code) + Len(c.code)
      /\ Length(e) = Length(a) + Length(b) + Length(c)
      /\ Balance(e) = Balance(a) + Balance(b) + Balance(c)
      /\ Part(a, e, 0, 0) /\ Part(b, e, Len(a.code), Balance(a))
      /\ Part(c, e, Len(a.code) + Len(b.code), Balance(a) + Balance(b))
  BY ThreeParts, ZenonT(40)
<1>2. j = Concat(e, d)
  BY JoinThree, JoinFour
<1> HIDE DEF e, j
<1>3. /\ j \in Codes /\ Len(j.code) = Len(e.code) + Len(d.code) /\ Length(j) = Length(e) + Length(d)
      /\ Balance(j) = Balance(e) + Balance(d) /\ j.terminating = d.terminating
      /\ Part(d, j, Len(e.code), Balance(e)) /\ Part(a, j, 0, 0) /\ Part(b, j, Len(a.code), Balance(a))
      /\ Part(c, j, Len(a.code) + Len(b.code), Balance(a) + Balance(b))
  BY <1>1, <1>2, PartsOfSum, PartOfFirst
<1> QED
  BY <1>1, <1>3 DEF j

\* Calls of one argument and of two: the last argument comes first.
LEMMA CallOne ==
  ASSUME NEW o \in Codes, NEW x \in Codes
  PROVE  LET j == Call(o, <<x>>)
         IN  /\ j \in Codes /\ Len(j.code) = Len(x.code) + Len(o.code)
             /\ Length(j) = Length(x) + Length(o) /\ Balance(j) = Balance(x) + Balance(o)
             /\ j.terminating = o.terminating
             /\ Part(x, j, 0, 0) /\ Part(o, j, Len(x.code), Balance(x))
<1> DEFINE j == Call(o, <<x>>)
<1>1. j = Join(<<x, o>>)
  <2>1. Reverse(<<x>>) = <<x>>
    BY DEF Reverse
  <2>2. j = Concat(Join(<<x>>), o)
    BY <2>1 DEF Call
  <2> QED
    BY <2>2, JoinOne, JoinTwo
<1> HIDE DEF j
<1> QED
  BY <1>1, TwoParts DEF j

\* A call with two arguments: the last one first, the opcode last.
LEMMA CallTwo ==
  ASSUME NEW o \in Codes, NEW x \in Codes, NEW y \in Codes
  PROVE  LET j == Call(o, <<x, y>>)
         IN  /\ j \in Codes /\ Len(j.code) = Len(y.code) + Len(x.code) + Len(o.code)
             /\ Length(j) = Length(y) + Length(x) + Length(o)
             /\ Balance(j) = Balance(y) + Balance(x) + Balance(o)
             /\ j.terminating = o.terminating
             /\ Part(y, j, 0, 0) /\ Part(x, j, Len(y.code), Balance(y))
             /\ Part(o, j, Len(y.code) + Len(x.code), Balance(y) + Balance(x))
<1> DEFINE j == Call(o, <<x, y>>)
<1>1. j = Join(<<y, x, o>>)
  <2>1. Reverse(<<x, y>>) = <<y, x>>
    <3> DEFINE s == <<x, y>>
               t == Reverse(s)
               w == <<y, x>>
    <3>1. Len(s) = 2 /\ s[1] = x /\ s[2] = y /\ Len(w) = 2 /\ w[1] = y /\ w[2] = x /\ DOMAIN w = 1..2
      OBVIOUS
    <3>2. t = [i \in 1..Len(s) |-> s[(Len(s) - i) + 1]]
      BY DEF Reverse
    <3> HIDE DEF s, t
    <3>3. DOMAIN t = 1..2 /\ t[1] = y /\ t[2] = x
      BY <3>1, <3>2
    <3>4. t = [i \in 1..2 |-> IF i = 1 THEN y ELSE x]
      BY <3>1, <3>2
    <3>5. w = [i \in 1..2 |-> IF i = 1 THEN y ELSE x]
      OBVIOUS
    <3> QED
      BY <3>4, <3>5 DEF t, s
  <2>2. j = Concat(Join(<<y, x>>), o)
    BY <2>1 DEF Call
  <2> QED
    BY <2>2, JoinTwo, JoinThree
<1> HIDE DEF j
<1>2. LET t == Join(<<y, x, o>>)
      IN  /\ t \in Codes /\ Len(t.code) = Len(y.code) + Len(x.code) + Len(o.code)
          /\ Length(t) = Length(y) + Length(x) + Length(o)
          /\ Balance(t) = Balance(y) + Balance(x) + Balance(o)
          /\ t.terminating = o.terminating
          /\ Part(y, t, 0, 0) /\ Part(x, t, Len(y.code), Balance(y))
          /\ Part(o, t, Len(y.code) + Len(x.code), Balance(y) + Balance(x))
  BY ThreeParts, ZenonT(40)
<1> QED
  BY <1>1, <1>2, Zenon DEF j

(***************************************************************************)
(* The jumps of the generators, with the distance they compute.            *)
(***************************************************************************)
\* What is spent in two parts is spent at once.
LEMMA SpentTwice ==
  ASSUME NEW b \in Books
  PROVE  \A n, m \in Int : Spent(b, n) \in Books /\ Spent(Spent(b, n), m) = Spent(b, n + m)
BY SpentIs

\* Three ways in a row.
LEMMA LeadsOnOn ==
  ASSUME NEW C, NEW X, NEW Y, NEW Z, NEW V, NEW h, NEW W, Leads(C, X, Y, h, W), Leads(C, Y, Z, h, W),
         Leads(C, Z, V, h, W)
  PROVE  Leads(C, X, V, h, W)
BY LeadsOn, Zenon

\* Who enters a code enters its part with the items put on the stack.
LEMMA EntersTop ==
  ASSUME NEW p, NEW a, NEW x, NEW g, Part(p, a, x, g), NEW C, NEW k, NEW u, NEW m, NEW h, NEW W,
         Enters(a, C, k, u, m, h, W)
  PROVE  /\ k \in Nat /\ u \in Seq(Int) /\ m \in Seq(Int) /\ Len(u) \in Nat /\ OnTrack(m, W)
         /\ g = 0 => Enters(p, C, k + x, u, m, h, W)
         /\ g = 1 => \A i \in Int : Enters(p, C, k + x, u \o <<i>>, m, h, W)
         /\ g = 2 => \A i, j \in Int : Enters(p, C, k + x, u \o <<i, j>>, m, h, W)
<1>1. /\ k \in Nat /\ u \in Seq(Int) /\ m \in Seq(Int) /\ Len(u) \in Nat /\ OnTrack(m, W)
  BY EntersIs DEF Part
<1>2. ASSUME g = 0 PROVE Enters(p, C, k + x, u, m, h, W)
  BY <1>1, <1>2, PartOf
<1>3. ASSUME g = 1, NEW i \in Int PROVE Enters(p, C, k + x, u \o <<i>>, m, h, W)
  <2> DEFINE v == u \o <<i>>
  <2>1. v \in Seq(Int) /\ Len(v) = Len(u) + 1
    BY <1>1, TopTwo
  <2> HIDE DEF v
  <2>2. Enters(p, C, k + x, v, m, h, W)
    BY <1>1, <1>3, <2>1, PartOf
  <2> QED
    BY <2>2 DEF v
<1>4. ASSUME g = 2, NEW i \in Int, NEW j \in Int PROVE Enters(p, C, k + x, u \o <<i, j>>, m, h, W)
  <2> DEFINE v == u \o <<i, j>>
  <2>1. v \in Seq(Int) /\ Len(v) = Len(u) + 2
    BY <1>1, TopTwo
  <2> HIDE DEF v
  <2>2. Enters(p, C, k + x, v, m, h, W)
    BY <1>1, <1>4, <2>1, PartOf
  <2> QED
    BY <2>2 DEF v
<1> QED
  BY <1>1, <1>2, <1>3, <1>4

\* PC + distance: its parts.
LEMMA AheadIs ==
  ASSUME NEW n \in Int
  PROVE  /\ Ahead(n) \in Codes /\ Len(Ahead(n).code) = 3 /\ Balance(Ahead(n)) = 1 /\ Length(Ahead(n)) \in Nat
         /\ Push(n) \in Codes /\ Length(Ahead(n)) = Length(Push(n)) + 2
         /\ Part(Push(n), Ahead(n), 0, 0) /\ Part(Op("PC"), Ahead(n), 1, 1) /\ Part(Op("ADD"), Ahead(n), 2, 2)
<1>1. /\ Push(n) \in Codes /\ Len(Push(n).code) = 1 /\ Balance(Push(n)) = 1 /\ Length(Push(n)) \in Nat
  BY IntSizeIs, PushAre, CodeIs DEF Push
<1>2. "PC" \in Used \ {"RJUMP", "RJUMPI"} /\ "ADD" \in Used \ {"RJUMP", "RJUMPI"}
  BY DEF Used
<1>3. /\ Op("PC") \in Codes /\ Len(Op("PC").code) = 1 /\ Balance(Op("PC")) = 1 /\ Length(Op("PC")) = 1
      /\ Op("ADD") \in Codes /\ Len(Op("ADD").code) = 1 /\ Balance(Op("ADD")) = -1 /\ Length(Op("ADD")) = 1
  BY <1>2, OpsAre
<1> DEFINE j == Ahead(n)
           x == Op("PC")
           y == Push(n)
           o == Op("ADD")
<1>4. /\ j \in Codes /\ Len(j.code) = Len(y.code) + Len(x.code) + Len(o.code)
      /\ Length(j) = Length(y) + Length(x) + Length(o)
      /\ Balance(j) = Balance(y) + Balance(x) + Balance(o)
      /\ Part(y, j, 0, 0) /\ Part(x, j, Len(y.code), Balance(y))
      /\ Part(o, j, Len(y.code) + Len(x.code), Balance(y) + Balance(x))
  BY <1>1, <1>3, CallTwo DEF Ahead
<1> HIDE DEF j, x, y, o
<1>5. /\ y \in Codes /\ Len(y.code) = 1 /\ Balance(y) = 1 /\ Length(y) \in Nat
      /\ Len(x.code) = 1 /\ Balance(x) = 1 /\ Length(x) = 1
      /\ Len(o.code) = 1 /\ Balance(o) = -1 /\ Length(o) = 1
  BY <1>1, <1>3 DEF x, y, o
<1>6. /\ j \in Codes /\ Len(j.code) = 3 /\ Balance(j) = 1 /\ Length(j) \in Nat
      /\ y \in Codes /\ Length(j) = Length(y) + 2
      /\ Part(y, j, 0, 0) /\ Part(x, j, 1, 1) /\ Part(o, j, 2, 2)
  BY <1>4, <1>5
<1> QED
  BY <1>6 DEF j, x, y, o

\* PC + distance leaves the offset of its PC and the distance.
LEMMA AheadGoes ==
  ASSUME NEW n \in Int, NEW C, NEW k, NEW u, NEW m, NEW h, NEW W, NEW f, NEW b \in Books,
         Enters(Ahead(n), C, k, u, m, h, W)
  PROVE  LET d == Offset(C, k + 1) + Length(Ahead(n)) - 2 + n
         IN  /\ d \in Int
             /\ Leads(C, {Place(k + 1, u, f, m, b)}, {Place(k + 4, u \o <<d>>, f, m, Spent(b, 8))}, h, W)
<1>1. /\ Part(Push(n), Ahead(n), 0, 0) /\ Part(Op("PC"), Ahead(n), 1, 1) /\ Part(Op("ADD"), Ahead(n), 2, 2)
      /\ Length(Ahead(n)) = Length(Push(n)) + 2 /\ Push(n) \in Codes /\ IntSize[n] \in Nat
      /\ Push(n) = PushN(IntSize[n], n) /\ Ahead(n) \in Codes
  BY AheadIs, IntSizeIs DEF Push
<1>2. k \in Nat /\ u \in Seq(Int) /\ m \in Seq(Int) /\ Offset(C, k + 1) \in Nat
  BY <1>1, EntersIs
<1>3. /\ Enters(Push(n), C, k + 0, u, m, h, W)
      /\ \A i \in Int : Enters(Op("PC"), C, k + 1, u \o <<i>>, m, h, W)
      /\ \A i, j \in Int : Enters(Op("ADD"), C, k + 2, u \o <<i, j>>, m, h, W)
  BY <1>1, EntersTop
<1>4. /\ k + 0 = k /\ (k + 1) + 1 = k + 2 /\ (k + 1) + 2 = k + 3 /\ (k + 2) + 1 = k + 3 /\ (k + 2) + 2 = k + 4
  BY <1>2
<1> DEFINE e == Offset(C, k + 2)
<1>5. e = Offset(C, k + 1) + Length(Push(n)) /\ e \in Int
  <2>1. Len(Push(n).code) = 1 /\ Length(Push(n)) \in Nat
    BY <1>1, PushAre, CodeIs
  <2>2. Offset(C, k + Len(Push(n).code) + 1) = Offset(C, k + 1) + Length(Push(n))
    BY <1>1, <1>3, <1>4, EntersIs
  <2> QED
    BY <1>2, <1>4, <2>1, <2>2
<1> HIDE DEF e
<1>6. Leads(C, {Place(k + 1, u, f, m, b)}, {Place(k + 2, u \o <<n>>, f, m, Spent(b, 3))}, h, W)
  <2>1. Enters(PushN(IntSize[n], n), C, k, u, m, h, W)
    BY <1>1, <1>3, <1>4
  <2> QED
    BY <1>1, <1>2, <2>1, PushGoes
<1>7. Leads(C, {Place(k + 2, u \o <<n>>, f, m, Spent(b, 3))}, {Place(k + 3, u \o <<n, e>>, f, m, Spent(b, 5))}, h, W)
  <2>1. u \o <<n>> \in Seq(Int) /\ (u \o <<n>>) \o <<e>> = u \o <<n, e>>
    BY <1>2, <1>5, TopTwo
  <2>2. Spent(b, 3) \in Books /\ Spent(Spent(b, 3), 2) = Spent(b, 5)
    BY SpentTwice
  <2> DEFINE v == u \o <<n>>
             t == Spent(b, 3)
  <2>3. Enters(Op("PC"), C, k + 1, v, m, h, W) /\ v \in Seq(Int) /\ t \in Books
    BY <1>3, <2>1, <2>2
  <2> HIDE DEF v, t
  <2>4. Leads(C, {Place((k + 1) + 1, v, f, m, t)},
              {Place((k + 1) + 2, v \o <<Offset(C, (k + 1) + 1)>>, f, m, Spent(t, 2))}, h, W)
    BY <2>3, PcGoes
  <2>5. Leads(C, {Place(k + 2, v, f, m, t)}, {Place(k + 3, v \o <<e>>, f, m, Spent(t, 2))}, h, W)
    BY <1>4, <2>4 DEF e
  <2> QED
    BY <2>1, <2>2, <2>5 DEF v, t
<1>8. Leads(C, {Place(k + 3, u \o <<n, e>>, f, m, Spent(b, 5))},
            {Place(k + 4, u \o <<e + n>>, f, m, Spent(b, 8))}, h, W)
  <2>1. Spent(b, 5) \in Books /\ Spent(Spent(b, 5), 3) = Spent(b, 8)
    BY SpentTwice
  <2> DEFINE t == Spent(b, 5)
  <2>2. Enters(Op("ADD"), C, k + 2, u \o <<n, e>>, m, h, W) /\ t \in Books
    BY <1>3, <1>5, <2>1
  <2> HIDE DEF t
  <2>3. Leads(C, {Place((k + 2) + 1, u \o <<n, e>>, f, m, t)},
              {Place((k + 2) + 2, u \o <<e + n>>, f, m, Spent(t, 3))}, h, W)
    BY <1>2, <1>5, <2>2, AddGoes
  <2> QED
    BY <1>4, <2>1, <2>3 DEF t
<1>9. Leads(C, {Place(k + 1, u, f, m, b)}, {Place(k + 4, u \o <<e + n>>, f, m, Spent(b, 8))}, h, W)
  BY <1>6, <1>7, <1>8, LeadsOnOn
<1>10. e + n = Offset(C, k + 1) + Length(Ahead(n)) - 2 + n /\ e + n \in Int
  <2>1. Length(Push(n)) \in Nat
    BY <1>1, CodeIs
  <2> QED
    BY <1>1, <1>2, <1>5, <2>1
<1> QED
  BY <1>9, <1>10

\* It aims so far from its own start.
LEMMA AheadAims ==
  ASSUME NEW n \in Int
  PROVE  Aims(Ahead(n), Length(Ahead(n)) - 2 + n)
<1> DEFINE a == Ahead(n)
           l == Length(a)
<1>1. a \in Codes /\ Len(a.code) = 3 /\ Balance(a) = 1 /\ l \in Nat
  BY AheadIs
<1>2. ASSUME NEW C, NEW k, NEW u, NEW m, NEW h, NEW W, NEW f, NEW b \in Books, Enters(a, C, k, u, m, h, W)
      PROVE  /\ Offset(C, k + 1) + (l - 2 + n) \in Int
             /\ Leads(C, {Place(k + 1, u, f, m, b)},
                      {Place(k + 4, u \o <<Offset(C, k + 1) + (l - 2 + n)>>, f, m, Spent(b, 8))}, h, W)
  <2> DEFINE o == Offset(C, k + 1)
             d == o + l - 2 + n
  <2>1. Leads(C, {Place(k + 1, u, f, m, b)}, {Place(k + 4, u \o <<d>>, f, m, Spent(b, 8))}, h, W)
    BY <1>2, AheadGoes
  <2>2. o \in Nat
    BY <1>1, <1>2, EntersIs
  <2> HIDE DEF o, l
  <2>3. d = o + (l - 2 + n) /\ d \in Int
    BY <1>1, <2>2
  <2> HIDE DEF d
  <2> QED
    BY <2>1, <2>3 DEF o
<1>3. l - 2 + n \in Int
  BY <1>1
<1> HIDE DEF a, l
<1>4. Aims(a, l - 2 + n)
  BY <1>1, <1>2, <1>3 DEF Aims
<1> QED
  BY <1>4 DEF a, l

\* PC - distance: its parts.
LEMMA BackIs ==
  ASSUME NEW n \in Int
  PROVE  LET j == JumpBack(n)
         IN  /\ j \in Codes /\ Len(j.code) = 3 /\ Balance(j) = 1 /\ Length(j) = 7
             /\ Part(PushN(4, n), j, 0, 0) /\ Part(Op("PC"), j, 1, 1) /\ Part(Op("SUB"), j, 2, 2)
<1>0. 4 \in Nat /\ 1 + 4 = 5
  OBVIOUS
<1>1. PushN(4, n) \in Codes /\ Len(PushN(4, n).code) = 1 /\ Balance(PushN(4, n)) = 1 /\ Length(PushN(4, n)) = 5
  BY <1>0, PushAre
<1>2. "PC" \in Used \ {"RJUMP", "RJUMPI"} /\ "SUB" \in Used \ {"RJUMP", "RJUMPI"}
  BY DEF Used
<1>3. /\ Op("PC") \in Codes /\ Len(Op("PC").code) = 1 /\ Balance(Op("PC")) = 1 /\ Length(Op("PC")) = 1
      /\ Op("SUB") \in Codes /\ Len(Op("SUB").code) = 1 /\ Balance(Op("SUB")) = -1 /\ Length(Op("SUB")) = 1
  BY <1>2, OpsAre
<1> DEFINE j == JumpBack(n)
           x == Op("PC")
           y == PushN(4, n)
           o == Op("SUB")
<1>4. /\ j \in Codes /\ Len(j.code) = Len(y.code) + Len(x.code) + Len(o.code)
      /\ Length(j) = Length(y) + Length(x) + Length(o)
      /\ Balance(j) = Balance(y) + Balance(x) + Balance(o)
      /\ Part(y, j, 0, 0) /\ Part(x, j, Len(y.code), Balance(y))
      /\ Part(o, j, Len(y.code) + Len(x.code), Balance(y) + Balance(x))
  BY <1>1, <1>3, CallTwo DEF JumpBack
<1> HIDE DEF j, x, y, o
<1>5. /\ Len(y.code) = 1 /\ Balance(y) = 1 /\ Length(y) = 5
      /\ Len(x.code) = 1 /\ Balance(x) = 1 /\ Length(x) = 1
      /\ Len(o.code) = 1 /\ Balance(o) = -1 /\ Length(o) = 1
  BY <1>1, <1>3 DEF x, y, o
<1>6. /\ j \in Codes /\ Len(j.code) = 3 /\ Balance(j) = 1 /\ Length(j) = 7
      /\ Part(y, j, 0, 0) /\ Part(x, j, 1, 1) /\ Part(o, j, 2, 2)
  BY <1>4, <1>5
<1> QED
  BY <1>6 DEF j, x, y, o

\* PC - distance leaves the offset of its PC less the distance.
LEMMA BackGoes ==
  ASSUME NEW n \in Int, NEW C, NEW k, NEW u, NEW m, NEW h, NEW W, NEW f, NEW b \in Books,
         Enters(JumpBack(n), C, k, u, m, h, W)
  PROVE  LET d == Offset(C, k + 1) + (5 - n)
         IN  /\ d \in Int
             /\ Leads(C, {Place(k + 1, u, f, m, b)}, {Place(k + 4, u \o <<d>>, f, m, Spent(b, 8))}, h, W)
<1>1. /\ Part(PushN(4, n), JumpBack(n), 0, 0) /\ Part(Op("PC"), JumpBack(n), 1, 1)
      /\ Part(Op("SUB"), JumpBack(n), 2, 2) /\ JumpBack(n) \in Codes /\ 4 \in Nat /\ 1 + 4 = 5
  BY BackIs
<1>2. k \in Nat /\ u \in Seq(Int) /\ m \in Seq(Int) /\ Offset(C, k + 1) \in Nat
  BY <1>1, EntersIs
<1>3. /\ Enters(PushN(4, n), C, k + 0, u, m, h, W)
      /\ \A i \in Int : Enters(Op("PC"), C, k + 1, u \o <<i>>, m, h, W)
      /\ \A i, j \in Int : Enters(Op("SUB"), C, k + 2, u \o <<i, j>>, m, h, W)
  BY <1>1, EntersTop
<1>4. /\ k + 0 = k /\ (k + 1) + 1 = k + 2 /\ (k + 1) + 2 = k + 3 /\ (k + 2) + 1 = k + 3 /\ (k + 2) + 2 = k + 4
  BY <1>2
<1> DEFINE e == Offset(C, k + 2)
<1>5. e = Offset(C, k + 1) + 5 /\ e \in Int
  <2>1. Len(PushN(4, n).code) = 1 /\ Length(PushN(4, n)) = 5 /\ PushN(4, n) \in Codes
    BY <1>1, PushAre
  <2>2. Offset(C, k + Len(PushN(4, n).code) + 1) = Offset(C, k + 1) + Length(PushN(4, n))
    BY <1>3, <1>4, <2>1, EntersIs
  <2>3. Offset(C, (k + 1) + 1) = Offset(C, k + 1) + 5
    BY <1>2, <2>1, <2>2
  <2>4. Offset(C, k + 2) = Offset(C, k + 1) + 5
    BY <1>4, <2>3
  <2> DEFINE o == Offset(C, k + 1)
  <2>5. o \in Nat /\ Offset(C, k + 2) = o + 5
    BY <1>2, <2>4
  <2> HIDE DEF o
  <2>6. Offset(C, k + 2) \in Int
    BY <2>5
  <2> QED
    BY <2>4, <2>6
<1> HIDE DEF e
<1>6. Leads(C, {Place(k + 1, u, f, m, b)}, {Place(k + 2, u \o <<n>>, f, m, Spent(b, 3))}, h, W)
  <2>1. Enters(PushN(4, n), C, k, u, m, h, W)
    BY <1>1, <1>3, <1>4
  <2> QED
    BY <1>1, <1>2, <2>1, PushGoes
<1>7. Leads(C, {Place(k + 2, u \o <<n>>, f, m, Spent(b, 3))}, {Place(k + 3, u \o <<n, e>>, f, m, Spent(b, 5))}, h, W)
  <2>1. u \o <<n>> \in Seq(Int) /\ (u \o <<n>>) \o <<e>> = u \o <<n, e>>
    BY <1>2, <1>5, TopTwo
  <2>2. Spent(b, 3) \in Books /\ Spent(Spent(b, 3), 2) = Spent(b, 5)
    BY SpentTwice
  <2> DEFINE v == u \o <<n>>
             t == Spent(b, 3)
  <2>3. Enters(Op("PC"), C, k + 1, v, m, h, W) /\ v \in Seq(Int) /\ t \in Books
    BY <1>3, <2>1, <2>2
  <2> HIDE DEF v, t
  <2>4. Leads(C, {Place((k + 1) + 1, v, f, m, t)},
              {Place((k + 1) + 2, v \o <<Offset(C, (k + 1) + 1)>>, f, m, Spent(t, 2))}, h, W)
    BY <2>3, PcGoes
  <2>5. Leads(C, {Place(k + 2, v, f, m, t)}, {Place(k + 3, v \o <<e>>, f, m, Spent(t, 2))}, h, W)
    BY <1>4, <2>4 DEF e
  <2> QED
    BY <2>1, <2>2, <2>5 DEF v, t
<1>8. Leads(C, {Place(k + 3, u \o <<n, e>>, f, m, Spent(b, 5))},
            {Place(k + 4, u \o <<e - n>>, f, m, Spent(b, 8))}, h, W)
  <2>1. Spent(b, 5) \in Books /\ Spent(Spent(b, 5), 3) = Spent(b, 8)
    BY SpentTwice
  <2> DEFINE t == Spent(b, 5)
  <2>2. Enters(Op("SUB"), C, k + 2, u \o <<n, e>>, m, h, W) /\ t \in Books
    BY <1>3, <1>5, <2>1
  <2> HIDE DEF t
  <2>3. Leads(C, {Place((k + 2) + 1, u \o <<n, e>>, f, m, t)},
              {Place((k + 2) + 2, u \o <<e - n>>, f, m, Spent(t, 3))}, h, W)
    BY <1>2, <1>5, <2>2, SubGoes
  <2> QED
    BY <1>4, <2>1, <2>3 DEF t
<1>9. Leads(C, {Place(k + 1, u, f, m, b)}, {Place(k + 4, u \o <<e - n>>, f, m, Spent(b, 8))}, h, W)
  BY <1>6, <1>7, <1>8, LeadsOnOn
<1>10. e - n = Offset(C, k + 1) + (5 - n) /\ e - n \in Int
  <2> DEFINE o == Offset(C, k + 1)
  <2>1. o \in Nat /\ e = o + 5 /\ e \in Int
    BY <1>2, <1>5
  <2> HIDE DEF o
  <2>2. e - n = o + (5 - n) /\ e - n \in Int
    BY <2>1
  <2> QED
    BY <2>2 DEF o
<1> QED
  BY <1>9, <1>10

\* It aims so far from its own start.
LEMMA BackAims ==
  ASSUME NEW n \in Int
  PROVE  Aims(JumpBack(n), 5 - n)
<1> DEFINE a == JumpBack(n)
<1>1. a \in Codes /\ Len(a.code) = 3 /\ Balance(a) = 1 /\ 5 - n \in Int
  BY BackIs
<1>2. ASSUME NEW C, NEW k, NEW u, NEW m, NEW h, NEW W, NEW f, NEW b \in Books, Enters(a, C, k, u, m, h, W)
      PROVE  /\ Offset(C, k + 1) + (5 - n) \in Int
             /\ Leads(C, {Place(k + 1, u, f, m, b)},
                      {Place(k + 4, u \o <<Offset(C, k + 1) + (5 - n)>>, f, m, Spent(b, 8))}, h, W)
  BY <1>2, BackGoes
<1> HIDE DEF a
<1>3. Aims(a, 5 - n)
  BY <1>1, <1>2 DEF Aims
<1> QED
  BY <1>3 DEF a

\* Who enters with some marks enters with others that are in order.
LEMMA EntersWith ==
  ASSUME NEW a, NEW C, NEW k, NEW u, NEW m, NEW h, NEW W, Enters(a, C, k, u, m, h, W),
         NEW r \in Seq(Int), OnTrack(r, W)
  PROVE  Enters(a, C, k, u, r, h, W)
BY DEF Enters

\* A jump, and a jump if what the condition left is not zero.
LEMMA JumpIs ==
  ASSUME NEW a, NEW t, Aims(a, t)
  PROVE  LET j == Call(Op("JUMP"), <<a>>)
         IN  /\ j \in Codes /\ Len(j.code) = 4 /\ Balance(j) = 0 /\ Length(j) = Length(a) + 1
             /\ Part(a, j, 0, 0) /\ Part(Op("JUMP"), j, 3, 1)
<1> DEFINE j == Call(Op("JUMP"), <<a>>)
           o == Op("JUMP")
<1>1. a \in Codes /\ Len(a.code) = 3 /\ Balance(a) = 1 /\ Length(a) \in Nat
  BY CodeIs DEF Aims
<1>2. "JUMP" \in Used \ {"RJUMP", "RJUMPI"}
  BY DEF Used
<1>3. o \in Codes /\ Len(o.code) = 1 /\ Balance(o) = -1 /\ Length(o) = 1
  BY <1>2, OpsAre
<1>4. /\ j \in Codes /\ Len(j.code) = Len(a.code) + Len(o.code) /\ Length(j) = Length(a) + Length(o)
      /\ Balance(j) = Balance(a) + Balance(o)
      /\ Part(a, j, 0, 0) /\ Part(o, j, Len(a.code), Balance(a))
  BY <1>1, <1>3, CallOne
<1> HIDE DEF j, o
<1>5. /\ j \in Codes /\ Len(j.code) = 4 /\ Balance(j) = 0 /\ Length(j) = Length(a) + 1
      /\ Part(a, j, 0, 0) /\ Part(o, j, 3, 1)
  BY <1>1, <1>3, <1>4
<1> QED
  BY <1>5 DEF j, o

\* A jump goes where its argument aims.
LEMMA JumpsTo ==
  ASSUME NEW a, NEW t, Aims(a, t), NEW C, NEW k, NEW u, NEW m, NEW h, NEW W, NEW f, NEW b \in Books,
         Enters(Call(Op("JUMP"), <<a>>), C, k, u, m, h, W),
         NEW q, Lands(C, q, Offset(C, k + 1) + t), C[q].op = "JUMPDEST"
  PROVE  Leads(C, {Place(k + 1, u, f, m, b)}, {Place(q, u, f, m, Spent(b, 16))}, h, W)
<1> DEFINE j == Call(Op("JUMP"), <<a>>)
           d == Offset(C, k + 1) + t
<1>1. Part(a, j, 0, 0) /\ Part(Op("JUMP"), j, 3, 1)
  BY JumpIs
<1> HIDE DEF j
<1>2. /\ k \in Nat /\ u \in Seq(Int) /\ Enters(a, C, k + 0, u, m, h, W)
      /\ \A i \in Int : Enters(Op("JUMP"), C, k + 3, u \o <<i>>, m, h, W)
  BY <1>1, EntersTop DEF j
<1>3. k + 0 = k /\ (k + 3) + 1 = k + 4
  BY <1>2
<1>4. /\ d \in Int
      /\ Leads(C, {Place(k + 1, u, f, m, b)}, {Place(k + 4, u \o <<d>>, f, m, Spent(b, 8))}, h, W)
  BY <1>2, <1>3 DEF Aims
<1> HIDE DEF d
<1>5. Spent(b, 8) \in Books /\ Spent(Spent(b, 8), 8) = Spent(b, 16)
  BY SpentTwice
<1> DEFINE w == Spent(b, 8)
<1>6. Enters(Op("JUMP"), C, k + 3, u \o <<d>>, m, h, W) /\ w \in Books
  BY <1>2, <1>4, <1>5
<1> HIDE DEF w
<1>7. Leads(C, {Place((k + 3) + 1, u \o <<d>>, f, m, w)}, {Place(q, u, f, m, Spent(w, 8))}, h, W)
  BY <1>2, <1>4, <1>6, JumpGoes DEF d
<1>8. Leads(C, {Place(k + 4, u \o <<d>>, f, m, Spent(b, 8))}, {Place(q, u, f, m, Spent(b, 16))}, h, W)
  BY <1>3, <1>5, <1>7 DEF w
<1> QED
  BY <1>4, <1>8, LeadsOn

\* A conditional jump: its parts.
LEMMA AskIs ==
  ASSUME NEW a, NEW t, Aims(a, t), NEW c \in Codes, Balance(c) = 1
  PROVE  LET j == Call(Op("JUMPI"), <<a, c>>)
         IN  /\ j \in Codes /\ Len(j.code) = Len(c.code) + 4 /\ Balance(j) = 0
             /\ Length(j) = Length(c) + Length(a) + 1
             /\ Part(c, j, 0, 0) /\ Part(a, j, Len(c.code), 1) /\ Part(Op("JUMPI"), j, Len(c.code) + 3, 2)
<1> DEFINE j == Call(Op("JUMPI"), <<a, c>>)
           o == Op("JUMPI")
<1>1. a \in Codes /\ Len(a.code) = 3 /\ Balance(a) = 1 /\ Length(a) \in Nat
  BY CodeIs DEF Aims
<1>2. "JUMPI" \in Used \ {"RJUMP", "RJUMPI"}
  BY DEF Used
<1>3. o \in Codes /\ Len(o.code) = 1 /\ Balance(o) = -2 /\ Length(o) = 1
  BY <1>2, OpsAre
<1>4. /\ j \in Codes /\ Len(j.code) = Len(c.code) + Len(a.code) + Len(o.code)
      /\ Length(j) = Length(c) + Length(a) + Length(o)
      /\ Balance(j) = Balance(c) + Balance(a) + Balance(o)
      /\ Part(c, j, 0, 0) /\ Part(a, j, Len(c.code), Balance(c))
      /\ Part(o, j, Len(c.code) + Len(a.code), Balance(c) + Balance(a))
  BY <1>1, <1>3, CallTwo
<1>5. Len(c.code) \in Nat /\ Length(c) \in Nat
  BY CodeIs
<1> HIDE DEF j, o
<1>6. /\ j \in Codes /\ Len(j.code) = Len(c.code) + 4 /\ Balance(j) = 0
      /\ Length(j) = Length(c) + Length(a) + 1
      /\ Part(c, j, 0, 0) /\ Part(a, j, Len(c.code), 1) /\ Part(o, j, Len(c.code) + 3, 2)
  BY <1>1, <1>3, <1>4, <1>5
<1> QED
  BY <1>6 DEF j, o

\* A conditional jump goes where it aims, or on.
LEMMA AskGoes ==
  ASSUME NEW a, NEW t, Aims(a, t), NEW c \in Codes, Balance(c) = 1,
         NEW C, NEW k, NEW u, NEW m, NEW h, NEW W, NEW f, NEW b \in Books,
         Enters(Call(Op("JUMPI"), <<a, c>>), C, k, u, m, h, W), NEW v \in Int, NEW q,
         v # 0 => Lands(C, q, Offset(C, k + Len(c.code) + 1) + t) /\ C[q].op = "JUMPDEST"
  PROVE  Leads(C, {Place(k + Len(c.code) + 1, u \o <<v>>, f, m, b)},
               {Place(IF v # 0 THEN q ELSE k + Len(c.code) + 5, u, f, m, Spent(b, 18))}, h, W)
<1> DEFINE j == Call(Op("JUMPI"), <<a, c>>)
           l == k + Len(c.code)
           d == Offset(C, l + 1) + t
           s == u \o <<v>>
<1>1. Part(a, j, Len(c.code), 1) /\ Part(Op("JUMPI"), j, Len(c.code) + 3, 2) /\ Len(c.code) \in Nat
  BY AskIs, CodeIs
<1> HIDE DEF j
<1>2. /\ k \in Nat /\ u \in Seq(Int) /\ \A i \in Int : Enters(a, C, k + Len(c.code), u \o <<i>>, m, h, W)
      /\ \A i, x \in Int : Enters(Op("JUMPI"), C, k + (Len(c.code) + 3), u \o <<i, x>>, m, h, W)
  BY <1>1, EntersTop DEF j
<1>3. l \in Nat /\ k + (Len(c.code) + 3) = l + 3 /\ (l + 3) + 1 = l + 4 /\ (l + 3) + 2 = l + 5
      /\ k + Len(c.code) + 1 = l + 1 /\ k + Len(c.code) + 5 = l + 5
  BY <1>1, <1>2
<1>4. Enters(a, C, l, s, m, h, W)
  BY <1>2
<1> HIDE DEF l, s
<1>5. /\ d \in Int
      /\ Leads(C, {Place(l + 1, s, f, m, b)}, {Place(l + 4, s \o <<d>>, f, m, Spent(b, 8))}, h, W)
  BY <1>4 DEF Aims
<1>6. v # 0 => Lands(C, q, d) /\ C[q].op = "JUMPDEST"
  BY <1>3
<1> HIDE DEF d
<1>7. s \o <<d>> = u \o <<v, d>>
  BY <1>2, <1>5, TopTwo DEF s
<1>8. Spent(b, 8) \in Books /\ Spent(Spent(b, 8), 10) = Spent(b, 18)
  BY SpentTwice
<1> DEFINE w == Spent(b, 8)
<1>9. Enters(Op("JUMPI"), C, l + 3, u \o <<v, d>>, m, h, W) /\ w \in Books
  BY <1>2, <1>3, <1>5, <1>8
<1> HIDE DEF w
<1>10. CASE v # 0
  <2>1. Leads(C, {Place((l + 3) + 1, u \o <<v, d>>, f, m, w)}, {Place(q, u, f, m, Spent(w, 10))}, h, W)
    BY <1>2, <1>5, <1>6, <1>9, <1>10, JumpiGoes
  <2>2. Leads(C, {Place(l + 4, s \o <<d>>, f, m, Spent(b, 8))}, {Place(q, u, f, m, Spent(b, 18))}, h, W)
    BY <1>3, <1>7, <1>8, <2>1 DEF w
  <2>3. Leads(C, {Place(l + 1, s, f, m, b)}, {Place(q, u, f, m, Spent(b, 18))}, h, W)
    BY <1>5, <2>2, LeadsOn
  <2> QED
    BY <1>3, <1>10, <2>3 DEF s
<1>11. CASE v = 0
  <2>1. Leads(C, {Place((l + 3) + 1, u \o <<v, d>>, f, m, w)}, {Place((l + 3) + 2, u, f, m, Spent(w, 10))}, h, W)
    BY <1>2, <1>5, <1>9, <1>11, JumpiStays
  <2>2. Leads(C, {Place(l + 4, s \o <<d>>, f, m, Spent(b, 8))}, {Place(l + 5, u, f, m, Spent(b, 18))}, h, W)
    BY <1>3, <1>7, <1>8, <2>1 DEF w
  <2>3. Leads(C, {Place(l + 1, s, f, m, b)}, {Place(l + 5, u, f, m, Spent(b, 18))}, h, W)
    BY <1>5, <2>2, LeadsOn
  <2> QED
    BY <1>3, <1>11, <2>3 DEF s
<1> QED
  BY <1>10, <1>11

\* JumpOver is a code of four instructions.
LEMMA JumpOverIs ==
  ASSUME NEW n \in Int
  PROVE  /\ JumpOver(n) \in Codes /\ Len(JumpOver(n).code) = 4 /\ Balance(JumpOver(n)) = 0
         /\ Length(JumpOver(n)) \in Nat
BY AheadAims, JumpIs, CodeIs DEF JumpOver, Ahead

\* A jump over n bytes counts from where PC was read, two bytes and one before its end.
LEMMA JumpOverGoes ==
  ASSUME NEW n \in Int, NEW C, NEW k, NEW u, NEW m, NEW h, NEW W, NEW f, NEW b \in Books,
         Enters(JumpOver(n), C, k, u, m, h, W),
         NEW q, Lands(C, q, Offset(C, k + 5) + n - 3), C[q].op = "JUMPDEST"
  PROVE  Leads(C, {Place(k + 1, u, f, m, b)}, {Place(q, u, f, m, Spent(b, 16))}, h, W)
<1> DEFINE a == Ahead(n)
           l == Length(a)
           o == Offset(C, k + 1)
           t == l - 2 + n
<1>1. JumpOver(n) = Call(Op("JUMP"), <<a>>)
  BY DEF JumpOver, Ahead
<1>2. Aims(a, t) /\ l \in Nat
  BY AheadAims, AheadIs
<1> HIDE DEF a
<1>3. Length(JumpOver(n)) = l + 1 /\ Len(JumpOver(n).code) = 4 /\ JumpOver(n) \in Codes
  BY <1>1, <1>2, JumpIs
<1>4. k \in Nat /\ o \in Nat /\ Offset(C, k + 4 + 1) = o + (l + 1)
  <2>1. /\ k \in Nat /\ o \in Nat
        /\ Offset(C, k + Len(JumpOver(n).code) + 1) = o + Length(JumpOver(n))
    BY <1>3, EntersIs
  <2> HIDE DEF o, l
  <2> QED
    BY <1>3, <2>1
<1>5. k + 4 + 1 = k + 5
  BY <1>4
<1>6. Offset(C, k + 5) = o + (l + 1)
  BY <1>4, <1>5
<1> HIDE DEF o, l
<1>7. Offset(C, k + 5) + n - 3 = o + t
  BY <1>2, <1>4, <1>6
<1> HIDE DEF t
<1>8. Lands(C, q, Offset(C, k + 1) + t)
  BY <1>7 DEF o
<1>9. Enters(Call(Op("JUMP"), <<a>>), C, k, u, m, h, W)
  BY <1>1
<1> QED
  BY <1>2, <1>8, <1>9, JumpsTo

\* JumpOverIf is the condition and four instructions.
LEMMA JumpOverIfIs ==
  ASSUME NEW n \in Int, NEW c \in Codes, Balance(c) = 1
  PROVE  LET j == JumpOverIf(n, c)
         IN  /\ j \in Codes /\ Len(j.code) = Len(c.code) + 4 /\ Balance(j) = 0
             /\ Length(j) \in Nat /\ Length(j) = Length(c) + Length(Ahead(n)) + 1
             /\ Part(c, j, 0, 0)
BY AheadAims, AskIs, CodeIs DEF JumpOverIf, Ahead

\* JumpOverIf goes the distance beyond its own PC, or on.
LEMMA JumpOverIfGoes ==
  ASSUME NEW n \in Int, NEW c \in Codes, Balance(c) = 1,
         NEW C, NEW k, NEW u, NEW m, NEW h, NEW W, NEW f, NEW b \in Books,
         Enters(JumpOverIf(n, c), C, k, u, m, h, W), NEW v \in Int, NEW q,
         v # 0 => Lands(C, q, Offset(C, k + Len(c.code) + 5) + n - 3) /\ C[q].op = "JUMPDEST"
  PROVE  Leads(C, {Place(k + Len(c.code) + 1, u \o <<v>>, f, m, b)},
               {Place(IF v # 0 THEN q ELSE k + Len(c.code) + 5, u, f, m, Spent(b, 18))}, h, W)
<1> DEFINE a == Ahead(n)
           l == Length(a)
           i == Len(c.code)
           o == Offset(C, k + i + 1)
           t == l - 2 + n
           j == JumpOverIf(n, c)
<1>1. j = Call(Op("JUMPI"), <<a, c>>)
  BY DEF JumpOverIf, Ahead
<1>2. Aims(a, t) /\ l \in Nat /\ i \in Nat
  BY AheadAims, AheadIs, CodeIs
<1>3. /\ j \in Codes /\ Len(j.code) = i + 4 /\ Length(j) = Length(c) + l + 1 /\ Part(c, j, 0, 0)
      /\ Length(c) \in Nat
  BY JumpOverIfIs, CodeIs
<1>10. Enters(j, C, k, u, m, h, W)
  OBVIOUS
<1> HIDE DEF a, j
<1>4. k \in Nat /\ Offset(C, k + 1) \in Nat /\ Offset(C, k + (i + 4) + 1) = Offset(C, k + 1) + Length(j)
  BY <1>3, <1>10, EntersIs
<1>5. o = Offset(C, k + 1) + Length(c)
  <2>1. Enters(c, C, k + 0, u, m, h, W) /\ k + 0 = k
    BY <1>3, <1>4, <1>10, EntersTop
  <2> QED
    BY <2>1, EntersIs
<1>6. k + (i + 4) + 1 = k + i + 5
  BY <1>2, <1>4
<1>7. Offset(C, k + i + 5) = o + (l + 1) /\ o \in Nat
  <2> DEFINE p == Offset(C, k + 1)
  <2>1. Offset(C, k + i + 5) = p + Length(j) /\ p \in Nat /\ o = p + Length(c)
    BY <1>4, <1>5, <1>6
  <2> HIDE DEF p, l, o
  <2> QED
    BY <1>2, <1>3, <2>1
<1> HIDE DEF o, l
<1>8. Offset(C, k + i + 5) + n - 3 = o + t
  BY <1>2, <1>7
<1> HIDE DEF t
<1>9. v # 0 => Lands(C, q, Offset(C, k + i + 1) + t) /\ C[q].op = "JUMPDEST"
  BY <1>8 DEF o
<1>11. Enters(Call(Op("JUMPI"), <<a, c>>), C, k, u, m, h, W)
  BY <1>1, <1>10
<1> QED
  BY <1>2, <1>9, <1>11, AskGoes

\* A jump destination that stands there.
LEMMA DestThere ==
  ASSUME NEW C, NEW k, NEW u, NEW m, NEW h, NEW W, Enters(Op("JUMPDEST"), C, k, u, m, h, W)
  PROVE  k + 1 \in DOMAIN C /\ C[k + 1].op = "JUMPDEST"
<1>1. "JUMPDEST" \in Used
  BY DEF Used
<1>2. Op("JUMPDEST") \in Codes /\ Len(Op("JUMPDEST").code) = 1
  BY <1>1, OpsAre
<1>3. k \in Nat /\ C \in Seq(Instruction) /\ k + 1 <= Len(C) /\ C[k + 1] = Op("JUMPDEST").code[1]
  <2> DEFINE i == Op("JUMPDEST").code
  <2>1. /\ k \in Nat /\ C \in Seq(Instruction) /\ k + Len(i) <= Len(C)
        /\ \A j \in 1..Len(i) : C[k + j] = i[j]
    BY <1>2, EntersIs
  <2>2. Len(i) = 1
    BY <1>2
  <2> HIDE DEF i
  <2>3. k + 1 <= Len(C) /\ C[k + 1] = i[1]
    BY <2>1, <2>2
  <2> QED
    BY <2>1, <2>3 DEF i
<1>4. Op("JUMPDEST").code[1].op = "JUMPDEST"
  BY DEF Op, Single
<1> QED
  BY <1>3, <1>4

\* The fields of a piece have their types.
LEMMA PieceIs ==
  ASSUME NEW x \in Pieces
  PROVE  /\ x.code \in Codes /\ Len(x.code.code) \in Nat /\ x.runs \in Seq(Int) /\ x.items \in Seq(Int)
         /\ x.cost \in Nat /\ x.halts \in BOOLEAN /\ x.open \in BOOLEAN /\ Balance(x.code) \in Int
<1>1. x.code \in Codes /\ x.runs \in Seq(Int) /\ x.items \in Seq(Int) /\ x.cost \in Nat
      /\ x.halts \in BOOLEAN /\ x.open \in BOOLEAN
  BY DEF Pieces
<1> QED
  BY <1>1, CodeIs

\* A piece that runs through does so wherever a run comes to it.
LEMMA Through ==
  ASSUME NEW x, RunsThrough(x), NEW C, NEW k, NEW u, NEW m, NEW h, NEW W, NEW b \in Books,
         Comes(x, C, k, u, m, h, W)
  PROVE  Leads(C, {Place(k + 1, u, x.before, m, b)},
               {Place(Behind(x, k), u \o x.items, x.after, m \o x.runs, Spent(b, x.cost))}, h, W)
BY DEF RunsThrough

\* Behind one instruction.
LEMMA BehindOne ==
  ASSUME NEW x, NEW k \in Nat, ~x.halts, Len(x.code.code) = 1
  PROVE  Behind(x, k) = k + 2
BY DEF Behind

\* The empty piece runs through.
LEMMA NothingRuns ==
  ASSUME NEW x \in Pieces, IsNothing(x)
  PROVE  RunsThrough(x)
<1>1. x.code = Empty /\ x.runs = <<>> /\ x.items = <<>> /\ x.cost = 0 /\ ~x.halts /\ x.after = x.before
  BY DEF IsNothing, Straight_
<1>2. Len(x.items) = Balance(x.code) /\ Empty \in Codes /\ Len(Empty.code) = 0
  BY <1>1, EmptyCodes
<1>3. ASSUME NEW C, NEW k, NEW u, NEW m, NEW h, NEW W, NEW b \in Books, Comes(x, C, k, u, m, h, W)
      PROVE  Leads(C, {Place(k + 1, u, x.before, m, b)},
               {Place(Behind(x, k), u \o x.items, x.after, m \o x.runs, Spent(b, x.cost))}, h, W)
  <2>1. k \in Nat /\ u \in Seq(Int) /\ m \in Seq(Int)
    BY <1>1, <1>2, <1>3, EntersIs DEF Comes
  <2>2. u \o <<>> = u /\ m \o <<>> = m /\ Spent(b, 0) = b
    BY <2>1, NothingOnTop, SpentNothing
  <2>3. Behind(x, k) = k + 1
    BY <1>1, <1>2, <2>1 DEF Behind
  <2> QED
    BY <1>1, <2>2, <2>3, LeadsThere
<1> QED
  BY <1>2, <1>3 DEF RunsThrough

\* A chunk of code of a test runs through.
LEMMA ChunkRuns ==
  ASSUME NEW x \in Pieces, NEW o, NEW mark, IsChunk(x, o, mark)
  PROVE  RunsThrough(x)
<1>1. /\ x.code = Single("WORK", o, mark) /\ IsOpcode(o) /\ o.size > 0 /\ o.pops = 0 /\ mark \in Int
      /\ x.runs = <<mark>> /\ x.items = [j \in 1..o.pushes |-> 0] /\ x.cost = o.size /\ ~x.halts
      /\ x.after = x.before
  BY DEF IsChunk, Straight_
<1>2. x.code \in Codes /\ Len(x.code.code) = 1 /\ x.code.pops = o.pops /\ x.code.pushes = o.pushes
  <2>1. "WORK" \in Ops
    BY DEF Ops
  <2> QED
    BY <1>1, <2>1, SingleCodes
<1>3. Len(x.items) = Balance(x.code)
  <2>1. o.pushes \in Nat
    BY <1>1 DEF IsOpcode
  <2>2. Len([j \in 1..o.pushes |-> 0]) = o.pushes
    BY <2>1
  <2> QED
    BY <1>1, <1>2, <2>1, <2>2 DEF Balance
<1>4. ASSUME NEW C, NEW k, NEW u, NEW m, NEW h, NEW W, NEW b \in Books, Comes(x, C, k, u, m, h, W)
      PROVE  Leads(C, {Place(k + 1, u, x.before, m, b)},
               {Place(Behind(x, k), u \o x.items, x.after, m \o x.runs, Spent(b, x.cost))}, h, W)
  <2>1. k \in Nat /\ u \in Seq(Int) /\ m \in Seq(Int) /\ Enters(Single("WORK", o, mark), C, k, u, m, h, W)
    BY <1>1, <1>2, <1>4, EntersIs DEF Comes
  <2>2. Behind(x, k) = k + 2
    BY <1>1, <1>2, <2>1, BehindOne
  <2>3. m \o <<mark>> = Append(m, mark)
    BY <1>1, <2>1, AppendIsConcat
  <2>4. Leads(C, {Place(k + 1, u, x.before, m, b)},
              {Place(k + 2, u \o [j \in 1..o.pushes |-> 0], x.before, Append(m, mark), Spent(b, o.size))}, h, W)
    BY <1>1, <2>1, WorkGoes
  <2> QED
    BY <1>1, <2>2, <2>3, <2>4
<1> QED
  BY <1>3, <1>4 DEF RunsThrough

\* A condition runs through.
LEMMA ConditionRuns ==
  ASSUME NEW x \in Pieces, NEW o, NEW mark, IsCondition(x, o, mark)
  PROVE  RunsThrough(x)
<1> DEFINE v == IF x.before[mark] > 0 THEN 1 ELSE 0
           g == [x.before EXCEPT ![mark] = AtLeast(0, @ - 1)]
<1>1. /\ x.code = Single("COND", o, mark) /\ IsOpcode(o) /\ o.size > 0 /\ o.pops = 0 /\ o.pushes = 1
      /\ mark \in Int /\ x.runs = <<mark>> /\ x.items = <<v>> /\ x.cost = o.size /\ ~x.halts
      /\ x.after = g
  BY DEF IsCondition
<1>2. x.code \in Codes /\ Len(x.code.code) = 1 /\ x.code.pops = o.pops /\ x.code.pushes = o.pushes
  <2>1. "COND" \in Ops
    BY DEF Ops
  <2> QED
    BY <1>1, <2>1, SingleCodes
<1>3. Len(x.items) = Balance(x.code)
  BY <1>1, <1>2 DEF Balance
<1>4. ASSUME NEW C, NEW k, NEW u, NEW m, NEW h, NEW W, NEW b \in Books, Comes(x, C, k, u, m, h, W)
      PROVE  Leads(C, {Place(k + 1, u, x.before, m, b)},
               {Place(Behind(x, k), u \o x.items, x.after, m \o x.runs, Spent(b, x.cost))}, h, W)
  <2>1. k \in Nat /\ u \in Seq(Int) /\ m \in Seq(Int) /\ Enters(Single("COND", o, mark), C, k, u, m, h, W)
    BY <1>1, <1>2, <1>4, EntersIs DEF Comes
  <2>2. Behind(x, k) = k + 2
    BY <1>1, <1>2, <2>1, BehindOne
  <2>3. m \o <<mark>> = Append(m, mark)
    BY <1>1, <2>1, AppendIsConcat
  <2>4. Leads(C, {Place(k + 1, u, x.before, m, b)},
              {Place(k + 2, u \o <<v>>, g, Append(m, mark), Spent(b, o.size))}, h, W)
    BY <1>1, <2>1, CondGoes
  <2> HIDE DEF v, g
  <2> QED
    BY <1>1, <2>2, <2>3, <2>4
<1> QED
  BY <1>3, <1>4 DEF RunsThrough

\* A PUSH runs through.
LEMMA PushRuns ==
  ASSUME NEW x \in Pieces, NEW z, NEW n, IsPush(x, z, n)
  PROVE  RunsThrough(x)
<1>1. /\ x.code = PushN(z, n) /\ z \in Nat /\ n \in Int
      /\ x.runs = <<>> /\ x.items = <<n>> /\ x.cost = 3 /\ ~x.halts /\ x.after = x.before
  BY DEF IsPush, Straight_
<1>2. x.code \in Codes /\ Len(x.code.code) = 1 /\ Balance(x.code) = 1 /\ Len(x.items) = 1
  BY <1>1, PushAre
<1>4. ASSUME NEW C, NEW k, NEW u, NEW m, NEW h, NEW W, NEW b \in Books, Comes(x, C, k, u, m, h, W)
      PROVE  Leads(C, {Place(k + 1, u, x.before, m, b)},
               {Place(Behind(x, k), u \o x.items, x.after, m \o x.runs, Spent(b, x.cost))}, h, W)
  <2>1. k \in Nat /\ u \in Seq(Int) /\ m \in Seq(Int) /\ Enters(PushN(z, n), C, k, u, m, h, W)
    BY <1>1, <1>2, <1>4, EntersIs DEF Comes
  <2>2. Behind(x, k) = k + 2
    BY <1>1, <1>2, <2>1, BehindOne
  <2>3. m \o <<>> = m
    BY <2>1, NothingOnTop
  <2>4. Leads(C, {Place(k + 1, u, x.before, m, b)}, {Place(k + 2, u \o <<n>>, x.before, m, Spent(b, 3))}, h, W)
    BY <1>1, <2>1, PushGoes
  <2> QED
    BY <1>1, <2>2, <2>3, <2>4
<1> QED
  BY <1>2, <1>4 DEF RunsThrough

\* A STOP runs through: it halts.
LEMMA StopRuns ==
  ASSUME NEW x \in Pieces, IsStop(x)
  PROVE  RunsThrough(x)
<1>1. /\ x.code = Op("STOP") /\ x.runs = <<>> /\ x.items = <<>> /\ x.cost = 0 /\ x.halts /\ x.after = x.before
  BY DEF IsStop, Straight_
<1>2. "STOP" \in Used
  BY DEF Used
<1>3. x.code \in Codes /\ Balance(x.code) = 0 /\ Len(x.items) = 0
  BY <1>1, <1>2, OpsAre
<1>4. ASSUME NEW C, NEW k, NEW u, NEW m, NEW h, NEW W, NEW b \in Books, Comes(x, C, k, u, m, h, W)
      PROVE  Leads(C, {Place(k + 1, u, x.before, m, b)},
               {Place(Behind(x, k), u \o x.items, x.after, m \o x.runs, Spent(b, x.cost))}, h, W)
  <2>1. k \in Nat /\ u \in Seq(Int) /\ m \in Seq(Int) /\ Enters(Op("STOP"), C, k, u, m, h, W)
    BY <1>1, <1>3, <1>4, EntersIs DEF Comes
  <2>2. Behind(x, k) = 0
    BY <1>1 DEF Behind
  <2>3. m \o <<>> = m /\ u \o <<>> = u /\ Spent(b, 0) = b
    BY <2>1, NothingOnTop, SpentNothing
  <2>4. Leads(C, {Place(k + 1, u, x.before, m, b)}, {Place(0, u, x.before, m, b)}, h, W)
    BY <2>1, StopGoes
  <2> QED
    BY <1>1, <2>2, <2>3, <2>4
<1> QED
  BY <1>3, <1>4 DEF RunsThrough

\* A sum of pieces that run through runs through.
LEMMA SumRuns ==
  ASSUME NEW x \in Pieces, NEW a, NEW b, RunsThrough(a), RunsThrough(b), IsSum(x, a, b)
  PROVE  RunsThrough(x)
<1>1. /\ x.code = Concat(a.code, b.code) /\ ~a.halts /\ (a.open => Len(b.code.code) > 0)
      /\ b.before = a.after /\ x.before = a.before /\ x.after = b.after
      /\ x.runs = a.runs \o b.runs /\ x.items = a.items \o b.items /\ x.cost = a.cost + b.cost
      /\ x.halts = b.halts /\ x.open = b.open
  BY DEF IsSum
<1>2. a \in Pieces /\ b \in Pieces /\ Len(a.items) = Balance(a.code) /\ Len(b.items) = Balance(b.code)
  BY DEF RunsThrough
<1>3. /\ a.code \in Codes /\ Len(a.code.code) \in Nat /\ a.runs \in Seq(Int) /\ a.items \in Seq(Int)
      /\ a.cost \in Nat /\ b.code \in Codes /\ Len(b.code.code) \in Nat /\ b.runs \in Seq(Int)
      /\ b.items \in Seq(Int) /\ b.cost \in Nat /\ a.cost \in Int /\ b.cost \in Int
  BY <1>2, PieceIs
<1>4. /\ x.code \in Codes /\ Len(x.code.code) = Len(a.code.code) + Len(b.code.code)
      /\ Balance(x.code) = Balance(a.code) + Balance(b.code)
      /\ Part(a.code, x.code, 0, 0) /\ Part(b.code, x.code, Len(a.code.code), Balance(a.code))
  BY <1>1, <1>3, PartsOfSum
<1>5. Len(x.items) = Balance(x.code)
  <2>1. Len(a.items \o b.items) = Len(a.items) + Len(b.items)
    BY <1>3, OnTop
  <2> QED
    BY <1>1, <1>2, <1>4, <2>1
<1>6. ASSUME NEW C, NEW k, NEW u, NEW m, NEW h, NEW W, NEW s \in Books, Comes(x, C, k, u, m, h, W)
      PROVE  Leads(C, {Place(k + 1, u, x.before, m, s)},
               {Place(Behind(x, k), u \o x.items, x.after, m \o x.runs, Spent(s, x.cost))}, h, W)
  <2> DEFINE l == Len(a.code.code)
             v == u \o a.items
             r == m \o a.runs
             t == Spent(s, a.cost)
  <2>1. Enters(x.code, C, k, u, m, h, W) /\ OnTrack(m \o x.runs, W) /\ (x.open => k + Len(x.code.code) < Len(C))
    BY <1>6 DEF Comes
  <2>2. k \in Nat /\ u \in Seq(Int) /\ m \in Seq(Int) /\ C \in Seq(Instruction) /\ k + Len(x.code.code) <= Len(C)
    BY <1>4, <2>1, EntersIs
  <2> DEFINE j == Len(b.code.code)
             n == Len(C)
  <2>14. /\ k \in Nat /\ l \in Nat /\ j \in Nat /\ n \in Nat /\ Len(x.code.code) = l + j /\ k + (l + j) <= n
         /\ (a.open => j > 0) /\ (x.open => k + (l + j) < n) /\ x.open = b.open
         /\ k + (l + j) = k + l + j /\ k + l \in Nat
    <3>1. k + Len(x.code.code) <= n /\ l \in Nat /\ j \in Nat
      BY <1>3, <2>2
    <3>2. n \in Nat
      BY <2>2
    <3> HIDE DEF l, j, n
    <3>3. Len(x.code.code) = l + j
      BY <1>4 DEF l, j
    <3>4. k + (l + j) = k + l + j /\ k + l \in Nat
      BY <2>2, <3>1
    <3>5. (a.open => j > 0) /\ (x.open => k + (l + j) < n) /\ x.open = b.open
      BY <1>1, <2>1, <3>3 DEF j, n
    <3> QED
      BY <2>2, <3>1, <3>2, <3>3, <3>4, <3>5
  <2>3. v \in Seq(Int) /\ Len(v) = Len(u) + Balance(a.code) /\ r \in Seq(Int)
    BY <1>2, <1>3, <2>2, OnTop
  <2>4. m \o x.runs = r \o b.runs /\ u \o x.items = v \o b.items
    <3>1. m \in Seq(Int) /\ a.runs \in Seq(Int) /\ b.runs \in Seq(Int)
      BY <1>3, <2>2
    <3>2. u \in Seq(Int) /\ a.items \in Seq(Int) /\ b.items \in Seq(Int)
      BY <1>3, <2>2
    <3>3. m \o (a.runs \o b.runs) = (m \o a.runs) \o b.runs
      BY <3>1, Together, Zenon
    <3>4. u \o (a.items \o b.items) = (u \o a.items) \o b.items
      BY <3>2, Together, Zenon
    <3> QED
      BY <1>1, <3>3, <3>4
  <2>5. OnTrack(r, W) /\ OnTrack(r \o b.runs, W)
    BY <1>3, <2>1, <2>3, <2>4, OnTrackBefore
  <2>6. t \in Books /\ Spent(t, b.cost) = Spent(s, x.cost)
    BY <1>1, <1>3, SpentTwice
  <2>7. Comes(a, C, k, u, m, h, W)
    <3>1. Enters(a.code, C, k + 0, u, m, h, W) /\ k + 0 = k
      BY <1>4, <2>1, <2>2, EntersTop
    <3>2. a.open => k + l < Len(C)
      <4> HIDE DEF l, j, n
      <4>1. a.open => k + l < n
        BY <2>14
      <4> QED
        BY <4>1 DEF n
    <3> QED
      BY <2>5, <3>1, <3>2 DEF Comes
  <2>8. Comes(b, C, k + l, v, r, h, W)
    <3>1. Enters(b.code, C, k + l, v, r, h, W)
      BY <1>4, <2>1, <2>3, <2>5, PartOf
    <3>2. b.open => k + l + Len(b.code.code) < Len(C)
      <4> HIDE DEF l, j, n
      <4>1. b.open => k + l + j < n
        BY <2>14
      <4> QED
        BY <4>1 DEF n, j
    <3> QED
      BY <2>5, <3>1, <3>2 DEF Comes
  <2>9. Behind(a, k) = k + l + 1 /\ Behind(b, k + l) = Behind(x, k)
    <3>1. Behind(a, k) = k + l + 1
      BY <1>1 DEF Behind
    <3>2. Behind(b, k + l) = IF x.halts THEN 0 ELSE k + l + j + 1
      BY <1>1 DEF Behind
    <3>3. Behind(x, k) = IF x.halts THEN 0 ELSE k + (l + j) + 1
      <4> HIDE DEF l, j, n
      <4> QED
        BY <2>14 DEF Behind
    <3> HIDE DEF l, j, n
    <3> QED
      BY <2>14, <3>1, <3>2, <3>3
  <2>10. Leads(C, {Place(k + 1, u, a.before, m, s)}, {Place(k + l + 1, v, a.after, r, t)}, h, W)
    BY <2>7, <2>9, Through
  <2>11. Leads(C, {Place(k + l + 1, v, b.before, r, t)},
               {Place(Behind(x, k), v \o b.items, b.after, r \o b.runs, Spent(t, b.cost))}, h, W)
    <3> HIDE DEF v, r, t, l
    <3> QED
      BY <2>6, <2>8, <2>9, Through
  <2> HIDE DEF v, r, t, l
  <2>12. Leads(C, {Place(k + 1, u, x.before, m, s)}, {Place(k + l + 1, v, a.after, r, t)}, h, W)
    BY <1>1, <2>10
  <2>13. Leads(C, {Place(k + l + 1, v, a.after, r, t)},
               {Place(Behind(x, k), u \o x.items, x.after, m \o x.runs, Spent(s, x.cost))}, h, W)
    BY <1>1, <2>4, <2>6, <2>11
  <2> QED
    BY <2>12, <2>13, LeadsOn
<1> QED
  BY <1>5, <1>6 DEF RunsThrough

\* So does one whose first part halts, whatever stands behind it.
LEMMA CutRuns ==
  ASSUME NEW x \in Pieces, NEW a, NEW d, RunsThrough(a), IsCut(x, a, d)
  PROVE  RunsThrough(x)
<1>1. /\ x.code = Concat(a.code, d) /\ d \in Codes /\ Balance(d) = 0 /\ a.halts
      /\ x.before = a.before /\ x.after = a.after /\ x.runs = a.runs /\ x.items = a.items
      /\ x.cost = a.cost /\ x.halts = a.halts /\ x.open = a.open
  BY DEF IsCut
<1>2. a \in Pieces /\ Len(a.items) = Balance(a.code)
  BY DEF RunsThrough
<1>3. a.code \in Codes /\ Len(a.code.code) \in Nat /\ Len(d.code) \in Nat /\ Balance(a.code) \in Int
  BY <1>1, <1>2, PieceIs, CodeIs
<1>4. /\ x.code \in Codes /\ Len(x.code.code) = Len(a.code.code) + Len(d.code)
      /\ Balance(x.code) = Balance(a.code) + Balance(d) /\ Part(a.code, x.code, 0, 0)
  BY <1>1, <1>3, PartsOfSum
<1>5. Len(x.items) = Balance(x.code)
  BY <1>1, <1>2, <1>3, <1>4
<1>6. ASSUME NEW C, NEW k, NEW u, NEW m, NEW h, NEW W, NEW s \in Books, Comes(x, C, k, u, m, h, W)
      PROVE  Leads(C, {Place(k + 1, u, x.before, m, s)},
               {Place(Behind(x, k), u \o x.items, x.after, m \o x.runs, Spent(s, x.cost))}, h, W)
  <2>1. Enters(x.code, C, k, u, m, h, W) /\ OnTrack(m \o x.runs, W) /\ (x.open => k + Len(x.code.code) < Len(C))
    BY <1>6 DEF Comes
  <2>2. k \in Nat /\ C \in Seq(Instruction)
    BY <1>4, <2>1, EntersIs
  <2>3. Comes(a, C, k, u, m, h, W)
    <3>1. Enters(a.code, C, k + 0, u, m, h, W) /\ k + 0 = k
      BY <1>4, <2>1, <2>2, EntersTop
    <3>2. a.open => k + Len(a.code.code) < Len(C)
      <4> DEFINE l == Len(a.code.code)
                 j == Len(d.code)
                 n == Len(C)
      <4>1. l \in Nat /\ j \in Nat /\ n \in Nat /\ Len(x.code.code) = l + j
        BY <1>3, <1>4, <2>2
      <4>2. a.open => k + Len(x.code.code) < n
        BY <1>1, <2>1
      <4> HIDE DEF l, j, n
      <4>3. a.open => k + l < n
        BY <2>2, <4>1, <4>2
      <4> QED
        BY <4>3 DEF l, n
    <3> QED
      BY <1>1, <2>1, <3>1, <3>2 DEF Comes
  <2>4. Behind(a, k) = 0 /\ Behind(x, k) = 0
    BY <1>1 DEF Behind
  <2>5. Leads(C, {Place(k + 1, u, a.before, m, s)},
              {Place(0, u \o a.items, a.after, m \o a.runs, Spent(s, a.cost))}, h, W)
    BY <2>3, <2>4, Through
  <2> QED
    BY <1>1, <2>4, <2>5
<1> QED
  BY <1>5, <1>6 DEF RunsThrough

\* A condition before a conditional jump decides where the run goes on.
LEMMA AskedGoes ==
  ASSUME NEW c, RunsThrough(c), Balance(c.code) = 1, ~c.halts, ~c.open, NEW n \in Int,
         NEW C, NEW k, NEW u, NEW m, NEW h, NEW W, NEW b \in Books,
         Enters(JumpOverIf(n, c.code), C, k, u, m, h, W), OnTrack(m \o c.runs, W), NEW q,
         c.items[1] # 0 => /\ Lands(C, q, Offset(C, k + Len(c.code.code) + 5) + n - 3)
                           /\ C[q].op = "JUMPDEST"
  PROVE  Leads(C, {Place(k + 1, u, c.before, m, b)},
               {Place(IF c.items[1] # 0 THEN q ELSE k + Len(c.code.code) + 5, u, c.after, m \o c.runs,
                      Spent(b, c.cost + 18))}, h, W)
<1> DEFINE j == JumpOverIf(n, c.code)
           l == Len(c.code.code)
           v == c.items[1]
           r == m \o c.runs
           t == Spent(b, c.cost)
<1>1. c \in Pieces /\ Len(c.items) = 1 /\ c.code \in Codes /\ c.runs \in Seq(Int) /\ c.cost \in Int
      /\ l \in Nat /\ c.items \in Seq(Int)
  <2>1. c \in Pieces /\ Len(c.items) = Balance(c.code)
    BY DEF RunsThrough
  <2> QED
    BY <2>1, PieceIs
<1>2. c.items = <<v>> /\ v \in Int
  BY <1>1
<1>3. j \in Codes /\ Part(c.code, j, 0, 0)
  BY <1>1, JumpOverIfIs
<1>4. k \in Nat /\ u \in Seq(Int) /\ m \in Seq(Int)
  BY <1>3, EntersIs
<1>5. Enters(c.code, C, k, u, m, h, W)
  <2>1. Enters(c.code, C, k + 0, u, m, h, W) /\ k + 0 = k
    BY <1>3, <1>4, EntersTop
  <2> QED
    BY <2>1
<1>6. r \in Seq(Int) /\ Enters(j, C, k, u, r, h, W)
  <2>1. r \in Seq(Int)
    BY <1>1, <1>4, OnTop
  <2> QED
    BY <2>1, EntersWith
<1>7. Comes(c, C, k, u, m, h, W) /\ Behind(c, k) = k + l + 1
  BY <1>5 DEF Comes, Behind
<1>8. Leads(C, {Place(k + 1, u, c.before, m, b)}, {Place(k + l + 1, u \o <<v>>, c.after, r, t)}, h, W)
  BY <1>2, <1>7, Through
<1>9. t \in Books /\ Spent(t, 18) = Spent(b, c.cost + 18)
  BY <1>1, SpentTwice
<1>12. v # 0 => Lands(C, q, Offset(C, k + l + 5) + n - 3) /\ C[q].op = "JUMPDEST"
  OBVIOUS
<1>13. Enters(JumpOverIf(n, c.code), C, k, u, r, h, W)
  BY <1>6
<1> HIDE DEF j, r, t, v
<1>10. Leads(C, {Place(k + l + 1, u \o <<v>>, c.after, r, t)},
            {Place(IF v # 0 THEN q ELSE k + l + 5, u, c.after, r, Spent(t, 18))}, h, W)
  <2> DEFINE d == c.code
             g == c.after
  <2>1. /\ n \in Int /\ d \in Codes /\ Balance(d) = 1 /\ t \in Books /\ v \in Int
        /\ Enters(JumpOverIf(n, d), C, k, u, r, h, W)
        /\ v # 0 => Lands(C, q, Offset(C, k + Len(d.code) + 5) + n - 3) /\ C[q].op = "JUMPDEST"
    BY <1>1, <1>2, <1>9, <1>12, <1>13
  <2> HIDE DEF d, g
  <2>2. Leads(C, {Place(k + Len(d.code) + 1, u \o <<v>>, g, r, t)},
              {Place(IF v # 0 THEN q ELSE k + Len(d.code) + 5, u, g, r, Spent(t, 18))}, h, W)
    BY <2>1, JumpOverIfGoes, Zenon
  <2> QED
    BY <2>2 DEF d, g
<1>11. Leads(C, {Place(k + 1, u, c.before, m, b)},
            {Place(IF v # 0 THEN q ELSE k + l + 5, u, c.after, r, Spent(b, c.cost + 18))}, h, W)
  BY <1>8, <1>9, <1>10, LeadsOn
<1> QED
  BY <1>11 DEF r, v

\* The parts of a conditional with jumps.
LEMMA LegacyIs ==
  ASSUME NEW c \in Codes, Balance(c) = 1, NEW y \in Codes, Balance(y) = 0, NEW n \in Codes, Balance(n) = 0
  PROVE  LET yes == Concat(Op("JUMPDEST"), y)
             over == JumpOver(Length(yes) + 3)
             no == Concat(n, over)
             asks == JumpOverIf(Length(no) + 3, c)
             j == ConditionalLegacy(c, y, n)
             A == Len(c.code) + 4
             N == Len(n.code) + 4
             Y == 1 + Len(y.code)
         IN  /\ j \in Codes /\ Len(j.code) = A + N + Y + 1 /\ Balance(j) = 0
             /\ Length(yes) + 3 \in Int /\ Length(no) + 3 \in Int
             /\ Part(asks, j, 0, 0) /\ Part(n, j, A, 0) /\ Part(over, j, A + Len(n.code), 0)
             /\ Part(no, j, A, 0) /\ Part(yes, j, A + N, 0)
             /\ Part(Op("JUMPDEST"), j, A + N, 0) /\ Part(y, j, A + N + 1, 0)
             /\ Part(Op("JUMPDEST"), j, A + N + Y, 0)
             /\ Len(no.code) = N /\ Len(yes.code) = Y /\ Len(asks.code) = A
<1> DEFINE dest == Op("JUMPDEST")
           yes == Concat(dest, y)
           over == JumpOver(Length(yes) + 3)
           no == Concat(n, over)
           asks == JumpOverIf(Length(no) + 3, c)
           j == ConditionalLegacy(c, y, n)
           A == Len(c.code) + 4
           N == Len(n.code) + 4
           Y == 1 + Len(y.code)
<1>1. "JUMPDEST" \in Used
  BY DEF Used
<1>2. dest \in Codes /\ Len(dest.code) = 1 /\ Balance(dest) = 0
  BY <1>1, OpsAre
<1>3. Len(c.code) \in Nat /\ Len(n.code) \in Nat /\ Len(y.code) \in Nat
  BY CodeIs
<1>4. j = Join(<<asks, no, yes, dest>>)
  BY DEF ConditionalLegacy
<1> HIDE DEF dest, j
<1>5. /\ yes \in Codes /\ Len(yes.code) = Y /\ Balance(yes) = 0
      /\ Part(dest, yes, 0, 0) /\ Part(y, yes, 1, 0) /\ Length(yes) \in Nat
  <2>1. /\ yes \in Codes /\ Len(yes.code) = Len(dest.code) + Len(y.code)
        /\ Balance(yes) = Balance(dest) + Balance(y)
        /\ Part(dest, yes, 0, 0) /\ Part(y, yes, Len(dest.code), Balance(dest))
    BY <1>2, PartsOfSum
  <2> QED
    BY <1>2, <2>1, CodeIs
<1> HIDE DEF yes
<1>6. Length(yes) + 3 \in Int /\ over \in Codes /\ Len(over.code) = 4 /\ Balance(over) = 0
  <2> DEFINE e == Length(yes) + 3
  <2>1. e \in Int
    BY <1>5
  <2> HIDE DEF e
  <2>2. JumpOver(e) \in Codes /\ Len(JumpOver(e).code) = 4 /\ Balance(JumpOver(e)) = 0
    BY <2>1, JumpOverIs
  <2> QED
    BY <2>1, <2>2 DEF e
<1> HIDE DEF over
<1>7. /\ no \in Codes /\ Len(no.code) = N /\ Balance(no) = 0 /\ Length(no) \in Nat
      /\ Part(n, no, 0, 0) /\ Part(over, no, Len(n.code), 0)
  <2>1. /\ no \in Codes /\ Len(no.code) = Len(n.code) + Len(over.code)
        /\ Balance(no) = Balance(n) + Balance(over)
        /\ Part(n, no, 0, 0) /\ Part(over, no, Len(n.code), Balance(n))
    BY <1>6, PartsOfSum
  <2> QED
    BY <1>6, <2>1, CodeIs
<1> HIDE DEF no
<1>8. Length(no) + 3 \in Int /\ asks \in Codes /\ Len(asks.code) = A /\ Balance(asks) = 0
  BY <1>7, JumpOverIfIs
<1> HIDE DEF asks
<1>9. /\ j \in Codes /\ Len(j.code) = A + N + Y + 1 /\ Balance(j) = 0
      /\ Part(asks, j, 0, 0) /\ Part(no, j, A, 0) /\ Part(yes, j, A + N, 0) /\ Part(dest, j, A + N + Y, 0)
  <2>1. /\ j \in Codes /\ Len(j.code) = Len(asks.code) + Len(no.code) + Len(yes.code) + Len(dest.code)
        /\ Balance(j) = Balance(asks) + Balance(no) + Balance(yes) + Balance(dest)
        /\ Part(asks, j, 0, 0) /\ Part(no, j, Len(asks.code), Balance(asks))
        /\ Part(yes, j, Len(asks.code) + Len(no.code), Balance(asks) + Balance(no))
        /\ Part(dest, j, Len(asks.code) + Len(no.code) + Len(yes.code), Balance(asks) + Balance(no) + Balance(yes))
    <3>1. LET t == Join(<<asks, no, yes, dest>>)
          IN  /\ t \in Codes /\ Len(t.code) = Len(asks.code) + Len(no.code) + Len(yes.code) + Len(dest.code)
              /\ Length(t) = Length(asks) + Length(no) + Length(yes) + Length(dest)
              /\ Balance(t) = Balance(asks) + Balance(no) + Balance(yes) + Balance(dest)
              /\ t.terminating = dest.terminating
              /\ Part(asks, t, 0, 0) /\ Part(no, t, Len(asks.code), Balance(asks))
              /\ Part(yes, t, Len(asks.code) + Len(no.code), Balance(asks) + Balance(no))
              /\ Part(dest, t, Len(asks.code) + Len(no.code) + Len(yes.code),
                      Balance(asks) + Balance(no) + Balance(yes))
      BY <1>2, <1>5, <1>7, <1>8, FourParts, Zenon
    <3> QED
      BY <1>4, <3>1, Zenon
  <2> HIDE DEF A, N, Y
  <2> QED
    BY <1>2, <1>5, <1>7, <1>8, <2>1
<1>10. A \in Nat /\ N \in Nat /\ Y \in Nat
  BY <1>3
<1>11. Part(n, j, A, 0) /\ Part(over, j, A + Len(n.code), 0)
  <2>1. Part(n, j, A + 0, 0 + 0) /\ Part(over, j, A + Len(n.code), 0 + 0)
    BY <1>7, <1>9, PartOfPart
  <2> HIDE DEF A
  <2>2. A + 0 = A /\ 0 + 0 = 0
    BY <1>10
  <2> QED
    BY <2>1, <2>2
<1>12. Part(dest, j, A + N, 0) /\ Part(y, j, A + N + 1, 0)
  <2>1. Part(dest, j, (A + N) + 0, 0 + 0) /\ Part(y, j, (A + N) + 1, 0 + 0)
    BY <1>5, <1>9, PartOfPart
  <2> HIDE DEF A, N
  <2>2. (A + N) + 0 = A + N /\ 0 + 0 = 0
    BY <1>10
  <2> QED
    BY <2>1, <2>2
<1> QED
  BY <1>5, <1>6, <1>7, <1>8, <1>9, <1>11, <1>12 DEF dest, yes, over, no, asks, j

\* A piece without balance leaves no items.
LEMMA NoItems ==
  ASSUME NEW a, RunsThrough(a), Balance(a.code) = 0
  PROVE  a \in Pieces /\ a.items = <<>> /\ a.cost \in Nat /\ a.cost \in Int /\ a.runs \in Seq(Int)
         /\ a.code \in Codes /\ Len(a.code.code) \in Nat /\ a.halts \in BOOLEAN
<1>1. a \in Pieces /\ Len(a.items) = 0
  BY DEF RunsThrough
<1>2. a.items \in Seq(Int)
  BY <1>1, PieceIs
<1> DEFINE s == a.items
<1>3. s \in Seq(Int) /\ Len(s) = 0
  BY <1>1, <1>2
<1> HIDE DEF s
<1>4. s = <<>>
  BY <1>3
<1> QED
  BY <1>1, <1>4, PieceIs DEF s

\* A branch and what stands behind it.
LEMMA ThroughBranch ==
  ASSUME NEW a, RunsThrough(a), Balance(a.code) = 0, NEW C, NEW k, NEW u, NEW m, NEW h, NEW W,
         NEW b \in Books, Comes(a, C, k, u, m, h, W), NEW z \in Int, NEW e,
         ~a.halts => \A r \in Seq(Int), t \in Books :
             OnTrack(r, W) => Leads(C, {Place(k + Len(a.code.code) + 1, u, a.after, r, t)},
                                    {Place(e, u, a.after, r, Spent(t, z))}, h, W)
  PROVE  Leads(C, {Place(k + 1, u, a.before, m, b)},
               {Place(IF a.halts THEN 0 ELSE e, u, a.after, m \o a.runs,
                      Spent(b, a.cost + (IF a.halts THEN 0 ELSE z)))}, h, W)
<1> DEFINE t == Spent(b, a.cost)
           r == m \o a.runs
           l == Len(a.code.code)
<1>1. a.items = <<>> /\ a.cost \in Int /\ a.runs \in Seq(Int) /\ a.code \in Codes /\ a.halts \in BOOLEAN
  BY NoItems
<1>2. Enters(a.code, C, k, u, m, h, W) /\ OnTrack(m \o a.runs, W)
  BY DEF Comes
<1>3. u \in Seq(Int) /\ m \in Seq(Int) /\ u \o <<>> = u
  BY <1>1, <1>2, EntersIs, NothingOnTop
<1>4. Leads(C, {Place(k + 1, u, a.before, m, b)}, {Place(Behind(a, k), u, a.after, r, t)}, h, W)
  <2>1. Leads(C, {Place(k + 1, u, a.before, m, b)},
              {Place(Behind(a, k), u \o a.items, a.after, r, t)}, h, W)
    BY Through
  <2> QED
    BY <1>1, <1>3, <2>1
<1>5. r \in Seq(Int) /\ OnTrack(r, W) /\ t \in Books /\ Spent(t, z) = Spent(b, a.cost + z)
  BY <1>1, <1>2, <1>3, OnTop, SpentTwice
<1>6. a.cost + 0 = a.cost
  BY <1>1
<1> HIDE DEF r, t
<1>7. CASE a.halts
  <2>1. Behind(a, k) = 0
    BY <1>7 DEF Behind
  <2> QED
    BY <1>4, <1>6, <1>7, <2>1 DEF r, t
<1>8. CASE ~a.halts
  <2>1. Behind(a, k) = k + l + 1
    BY <1>8 DEF Behind
  <2>2. Leads(C, {Place(k + l + 1, u, a.after, r, t)}, {Place(e, u, a.after, r, Spent(t, z))}, h, W)
    BY <1>5, <1>8
  <2> HIDE DEF l
  <2>3. Leads(C, {Place(k + 1, u, a.before, m, b)}, {Place(e, u, a.after, r, Spent(t, z))}, h, W)
    BY <1>4, <2>1, <2>2, LeadsOn
  <2> QED
    BY <1>5, <1>8, <2>3 DEF r
<1> QED
  BY <1>1, <1>7, <1>8

\* Where the parts of a legacy conditional stand, and where its jumps land.
LEMMA LegacyThere ==
  ASSUME NEW c \in Codes, Balance(c) = 1, NEW y \in Codes, Balance(y) = 0, NEW n \in Codes, Balance(n) = 0,
         NEW C, NEW k, NEW u, NEW m, NEW h, NEW W, Enters(ConditionalLegacy(c, y, n), C, k, u, m, h, W)
  PROVE  \E i, j, l, p, q : /\ LegacyAt(c, y, n, C, k, u, h, W, i, j, l, p, q)
                            /\ k + Len(ConditionalLegacy(c, y, n).code) = q + 1
<1> DEFINE yes == Concat(Op("JUMPDEST"), y)
           over == JumpOver(Length(yes) + 3)
           no == Concat(n, over)
           asks == JumpOverIf(Length(no) + 3, c)
           x == ConditionalLegacy(c, y, n)
           A == Len(c.code) + 4
           N == Len(n.code) + 4
           Y == 1 + Len(y.code)
<1>1. /\ x \in Codes /\ Len(x.code) = A + N + Y + 1 /\ Balance(x) = 0
      /\ Length(yes) + 3 \in Int /\ Length(no) + 3 \in Int
      /\ Part(asks, x, 0, 0) /\ Part(n, x, A, 0) /\ Part(over, x, A + Len(n.code), 0)
      /\ Part(no, x, A, 0) /\ Part(yes, x, A + N, 0)
      /\ Part(Op("JUMPDEST"), x, A + N, 0) /\ Part(y, x, A + N + 1, 0)
      /\ Part(Op("JUMPDEST"), x, A + N + Y, 0)
      /\ Len(no.code) = N /\ Len(yes.code) = Y /\ Len(asks.code) = A
  BY LegacyIs, Zenon
<1>2. Enters(x, C, k, u, m, h, W)
  OBVIOUS
<1>3. Len(c.code) \in Nat /\ Len(n.code) \in Nat /\ Len(y.code) \in Nat
  BY CodeIs
<1>4. no \in Codes /\ yes \in Codes
  BY <1>1 DEF Part
<1>5. Length(no) \in Nat /\ Length(yes) \in Nat
  BY <1>4, CodeIs
<1> DEFINE dest == Op("JUMPDEST")
<1> HIDE DEF x, asks, yes, no, over, dest
<1>6. k \in Nat /\ u \in Seq(Int) /\ m \in Seq(Int) /\ OnTrack(m, W)
  BY <1>1, <1>2, EntersIs
<1> DEFINE l == k + Len(c.code) + 4
           p == l + Len(n.code) + 4
           q == p + 1 + Len(y.code)
<1>7. /\ l \in Nat /\ p \in Nat /\ q \in Nat /\ k + 0 = k /\ k + A = l /\ k + (A + Len(n.code)) = l + Len(n.code)
      /\ k + (A + N) = p /\ k + (A + N + 1) = p + 1 /\ k + (A + N + Y) = q /\ k + (A + N + Y + 1) = q + 1
      /\ l + N + 1 = p + 1 /\ p + Y + 1 = q + 1
  <2> DEFINE d == Len(c.code)
             e == Len(n.code)
             g == Len(y.code)
  <2>1. d \in Nat /\ e \in Nat /\ g \in Nat
    BY <1>3
  <2>2. A = d + 4 /\ N = e + 4 /\ Y = 1 + g /\ l = k + d + 4 /\ p = l + e + 4 /\ q = p + 1 + g
    OBVIOUS
  <2> HIDE DEF d, e, g, A, N, Y, l, p, q
  <2>3. /\ l \in Nat /\ p \in Nat /\ q \in Nat /\ k + 0 = k /\ k + A = l /\ k + (A + e) = l + e
        /\ k + (A + N) = p /\ k + (A + N + 1) = p + 1 /\ k + (A + N + Y) = q /\ k + (A + N + Y + 1) = q + 1
        /\ l + N + 1 = p + 1 /\ p + Y + 1 = q + 1
    BY <1>6, <2>1, <2>2
  <2> QED
    BY <2>3 DEF e
<1> HIDE DEF l, p, q
<1>8. ASSUME NEW r \in Seq(Int), OnTrack(r, W)
      PROVE  /\ Enters(asks, C, k, u, r, h, W)
             /\ Enters(n, C, l, u, r, h, W) /\ Enters(over, C, l + Len(n.code), u, r, h, W)
             /\ Enters(dest, C, p, u, r, h, W) /\ Enters(y, C, p + 1, u, r, h, W)
             /\ Enters(dest, C, q, u, r, h, W)
             /\ Enters(no, C, l, u, r, h, W) /\ Enters(yes, C, p, u, r, h, W)
  <2>1. Enters(x, C, k, u, r, h, W)
    BY <1>2, <1>8, EntersWith
  <2> HIDE DEF A, N, Y
  <2>2. /\ Enters(asks, C, k + 0, u, r, h, W)
        /\ Enters(n, C, k + A, u, r, h, W) /\ Enters(over, C, k + (A + Len(n.code)), u, r, h, W)
        /\ Enters(dest, C, k + (A + N), u, r, h, W) /\ Enters(y, C, k + (A + N + 1), u, r, h, W)
        /\ Enters(dest, C, k + (A + N + Y), u, r, h, W)
        /\ Enters(no, C, k + A, u, r, h, W) /\ Enters(yes, C, k + (A + N), u, r, h, W)
    BY <1>1, <2>1, EntersTop DEF dest
  <2> QED
    BY <1>7, <2>2
<1>9. C[p + 1].op = "JUMPDEST" /\ C[q + 1].op = "JUMPDEST" /\ p + 1 \in DOMAIN C /\ q + 1 \in DOMAIN C
  BY <1>6, <1>8, DestThere DEF dest
<1>10. /\ Offset(C, p + 1) = Offset(C, l + 1) + Length(no) /\ Offset(C, l + 1) \in Nat
       /\ Offset(C, q + 1) = Offset(C, p + 1) + Length(yes) /\ Offset(C, p + 1) \in Nat
  <2> HIDE DEF A, N, Y
  <2>1. Offset(C, l + Len(no.code) + 1) = Offset(C, l + 1) + Length(no) /\ Offset(C, l + 1) \in Nat
    BY <1>4, <1>6, <1>8, EntersIs
  <2>2. Offset(C, p + Len(yes.code) + 1) = Offset(C, p + 1) + Length(yes) /\ Offset(C, p + 1) \in Nat
    BY <1>4, <1>6, <1>8, EntersIs
  <2> QED
    BY <1>1, <1>7, <2>1, <2>2
<1> DEFINE i == Length(no) + 3
           j == Length(yes) + 3
<1>11. Lands(C, p + 1, Offset(C, l + 1) + i - 3) /\ Lands(C, q + 1, Offset(C, p + 1) + j - 3)
  <2> DEFINE e == Length(no)
             g == Length(yes)
             o == Offset(C, l + 1)
             d == Offset(C, p + 1)
  <2>1. e \in Nat /\ g \in Nat /\ o \in Nat /\ d \in Nat
    BY <1>5, <1>10
  <2> HIDE DEF e, g, o, d
  <2>2. o + (e + 3) - 3 = o + e /\ d + (g + 3) - 3 = d + g
    BY <2>1
  <2> QED
    BY <1>9, <1>10, <2>2 DEF Lands, e, g, o, d
<1>12. asks = JumpOverIf(i, c) /\ over = JumpOver(j)
  BY DEF asks, over
<1> HIDE DEF i, j
<1>13. i \in Int /\ j \in Int
  BY <1>1 DEF i, j
<1>14. LegacyAt(c, y, n, C, k, u, h, W, i, j, l, p, q)
  <2>1. l = k + Len(c.code) + 4 /\ p = l + Len(n.code) + 4 /\ q = p + 1 + Len(y.code)
    BY DEF l, p, q
  <2> QED
    BY <1>7, <1>8, <1>9, <1>11, <1>12, <1>13, <2>1 DEF LegacyAt, dest
<1>15. k + Len(x.code) = q + 1
  BY <1>1, <1>7
<1> QED
  BY <1>14, <1>15 DEF x

\* The jumps of a legacy conditional land on its JUMPDESTs.
LEMMA LegacyJumps ==
  ASSUME NEW c \in Codes, Balance(c) = 1, NEW y \in Codes, NEW n \in Codes, NEW C, NEW k, NEW u, NEW h, NEW W,
         NEW i, NEW j, NEW l, NEW p, NEW q, LegacyAt(c, y, n, C, k, u, h, W, i, j, l, p, q), k \in Nat
  PROVE  /\ l + 1 = k + Len(c.code) + 5
         /\ Lands(C, p + 1, Offset(C, k + Len(c.code) + 5) + i - 3) /\ C[p + 1].op = "JUMPDEST"
         /\ Lands(C, q + 1, Offset(C, (l + Len(n.code)) + 5) + j - 3) /\ C[q + 1].op = "JUMPDEST"
<1> DEFINE d == Len(c.code)
           e == Len(n.code)
<1>1. d \in Nat /\ e \in Nat /\ l \in Nat /\ p \in Nat /\ l = k + d + 4 /\ p = l + e + 4
  BY CodeIs DEF LegacyAt
<1>2. /\ Lands(C, p + 1, Offset(C, l + 1) + i - 3) /\ C[p + 1].op = "JUMPDEST"
      /\ Lands(C, q + 1, Offset(C, p + 1) + j - 3) /\ C[q + 1].op = "JUMPDEST"
  BY DEF LegacyAt
<1> HIDE DEF d, e
<1>3. l + 1 = k + d + 5 /\ p + 1 = (l + e) + 5
  BY <1>1
<1> QED
  BY <1>2, <1>3 DEF d, e

\* A jump destination and what stands behind it.
LEMMA DestGoes ==
  ASSUME NEW C, NEW q \in Nat, NEW u, NEW h, NEW W, NEW f, NEW r, NEW t \in Books,
         Enters(Op("JUMPDEST"), C, q, u, r, h, W)
  PROVE  Leads(C, {Place(q + 1, u, f, r, t)}, {Place(q + 2, u, f, r, Spent(t, 1))}, h, W)
<1>1. u \in Seq(Int) /\ r \in Seq(Int)
  BY DEF Enters
<1> QED
  BY <1>1, JumpdestGoes

\* A legacy conditional whose condition is true runs if_true.
LEMMA ThenRuns ==
  ASSUME NEW x \in Pieces, NEW c, NEW a, NEW d, RunsThrough(c), RunsThrough(a), IsThen(x, c, a, d)
  PROVE  RunsThrough(x)
<1>1. /\ Balance(c.code) = 1 /\ ~c.halts /\ ~c.open /\ Balance(a.code) = 0 /\ a.before = c.after
      /\ x.before = c.before /\ x.after = a.after /\ x.runs = c.runs \o a.runs /\ x.items = <<>>
      /\ x.halts = a.halts /\ c.items[1] # 0 /\ d \in Codes /\ Balance(d) = 0 /\ ~x.open
      /\ x.code = ConditionalLegacy(c.code, a.code, d)
      /\ x.cost = c.cost + 19 + (a.cost + (IF a.halts THEN 0 ELSE 1))
  BY DEF IsThen, Chooses
<1>2. /\ c \in Pieces /\ c.code \in Codes /\ c.runs \in Seq(Int) /\ c.cost \in Int
      /\ Len(c.code.code) \in Nat
  BY PieceIs DEF RunsThrough
<1>3. /\ a.code \in Codes /\ a.runs \in Seq(Int) /\ a.cost \in Int /\ a.halts \in BOOLEAN
      /\ Len(a.code.code) \in Nat
  BY <1>1, NoItems
<1>4. x.code \in Codes /\ Balance(x.code) = 0 /\ Len(x.items) = 0
  <2>1. /\ ConditionalLegacy(c.code, a.code, d) \in Codes
        /\ Balance(ConditionalLegacy(c.code, a.code, d)) = 0
    BY <1>1, <1>2, <1>3, LegacyIs, Zenon
  <2> QED
    BY <1>1, <2>1
<1>5. ASSUME NEW C, NEW k, NEW u, NEW m, NEW h, NEW W, NEW b \in Books, Comes(x, C, k, u, m, h, W)
      PROVE  Leads(C, {Place(k + 1, u, x.before, m, b)},
               {Place(Behind(x, k), u \o x.items, x.after, m \o x.runs, Spent(b, x.cost))}, h, W)
  <2> DEFINE r == m \o c.runs
             t == Spent(b, c.cost + 18)
  <2>1. Enters(x.code, C, k, u, m, h, W) /\ OnTrack(m \o x.runs, W)
    BY <1>5 DEF Comes
  <2>2. k \in Nat /\ u \in Seq(Int) /\ m \in Seq(Int) /\ OnTrack(m, W)
    BY <1>4, <2>1, EntersIs
  <2>3. r \in Seq(Int) /\ m \o x.runs = r \o a.runs /\ OnTrack(r \o a.runs, W) /\ OnTrack(r, W)
    <3>0. m \in Seq(Int) /\ c.runs \in Seq(Int) /\ a.runs \in Seq(Int)
      BY <1>2, <1>3, <2>2
    <3>1. m \o (c.runs \o a.runs) = (m \o c.runs) \o a.runs
      BY <3>0, Together, Zenon
    <3>2. r \in Seq(Int)
      BY <1>2, <2>2, OnTop
    <3> QED
      BY <1>1, <1>3, <2>1, <3>1, <3>2, OnTrackBefore
  <2>4. PICK i, j, l, p, q : /\ LegacyAt(c.code, a.code, d, C, k, u, h, W, i, j, l, p, q)
                             /\ k + Len(x.code.code) = q + 1
    BY <1>1, <1>2, <1>3, <2>1, LegacyThere, SMTT(30)
  <2>5. /\ i \in Int /\ p \in Nat /\ q \in Nat /\ q = p + 1 + Len(a.code.code)
        /\ \A w \in Seq(Int) : OnTrack(w, W) =>
              /\ Enters(JumpOverIf(i, c.code), C, k, u, w, h, W)
              /\ Enters(Op("JUMPDEST"), C, p, u, w, h, W) /\ Enters(a.code, C, p + 1, u, w, h, W)
              /\ Enters(Op("JUMPDEST"), C, q, u, w, h, W)
    BY <2>4 DEF LegacyAt
  <2>6. Lands(C, p + 1, Offset(C, k + Len(c.code.code) + 5) + i - 3) /\ C[p + 1].op = "JUMPDEST"
    <3> DEFINE e == c.code
               g == a.code
    <3>1. /\ e \in Codes /\ Balance(e) = 1 /\ g \in Codes /\ d \in Codes /\ k \in Nat
          /\ LegacyAt(e, g, d, C, k, u, h, W, i, j, l, p, q)
      BY <1>1, <1>2, <1>3, <2>2, <2>4
    <3> HIDE DEF e, g
    <3>2. Lands(C, p + 1, Offset(C, k + Len(e.code) + 5) + i - 3) /\ C[p + 1].op = "JUMPDEST"
      BY <3>1, LegacyJumps
    <3> QED
      BY <3>2 DEF e
  <2>7. Leads(C, {Place(k + 1, u, c.before, m, b)}, {Place(p + 1, u, c.after, r, t)}, h, W)
    BY <1>1, <2>2, <2>3, <2>5, <2>6, AskedGoes
  <2>8. t \in Books /\ Spent(t, 1) = Spent(b, c.cost + 19)
    <3>1. c.cost + 18 \in Int /\ c.cost + 18 + 1 = c.cost + 19
      BY <1>2
    <3> QED
      BY <3>1, SpentTwice
  <2> HIDE DEF r, t
  <2> DEFINE g == Spent(t, 1)
  <2>9. g \in Books /\ Leads(C, {Place(p + 1, u, c.after, r, t)}, {Place(p + 2, u, c.after, r, g)}, h, W)
    <3>1. Enters(Op("JUMPDEST"), C, p, u, r, h, W)
      BY <2>3, <2>5
    <3>2. Spent(t, 1) \in Books
      BY <2>8, SpentTwice
    <3> QED
      BY <2>5, <2>8, <3>1, <3>2, DestGoes
  <2>10. Comes(a, C, p + 1, u, r, h, W)
    <3>1. a.open => p + 1 + Len(a.code.code) < Len(C)
      <4>1. q + 1 \in DOMAIN C /\ C \in Seq(Instruction)
        <5>1. C \in Seq(Instruction)
          BY <1>4, <2>1, EntersIs
        <5>2. q + 1 \in DOMAIN C
          BY <2>4 DEF LegacyAt, Lands
        <5> QED
          BY <5>1, <5>2
      <4>2. q + 1 <= Len(C) /\ Len(C) \in Nat
        BY <4>1
      <4> DEFINE e == Len(a.code.code)
                 n == Len(C)
      <4>3. e \in Nat /\ n \in Nat /\ q = p + 1 + e /\ q + 1 <= n /\ p \in Nat /\ q \in Nat
        BY <1>3, <2>5, <4>2
      <4> HIDE DEF e, n
      <4>4. p + 1 + e < n
        BY <4>3
      <4> QED
        BY <4>4 DEF e, n
    <3> QED
      BY <2>3, <2>5, <3>1 DEF Comes
  <2> HIDE DEF g
  <2>11. Leads(C, {Place(p + 2, u, a.before, r, g)},
               {Place(IF a.halts THEN 0 ELSE q + 2, u, a.after, r \o a.runs,
                      Spent(g, a.cost + (IF a.halts THEN 0 ELSE 1)))}, h, W)
    <3>1. (p + 1) + 1 = p + 2 /\ (p + 1) + Len(a.code.code) + 1 = q + 1
      BY <1>3, <2>5
    <3>2. ASSUME NEW w \in Seq(Int), NEW s \in Books, OnTrack(w, W)
          PROVE  Leads(C, {Place((p + 1) + Len(a.code.code) + 1, u, a.after, w, s)},
                       {Place(q + 2, u, a.after, w, Spent(s, 1))}, h, W)
      <4>1. Leads(C, {Place(q + 1, u, a.after, w, s)}, {Place(q + 2, u, a.after, w, Spent(s, 1))}, h, W)
        BY <2>5, <3>2, DestGoes
      <4> QED
        BY <3>1, <4>1
    <3>3. Leads(C, {Place((p + 1) + 1, u, a.before, r, g)},
               {Place(IF a.halts THEN 0 ELSE q + 2, u, a.after, r \o a.runs,
                      Spent(g, a.cost + (IF a.halts THEN 0 ELSE 1)))}, h, W)
      <4>1. \A w \in Seq(Int), s \in Books :
               OnTrack(w, W) => Leads(C, {Place((p + 1) + Len(a.code.code) + 1, u, a.after, w, s)},
                                      {Place(q + 2, u, a.after, w, Spent(s, 1))}, h, W)
        BY <3>2
      <4>2. 1 \in Int
        OBVIOUS
      <4> QED
        BY <1>1, <2>9, <2>10, <4>1, <4>2, ThroughBranch, Zenon
    <3> QED
      BY <3>1, <3>3
  <2>12. Behind(x, k) = (IF a.halts THEN 0 ELSE q + 2) /\ u \o x.items = u
    <3>1. k + Len(x.code.code) + 1 = q + 2
      <4> DEFINE e == k + Len(x.code.code)
      <4>1. e = q + 1
        BY <2>4
      <4> HIDE DEF e
      <4>2. e + 1 = q + 2
        BY <2>5, <4>1
      <4> QED
        BY <4>2 DEF e
    <3> QED
      BY <1>1, <2>2, <3>1, NothingOnTop DEF Behind
  <2>13. Spent(g, a.cost + (IF a.halts THEN 0 ELSE 1)) = Spent(b, x.cost)
    <3> DEFINE z == a.cost + (IF a.halts THEN 0 ELSE 1)
               n == c.cost + 19
    <3>1. z \in Int /\ n \in Int
      BY <1>2, <1>3
    <3>2. g = Spent(b, n) /\ x.cost = n + z
      BY <1>1, <2>8 DEF g
    <3> HIDE DEF z, n
    <3>3. Spent(g, z) = Spent(b, x.cost)
      BY <3>1, <3>2, SpentTwice
    <3> QED
      BY <3>3 DEF z
  <2>14. Leads(C, {Place(k + 1, u, c.before, m, b)},
               {Place(IF a.halts THEN 0 ELSE q + 2, u, a.after, r \o a.runs,
                      Spent(g, a.cost + (IF a.halts THEN 0 ELSE 1)))}, h, W)
    BY <1>1, <2>7, <2>9, <2>11, LeadsOnOn
  <2> QED
    BY <1>1, <2>3, <2>12, <2>13, <2>14
<1> QED
  BY <1>4, <1>5 DEF RunsThrough

\* One whose condition is false runs if_false.
LEMMA ElseRuns ==
  ASSUME NEW x \in Pieces, NEW c, NEW a, NEW d, RunsThrough(c), RunsThrough(a), IsElse(x, c, a, d)
  PROVE  RunsThrough(x)
<1>1. /\ Balance(c.code) = 1 /\ ~c.halts /\ ~c.open /\ Balance(a.code) = 0 /\ a.before = c.after
      /\ x.before = c.before /\ x.after = a.after /\ x.runs = c.runs \o a.runs /\ x.items = <<>>
      /\ x.halts = a.halts /\ c.items[1] = 0 /\ d \in Codes /\ Balance(d) = 0 /\ ~x.open
      /\ x.code = ConditionalLegacy(c.code, d, a.code)
      /\ x.cost = c.cost + 18 + (a.cost + (IF a.halts THEN 0 ELSE 17))
  BY DEF IsElse, Chooses
<1>2. /\ c \in Pieces /\ c.code \in Codes /\ c.runs \in Seq(Int) /\ c.cost \in Int
      /\ Len(c.code.code) \in Nat
  BY PieceIs DEF RunsThrough
<1>3. /\ a.code \in Codes /\ a.runs \in Seq(Int) /\ a.cost \in Int /\ a.halts \in BOOLEAN
      /\ Len(a.code.code) \in Nat
  BY <1>1, NoItems
<1>4. x.code \in Codes /\ Balance(x.code) = 0 /\ Len(x.items) = 0
  <2>1. /\ ConditionalLegacy(c.code, d, a.code) \in Codes
        /\ Balance(ConditionalLegacy(c.code, d, a.code)) = 0
    BY <1>1, <1>2, <1>3, LegacyIs, Zenon
  <2> QED
    BY <1>1, <2>1
<1>5. ASSUME NEW C, NEW k, NEW u, NEW m, NEW h, NEW W, NEW b \in Books, Comes(x, C, k, u, m, h, W)
      PROVE  Leads(C, {Place(k + 1, u, x.before, m, b)},
               {Place(Behind(x, k), u \o x.items, x.after, m \o x.runs, Spent(b, x.cost))}, h, W)
  <2> DEFINE r == m \o c.runs
             t == Spent(b, c.cost + 18)
  <2>1. Enters(x.code, C, k, u, m, h, W) /\ OnTrack(m \o x.runs, W)
    BY <1>5 DEF Comes
  <2>2. k \in Nat /\ u \in Seq(Int) /\ m \in Seq(Int) /\ OnTrack(m, W) /\ C \in Seq(Instruction)
    BY <1>4, <2>1, EntersIs
  <2>3. r \in Seq(Int) /\ m \o x.runs = r \o a.runs /\ OnTrack(r \o a.runs, W) /\ OnTrack(r, W)
    <3>0. m \in Seq(Int) /\ c.runs \in Seq(Int) /\ a.runs \in Seq(Int)
      BY <1>2, <1>3, <2>2
    <3>1. m \o (c.runs \o a.runs) = (m \o c.runs) \o a.runs
      BY <3>0, Together, Zenon
    <3>2. r \in Seq(Int)
      BY <1>2, <2>2, OnTop
    <3> QED
      BY <1>1, <1>3, <2>1, <3>1, <3>2, OnTrackBefore
  <2>4. PICK i, j, l, p, q : /\ LegacyAt(c.code, d, a.code, C, k, u, h, W, i, j, l, p, q)
                             /\ k + Len(x.code.code) = q + 1
    <3> DEFINE f == c.code
               g == a.code
    <3>1. /\ f \in Codes /\ Balance(f) = 1 /\ g \in Codes /\ d \in Codes /\ Balance(g) = 0 /\ Balance(d) = 0
          /\ x.code = ConditionalLegacy(f, d, g) /\ Enters(ConditionalLegacy(f, d, g), C, k, u, m, h, W)
      BY <1>1, <1>2, <1>3, <2>1
    <3> HIDE DEF f, g
    <3>2. \E i, j, l, p, q : /\ LegacyAt(f, d, g, C, k, u, h, W, i, j, l, p, q)
                             /\ k + Len(ConditionalLegacy(f, d, g).code) = q + 1
      BY <3>1, LegacyThere
    <3> QED
      BY <3>1, <3>2 DEF f, g
  <2> DEFINE e == Len(a.code.code)
  <2>5. /\ i \in Int /\ j \in Int /\ l \in Nat /\ p \in Nat /\ q \in Nat /\ p = l + e + 4
        /\ \A w \in Seq(Int) : OnTrack(w, W) =>
              /\ Enters(JumpOverIf(i, c.code), C, k, u, w, h, W)
              /\ Enters(a.code, C, l, u, w, h, W) /\ Enters(JumpOver(j), C, l + e, u, w, h, W)
              /\ Enters(Op("JUMPDEST"), C, q, u, w, h, W)
        /\ p + 1 \in DOMAIN C
    BY <2>4 DEF LegacyAt, Lands
  <2>6. /\ Lands(C, q + 1, Offset(C, (l + e) + 5) + j - 3) /\ C[q + 1].op = "JUMPDEST"
        /\ l + 1 = k + Len(c.code.code) + 5
    <3> DEFINE f == c.code
               g == a.code
    <3>1. /\ f \in Codes /\ Balance(f) = 1 /\ g \in Codes /\ d \in Codes /\ k \in Nat
          /\ LegacyAt(f, d, g, C, k, u, h, W, i, j, l, p, q)
      BY <1>1, <1>2, <1>3, <2>2, <2>4
    <3>2. e = Len(g.code)
      OBVIOUS
    <3> HIDE DEF f, g, e
    <3>3. /\ Lands(C, q + 1, Offset(C, (l + Len(g.code)) + 5) + j - 3) /\ C[q + 1].op = "JUMPDEST"
          /\ l + 1 = k + Len(f.code) + 5
      BY <3>1, LegacyJumps
    <3> QED
      BY <3>2, <3>3 DEF f
  <2>15. e \in Nat /\ (l + e) + 1 = l + e + 1
    BY <1>3, <2>5
  <2>7. Leads(C, {Place(k + 1, u, c.before, m, b)}, {Place(l + 1, u, c.after, r, t)}, h, W)
    <3> DEFINE v == c.items[1]
    <3>1. v = 0 /\ (v # 0 => Lands(C, 0, Offset(C, k + Len(c.code.code) + 5) + i - 3) /\ C[0].op = "JUMPDEST")
      BY <1>1
    <3>2. Enters(JumpOverIf(i, c.code), C, k, u, m, h, W)
      BY <2>2, <2>5
    <3>3. Leads(C, {Place(k + 1, u, c.before, m, b)},
                {Place(IF v # 0 THEN 0 ELSE k + Len(c.code.code) + 5, u, c.after, r, t)}, h, W)
      BY <1>1, <2>3, <2>5, <3>1, <3>2, AskedGoes
    <3> QED
      BY <2>6, <3>1, <3>3
  <2>8. t \in Books
    <3>1. c.cost + 18 \in Int
      BY <1>2
    <3> QED
      BY <3>1, SpentTwice
  <2> HIDE DEF r, t
  <2>10. Comes(a, C, l, u, r, h, W)
    <3>1. a.open => l + Len(a.code.code) < Len(C)
      <4>1. p + 1 <= Len(C) /\ Len(C) \in Nat
        BY <2>2, <2>5
      <4> DEFINE n == Len(C)
      <4>3. e \in Nat /\ n \in Nat /\ p = l + e + 4 /\ p + 1 <= n /\ p \in Nat /\ l \in Nat
        BY <2>5, <2>15, <4>1
      <4> HIDE DEF e, n
      <4>4. l + e < n
        BY <4>3
      <4> QED
        BY <4>4 DEF e, n
    <3> QED
      BY <2>3, <2>5, <3>1 DEF Comes
  <2>11. Leads(C, {Place(l + 1, u, a.before, r, t)},
               {Place(IF a.halts THEN 0 ELSE q + 2, u, a.after, r \o a.runs,
                      Spent(t, a.cost + (IF a.halts THEN 0 ELSE 17)))}, h, W)
    <3>2. ASSUME NEW w \in Seq(Int), NEW s \in Books, OnTrack(w, W)
          PROVE  Leads(C, {Place(l + e + 1, u, a.after, w, s)},
                       {Place(q + 2, u, a.after, w, Spent(s, 17))}, h, W)
      <4> DEFINE g == Spent(s, 16)
                 o == l + e
      <4>1. g \in Books /\ Spent(g, 1) = Spent(s, 17)
        BY SpentTwice
      <4> HIDE DEF g
      <4>2. Leads(C, {Place(q + 1, u, a.after, w, g)}, {Place(q + 2, u, a.after, w, Spent(g, 1))}, h, W)
        BY <2>5, <3>2, <4>1, DestGoes
      <4>3. j \in Int /\ Enters(JumpOver(j), C, o, u, w, h, W)
        BY <2>5, <3>2
      <4>4. Lands(C, q + 1, Offset(C, o + 5) + j - 3) /\ C[q + 1].op = "JUMPDEST"
        BY <2>6
      <4> HIDE DEF o
      <4>5. Leads(C, {Place(o + 1, u, a.after, w, s)}, {Place(q + 1, u, a.after, w, Spent(s, 16))}, h, W)
        BY <4>3, <4>4, JumpOverGoes
      <4>6. Leads(C, {Place(o + 1, u, a.after, w, s)}, {Place(q + 1, u, a.after, w, g)}, h, W)
        BY <4>5 DEF g
      <4>7. Leads(C, {Place(o + 1, u, a.after, w, s)}, {Place(q + 2, u, a.after, w, Spent(g, 1))}, h, W)
        BY <4>2, <4>6, LeadsOn
      <4>8. o + 1 = l + e + 1
        BY <2>15 DEF o
      <4> HIDE DEF e
      <4> QED
        BY <4>1, <4>7, <4>8
    <3> QED
      <4>1. \A w \in Seq(Int), s \in Books :
               OnTrack(w, W) => Leads(C, {Place(l + Len(a.code.code) + 1, u, a.after, w, s)},
                                      {Place(q + 2, u, a.after, w, Spent(s, 17))}, h, W)
        BY <3>2
      <4>2. 17 \in Int
        OBVIOUS
      <4> QED
        BY <1>1, <2>8, <2>10, <4>1, <4>2, ThroughBranch, Zenon
  <2>12. Behind(x, k) = (IF a.halts THEN 0 ELSE q + 2) /\ u \o x.items = u
    <3>1. k + Len(x.code.code) + 1 = q + 2
      <4> DEFINE g == k + Len(x.code.code)
      <4>1. g = q + 1
        BY <2>4
      <4> HIDE DEF g
      <4>2. g + 1 = q + 2
        BY <2>5, <4>1
      <4> QED
        BY <4>2 DEF g
    <3> QED
      BY <1>1, <2>2, <3>1, NothingOnTop DEF Behind
  <2>13. Spent(t, a.cost + (IF a.halts THEN 0 ELSE 17)) = Spent(b, x.cost)
    <3> DEFINE z == a.cost + (IF a.halts THEN 0 ELSE 17)
               n == c.cost + 18
    <3>1. z \in Int /\ n \in Int
      BY <1>2, <1>3
    <3>2. t = Spent(b, n) /\ x.cost = n + z
      BY <1>1 DEF t
    <3> HIDE DEF z, n
    <3>3. Spent(t, z) = Spent(b, x.cost)
      BY <3>1, <3>2, SpentTwice
    <3> QED
      BY <3>3 DEF z
  <2> HIDE DEF e
  <2>14. Leads(C, {Place(k + 1, u, c.before, m, b)},
               {Place(IF a.halts THEN 0 ELSE q + 2, u, a.after, r \o a.runs,
                      Spent(t, a.cost + (IF a.halts THEN 0 ELSE 17)))}, h, W)
    BY <1>1, <2>7, <2>11, LeadsOn
  <2> QED
    BY <1>1, <2>3, <2>12, <2>13, <2>14
<1> QED
  BY <1>4, <1>5 DEF RunsThrough

\* Relative jumps: a condition and a jump over n bytes if it is not zero.
LEMMA BranchIs ==
  ASSUME NEW n \in Int, NEW c \in Codes, Balance(c) = 1
  PROVE  LET j == Call(Data("RJUMPI", n), <<c>>)
         IN  /\ j \in Codes /\ Len(j.code) = Len(c.code) + 1 /\ Balance(j) = 0
             /\ Part(c, j, 0, 0) /\ Part(Data("RJUMPI", n), j, Len(c.code), 1) /\ Length(j) = Length(c) + 3
<1> DEFINE j == Call(Data("RJUMPI", n), <<c>>)
           o == Data("RJUMPI", n)
<1>1. o \in Codes /\ Len(o.code) = 1 /\ Balance(o) = -1 /\ Length(o) = 3
  BY OpsAre
<1>2. Len(c.code) \in Nat /\ Length(c) \in Nat
  BY CodeIs
<1>3. /\ j \in Codes /\ Len(j.code) = Len(c.code) + Len(o.code) /\ Length(j) = Length(c) + Length(o)
      /\ Balance(j) = Balance(c) + Balance(o)
      /\ Part(c, j, 0, 0) /\ Part(o, j, Len(c.code), Balance(c))
  BY <1>1, CallOne
<1> HIDE DEF j, o
<1>4. /\ j \in Codes /\ Len(j.code) = Len(c.code) + 1 /\ Balance(j) = 0
      /\ Part(c, j, 0, 0) /\ Part(o, j, Len(c.code), 1) /\ Length(j) = Length(c) + 3
  BY <1>1, <1>2, <1>3
<1> QED
  BY <1>4 DEF j, o

\* A condition before RJUMPI decides where the run goes on.
LEMMA BranchGoes ==
  ASSUME NEW c, RunsThrough(c), Balance(c.code) = 1, ~c.halts, ~c.open, NEW n \in Int,
         NEW C, NEW k, NEW u, NEW m, NEW h, NEW W, NEW b \in Books,
         Enters(Call(Data("RJUMPI", n), <<c.code>>), C, k, u, m, h, W), OnTrack(m \o c.runs, W), NEW q,
         c.items[1] # 0 => Lands(C, q, Offset(C, k + Len(c.code.code) + 2) + n)
  PROVE  Leads(C, {Place(k + 1, u, c.before, m, b)},
               {Place(IF c.items[1] # 0 THEN q ELSE k + Len(c.code.code) + 2, u, c.after, m \o c.runs,
                      Spent(b, c.cost + 4))}, h, W)
<1> DEFINE j == Call(Data("RJUMPI", n), <<c.code>>)
           o == Data("RJUMPI", n)
           v == c.items[1]
           r == m \o c.runs
           t == Spent(b, c.cost)
           l == k + Len(c.code.code)
<1>1. c \in Pieces /\ Len(c.items) = 1 /\ c.code \in Codes /\ c.runs \in Seq(Int) /\ c.cost \in Int
      /\ Len(c.code.code) \in Nat /\ c.items \in Seq(Int)
  <2>1. c \in Pieces /\ Len(c.items) = Balance(c.code)
    BY DEF RunsThrough
  <2> QED
    BY <2>1, PieceIs
<1>2. c.items = <<v>> /\ v \in Int
  BY <1>1
<1>3. j \in Codes /\ Part(c.code, j, 0, 0) /\ Part(o, j, Len(c.code.code), 1)
  BY <1>1, BranchIs
<1>4. k \in Nat /\ u \in Seq(Int) /\ m \in Seq(Int)
  BY <1>3, EntersIs
<1>5. Enters(c.code, C, k, u, m, h, W)
  <2>1. Enters(c.code, C, k + 0, u, m, h, W) /\ k + 0 = k
    BY <1>3, <1>4, EntersTop
  <2> QED
    BY <2>1
<1>6. r \in Seq(Int) /\ Enters(j, C, k, u, r, h, W)
  <2>1. r \in Seq(Int)
    BY <1>1, <1>4, OnTop
  <2> QED
    BY <2>1, EntersWith
<1>7. Comes(c, C, k, u, m, h, W) /\ Behind(c, k) = l + 1
  BY <1>5 DEF Comes, Behind
<1>8. Leads(C, {Place(k + 1, u, c.before, m, b)}, {Place(l + 1, u \o <<v>>, c.after, r, t)}, h, W)
  BY <1>2, <1>7, Through
<1>9. t \in Books /\ Spent(t, 4) = Spent(b, c.cost + 4)
  BY <1>1, SpentTwice
<1>10. l \in Nat /\ k + Len(c.code.code) + 2 = l + 2 /\ (l + 1) + 1 = l + 2
  BY <1>1, <1>4
<1> HIDE DEF j, r, t
<1>11. Enters(o, C, l, u \o <<v>>, r, h, W)
  BY <1>2, <1>3, <1>6, EntersTop
<1>12. v # 0 => Lands(C, q, Offset(C, l + 1) + 3 + n)
  <2>1. o \in Codes /\ Len(o.code) = 1 /\ Length(o) = 3
    BY OpsAre
  <2> HIDE DEF o, l
  <2>2. Offset(C, l + 1 + 1) = Offset(C, l + 1) + 3 /\ Offset(C, l + 1) \in Nat
    <3>1. /\ Offset(C, l + Len(o.code) + 1) = Offset(C, l + 1) + Length(o)
          /\ Offset(C, l + 1) \in Nat
      BY <1>11, <2>1, EntersIs
    <3> QED
      BY <2>1, <3>1
  <2>3. Offset(C, l + 2) = Offset(C, l + 1) + 3
    BY <1>10, <2>2
  <2> QED
    BY <1>10, <2>3
<1>13. k + Len(c.code.code) + 2 = l + 2
  BY <1>10
<1> HIDE DEF v, l
<1>14. Leads(C, {Place(l + 1, u \o <<v>>, c.after, r, t)},
             {Place(IF v # 0 THEN q ELSE l + 2, u, c.after, r, Spent(t, 4))}, h, W)
  <2>1. CASE v # 0
    BY <1>2, <1>4, <1>9, <1>11, <1>12, <2>1, RjumpiGoes
  <2>2. CASE v = 0
    BY <1>2, <1>4, <1>9, <1>11, <2>2, RjumpiStays
  <2> QED
    BY <2>1, <2>2
<1>15. Leads(C, {Place(k + 1, u, c.before, m, b)},
            {Place(IF v # 0 THEN q ELSE l + 2, u, c.after, r, Spent(b, c.cost + 4))}, h, W)
  BY <1>8, <1>9, <1>14, LeadsOn
<1> QED
  BY <1>13, <1>15 DEF r, v

\* The parts of a conditional with relative jumps, and where they stand.
LEMMA EofIs ==
  ASSUME NEW c \in Codes, Balance(c) = 1, NEW y \in Codes, Balance(y) = 0, NEW n \in Codes, Balance(n) = 0
  PROVE  LET over == Data("RJUMP", Length(y))
             no == IF n.terminating THEN n ELSE Concat(n, over)
             asks == Call(Data("RJUMPI", Length(no)), <<c>>)
             j == ConditionalEof(c, y, n)
             A == Len(c.code) + 1
             N == Len(n.code) + (IF n.terminating THEN 0 ELSE 1)
         IN  /\ j \in Codes /\ Len(j.code) = A + N + Len(y.code) /\ Balance(j) = 0
             /\ Length(no) \in Int /\ Length(y) \in Int
             /\ Part(asks, j, 0, 0) /\ Part(no, j, A, 0) /\ Part(y, j, A + N, 0)
             /\ Part(n, j, A, 0) /\ (~n.terminating => Part(over, j, A + Len(n.code), 0))
             /\ Len(no.code) = N
<1> DEFINE over == Data("RJUMP", Length(y))
           no == IF n.terminating THEN n ELSE Concat(n, over)
           asks == Call(Data("RJUMPI", Length(no)), <<c>>)
           j == ConditionalEof(c, y, n)
           A == Len(c.code) + 1
           N == Len(n.code) + (IF n.terminating THEN 0 ELSE 1)
<1>1. Length(y) \in Int /\ Len(c.code) \in Nat /\ Len(n.code) \in Nat /\ Len(y.code) \in Nat
  BY CodeIs
<1>2. over \in Codes /\ Len(over.code) = 1 /\ Balance(over) = 0
  BY <1>1, OpsAre
<1>3. j = Join(<<asks, no, y>>)
  BY DEF ConditionalEof
<1> HIDE DEF over, j
<1>4. /\ no \in Codes /\ Len(no.code) = N /\ Balance(no) = 0
      /\ Part(n, no, 0, 0) /\ (~n.terminating => Part(over, no, Len(n.code), 0))
  <2>1. CASE n.terminating
    <3>1. Part(n, n, 0, 0)
      BY PartSelf
    <3> QED
      BY <1>1, <2>1, <3>1
  <2>2. CASE ~n.terminating
    <3>1. /\ Concat(n, over) \in Codes /\ Len(Concat(n, over).code) = Len(n.code) + Len(over.code)
          /\ Balance(Concat(n, over)) = Balance(n) + Balance(over)
          /\ Part(n, Concat(n, over), 0, 0) /\ Part(over, Concat(n, over), Len(n.code), Balance(n))
      BY <1>2, PartsOfSum
    <3> QED
      BY <1>1, <1>2, <2>2, <3>1
  <2> QED
    BY <2>1, <2>2
<1> HIDE DEF no
<1>5. Length(no) \in Int
  BY <1>4, CodeIs
<1>6. asks \in Codes /\ Len(asks.code) = A /\ Balance(asks) = 0
  BY <1>5, BranchIs, Zenon
<1> HIDE DEF asks
<1>7. /\ j \in Codes /\ Len(j.code) = A + N + Len(y.code) /\ Balance(j) = 0
      /\ Part(asks, j, 0, 0) /\ Part(no, j, A, 0) /\ Part(y, j, A + N, 0)
  <2>1. LET t == Join(<<asks, no, y>>)
        IN  /\ t \in Codes /\ Len(t.code) = Len(asks.code) + Len(no.code) + Len(y.code)
            /\ Length(t) = Length(asks) + Length(no) + Length(y)
            /\ Balance(t) = Balance(asks) + Balance(no) + Balance(y)
            /\ t.terminating = y.terminating
            /\ Part(asks, t, 0, 0) /\ Part(no, t, Len(asks.code), Balance(asks))
            /\ Part(y, t, Len(asks.code) + Len(no.code), Balance(asks) + Balance(no))
    BY <1>4, <1>6, ThreeParts, Zenon
  <2>2. /\ j \in Codes /\ Len(j.code) = Len(asks.code) + Len(no.code) + Len(y.code)
        /\ Balance(j) = Balance(asks) + Balance(no) + Balance(y)
        /\ Part(asks, j, 0, 0) /\ Part(no, j, Len(asks.code), Balance(asks))
        /\ Part(y, j, Len(asks.code) + Len(no.code), Balance(asks) + Balance(no))
    BY <1>3, <2>1, Zenon
  <2> HIDE DEF A, N
  <2> QED
    BY <1>4, <1>6, <2>2
<1>8. A \in Nat
  BY <1>1
<1>9. Part(n, j, A, 0) /\ (~n.terminating => Part(over, j, A + Len(n.code), 0))
  <2>1. Part(n, j, A + 0, 0 + 0) /\ (~n.terminating => Part(over, j, A + Len(n.code), 0 + 0))
    BY <1>4, <1>7, PartOfPart
  <2> HIDE DEF A
  <2>2. A + 0 = A /\ 0 + 0 = 0
    BY <1>8
  <2> QED
    BY <2>1, <2>2
<1> QED
  BY <1>1, <1>4, <1>5, <1>6, <1>7, <1>9 DEF over, no, asks, j

\* Where the parts of an EOF conditional stand, and where its jumps land.
LEMMA EofThere ==
  ASSUME NEW c \in Codes, Balance(c) = 1, NEW y \in Codes, Balance(y) = 0, NEW n \in Codes, Balance(n) = 0,
         NEW C, NEW k, NEW u, NEW m, NEW h, NEW W, Enters(ConditionalEof(c, y, n), C, k, u, m, h, W)
  PROVE  \E i, l, p, q : /\ EofAt(c, y, n, C, k, u, h, W, i, l, p, q)
                         /\ k + Len(ConditionalEof(c, y, n).code) = q
<1> DEFINE over == Data("RJUMP", Length(y))
           no == IF n.terminating THEN n ELSE Concat(n, over)
           asks == Call(Data("RJUMPI", Length(no)), <<c>>)
           x == ConditionalEof(c, y, n)
           A == Len(c.code) + 1
           N == Len(n.code) + (IF n.terminating THEN 0 ELSE 1)
<1>1. /\ x \in Codes /\ Len(x.code) = A + N + Len(y.code)
      /\ Length(no) \in Int /\ Length(y) \in Int
      /\ Part(asks, x, 0, 0) /\ Part(no, x, A, 0) /\ Part(y, x, A + N, 0)
      /\ Part(n, x, A, 0) /\ (~n.terminating => Part(over, x, A + Len(n.code), 0))
      /\ Len(no.code) = N
  BY EofIs, Zenon
<1>2. Enters(x, C, k, u, m, h, W)
  OBVIOUS
<1>3. Len(c.code) \in Nat /\ Len(n.code) \in Nat /\ Len(y.code) \in Nat
  BY CodeIs
<1>4. no \in Codes
  BY <1>1 DEF Part
<1> HIDE DEF x, asks, no, over
<1>6. k \in Nat /\ u \in Seq(Int) /\ m \in Seq(Int) /\ OnTrack(m, W)
  BY <1>1, <1>2, EntersIs
<1> DEFINE l == k + Len(c.code) + 1
           p == l + Len(n.code) + (IF n.terminating THEN 0 ELSE 1)
           q == p + Len(y.code)
<1>7. /\ l \in Nat /\ p \in Nat /\ q \in Nat /\ k + 0 = k /\ k + A = l /\ k + (A + Len(n.code)) = l + Len(n.code)
      /\ k + (A + N) = p /\ k + (A + N + Len(y.code)) = q /\ l + N + 1 = p + 1
  <2> DEFINE d == Len(c.code)
             e == Len(n.code)
             g == Len(y.code)
             z == IF n.terminating THEN 0 ELSE 1
  <2>1. d \in Nat /\ e \in Nat /\ g \in Nat /\ z \in Nat
    BY <1>3
  <2>2. A = d + 1 /\ N = e + z /\ l = k + d + 1 /\ p = l + e + z /\ q = p + g
    OBVIOUS
  <2> HIDE DEF d, e, g, z, A, N, l, p, q
  <2>3. /\ l \in Nat /\ p \in Nat /\ q \in Nat /\ k + 0 = k /\ k + A = l /\ k + (A + e) = l + e
        /\ k + (A + N) = p /\ k + (A + N + g) = q /\ l + N + 1 = p + 1
    BY <1>6, <2>1, <2>2
  <2> QED
    BY <2>3 DEF e, g
<1> HIDE DEF l, p, q
<1>8. ASSUME NEW r \in Seq(Int), OnTrack(r, W)
      PROVE  /\ Enters(asks, C, k, u, r, h, W) /\ Enters(no, C, l, u, r, h, W)
             /\ Enters(n, C, l, u, r, h, W) /\ Enters(y, C, p, u, r, h, W)
             /\ ~n.terminating => Enters(over, C, l + Len(n.code), u, r, h, W)
  <2>1. Enters(x, C, k, u, r, h, W)
    BY <1>2, <1>8, EntersWith
  <2> HIDE DEF A, N
  <2>2. /\ Enters(asks, C, k + 0, u, r, h, W) /\ Enters(no, C, k + A, u, r, h, W)
        /\ Enters(n, C, k + A, u, r, h, W) /\ Enters(y, C, k + (A + N), u, r, h, W)
        /\ ~n.terminating => Enters(over, C, k + (A + Len(n.code)), u, r, h, W)
    BY <1>1, <2>1, EntersTop
  <2> QED
    BY <1>7, <2>2
<1>10. /\ Offset(C, p + 1) = Offset(C, l + 1) + Length(no)
       /\ Offset(C, q + 1) = Offset(C, p + 1) + Length(y)
  <2> HIDE DEF A, N
  <2>1. Offset(C, l + Len(no.code) + 1) = Offset(C, l + 1) + Length(no)
    BY <1>4, <1>6, <1>8, EntersIs
  <2>2. Offset(C, p + Len(y.code) + 1) = Offset(C, p + 1) + Length(y)
    BY <1>6, <1>8, EntersIs
  <2>3. p + Len(y.code) = q
    BY DEF q
  <2> QED
    BY <1>1, <1>7, <2>1, <2>2, <2>3
<1> DEFINE i == Length(no)
<1>12. asks = Call(Data("RJUMPI", i), <<c>>) /\ over = Data("RJUMP", Length(y))
  BY DEF asks, over
<1>14. EofAt(c, y, n, C, k, u, h, W, i, l, p, q)
  <2>1. /\ l = k + Len(c.code) + 1 /\ p = l + Len(n.code) + (IF n.terminating THEN 0 ELSE 1)
        /\ q = p + Len(y.code)
    BY DEF l, p, q
  <2> QED
    BY <1>1, <1>7, <1>8, <1>10, <1>12, <2>1 DEF EofAt
<1>15. k + Len(x.code) = q
  BY <1>1, <1>7
<1> QED
  BY <1>14, <1>15 DEF x

\* An EOF conditional whose condition is true runs if_true.
LEMMA ThenEofRuns ==
  ASSUME NEW x \in Pieces, NEW c, NEW a, NEW d, RunsThrough(c), RunsThrough(a), IsThenEof(x, c, a, d)
  PROVE  RunsThrough(x)
<1>1. /\ Balance(c.code) = 1 /\ ~c.halts /\ ~c.open /\ Balance(a.code) = 0 /\ a.before = c.after
      /\ x.before = c.before /\ x.after = a.after /\ x.runs = c.runs \o a.runs /\ x.items = <<>>
      /\ x.halts = a.halts /\ c.items[1] # 0 /\ d \in Codes /\ Balance(d) = 0 /\ x.open
      /\ x.code = ConditionalEof(c.code, a.code, d)
      /\ x.cost = c.cost + 4 + a.cost
  BY DEF IsThenEof, Chooses
<1>2. /\ c \in Pieces /\ c.code \in Codes /\ c.runs \in Seq(Int) /\ c.cost \in Int
      /\ Len(c.code.code) \in Nat
  BY PieceIs DEF RunsThrough
<1>3. /\ a.code \in Codes /\ a.runs \in Seq(Int) /\ a.cost \in Int /\ a.halts \in BOOLEAN
      /\ Len(a.code.code) \in Nat /\ a.items = <<>>
  BY <1>1, NoItems
<1>4. x.code \in Codes /\ Balance(x.code) = 0 /\ Len(x.items) = 0
  <2>1. /\ ConditionalEof(c.code, a.code, d) \in Codes
        /\ Balance(ConditionalEof(c.code, a.code, d)) = 0
    BY <1>1, <1>2, <1>3, EofIs, Zenon
  <2> QED
    BY <1>1, <2>1
<1>5. ASSUME NEW C, NEW k, NEW u, NEW m, NEW h, NEW W, NEW b \in Books, Comes(x, C, k, u, m, h, W)
      PROVE  Leads(C, {Place(k + 1, u, x.before, m, b)},
               {Place(Behind(x, k), u \o x.items, x.after, m \o x.runs, Spent(b, x.cost))}, h, W)
  <2> DEFINE r == m \o c.runs
             t == Spent(b, c.cost + 4)
             n == Len(C)
             e == Len(a.code.code)
  <2>1. /\ Enters(x.code, C, k, u, m, h, W) /\ OnTrack(m \o x.runs, W) /\ k + Len(x.code.code) < n
    BY <1>1, <1>5 DEF Comes
  <2>2. k \in Nat /\ u \in Seq(Int) /\ m \in Seq(Int) /\ OnTrack(m, W) /\ C \in Seq(Instruction)
    BY <1>4, <2>1, EntersIs
  <2>3. r \in Seq(Int) /\ m \o x.runs = r \o a.runs /\ OnTrack(r \o a.runs, W) /\ OnTrack(r, W)
    <3>0. m \in Seq(Int) /\ c.runs \in Seq(Int) /\ a.runs \in Seq(Int)
      BY <1>2, <1>3, <2>2
    <3>1. m \o (c.runs \o a.runs) = (m \o c.runs) \o a.runs
      BY <3>0, Together, Zenon
    <3>2. r \in Seq(Int)
      BY <1>2, <2>2, OnTop
    <3> QED
      BY <1>1, <1>3, <2>1, <3>1, <3>2, OnTrackBefore
  <2>4. PICK i, l, p, q : /\ EofAt(c.code, a.code, d, C, k, u, h, W, i, l, p, q)
                          /\ k + Len(x.code.code) = q
    <3> DEFINE f == c.code
               g == a.code
    <3>1. /\ f \in Codes /\ Balance(f) = 1 /\ g \in Codes /\ d \in Codes /\ Balance(g) = 0 /\ Balance(d) = 0
          /\ x.code = ConditionalEof(f, g, d) /\ Enters(ConditionalEof(f, g, d), C, k, u, m, h, W)
      BY <1>1, <1>2, <1>3, <2>1
    <3> HIDE DEF f, g
    <3>2. \E i, l, p, q : /\ EofAt(f, g, d, C, k, u, h, W, i, l, p, q)
                          /\ k + Len(ConditionalEof(f, g, d).code) = q
      BY <3>1, EofThere
    <3> QED
      BY <3>1, <3>2 DEF f, g
  <2>5. /\ i \in Int /\ l \in Nat /\ p \in Nat /\ q \in Nat /\ q = p + e /\ l = k + Len(c.code.code) + 1
        /\ \A w \in Seq(Int) : OnTrack(w, W) =>
              /\ Enters(Call(Data("RJUMPI", i), <<c.code>>), C, k, u, w, h, W)
              /\ Enters(a.code, C, p, u, w, h, W)
        /\ Offset(C, p + 1) = Offset(C, l + 1) + i
    BY <2>4 DEF EofAt
  <2>6. e \in Nat /\ n \in Nat /\ p \in Nat /\ q = p + e /\ q < n /\ DOMAIN C = 1..n
    BY <1>3, <2>1, <2>2, <2>4, <2>5
  <2>16. k + Len(c.code.code) + 2 = l + 1
    <3> DEFINE g == Len(c.code.code)
    <3>1. g \in Nat /\ l = k + g + 1
      BY <1>2, <2>5
    <3> HIDE DEF g
    <3>2. k + g + 2 = l + 1
      BY <2>2, <3>1
    <3> QED
      BY <3>2 DEF g
  <2> HIDE DEF e, n
  <2>7. p + 1 \in DOMAIN C /\ p + e < n /\ (p + e) + 1 = q + 1
    BY <2>6
  <2>8. Leads(C, {Place(k + 1, u, c.before, m, b)}, {Place(p + 1, u, c.after, r, t)}, h, W)
    <3> DEFINE v == c.items[1]
    <3>1. v # 0 /\ (v # 0 => Lands(C, p + 1, Offset(C, k + Len(c.code.code) + 2) + i))
      BY <1>1, <2>5, <2>7, <2>16 DEF Lands
    <3>2. Enters(Call(Data("RJUMPI", i), <<c.code>>), C, k, u, m, h, W)
      BY <2>2, <2>5
    <3>3. Leads(C, {Place(k + 1, u, c.before, m, b)},
                {Place(IF v # 0 THEN p + 1 ELSE k + Len(c.code.code) + 2, u, c.after, r, t)}, h, W)
      BY <1>1, <2>3, <2>5, <3>1, <3>2, BranchGoes
    <3> QED
      BY <3>1, <3>3
  <2>9. t \in Books /\ Spent(t, a.cost) = Spent(b, x.cost)
    <3> DEFINE z == c.cost + 4
               w == a.cost
    <3>1. z \in Int /\ x.cost = z + w /\ w \in Int
      BY <1>1, <1>2, <1>3
    <3> HIDE DEF z, w
    <3>2. Spent(b, z) \in Books /\ Spent(Spent(b, z), w) = Spent(b, x.cost)
      BY <3>1, SpentTwice
    <3> QED
      BY <3>2 DEF z, w
  <2> HIDE DEF r, t
  <2>10. Comes(a, C, p, u, r, h, W)
    BY <2>3, <2>5, <2>7 DEF Comes, e, n
  <2>11. Leads(C, {Place(p + 1, u, a.before, r, t)},
               {Place(Behind(a, p), u \o <<>>, a.after, r \o a.runs, Spent(t, a.cost))}, h, W)
    BY <1>3, <2>9, <2>10, Through
  <2>12. Behind(x, k) = Behind(a, p)
    <3>1. k + Len(x.code.code) + 1 = q + 1 /\ p + Len(a.code.code) + 1 = q + 1
      BY <2>4, <2>7 DEF e
    <3> QED
      BY <1>1, <3>1 DEF Behind
  <2>13. Leads(C, {Place(k + 1, u, c.before, m, b)},
               {Place(Behind(a, p), u \o <<>>, a.after, r \o a.runs, Spent(t, a.cost))}, h, W)
    BY <1>1, <2>8, <2>11, LeadsOn
  <2> QED
    BY <1>1, <2>3, <2>9, <2>12, <2>13
<1> QED
  BY <1>4, <1>5 DEF RunsThrough

\* One whose condition is false runs if_false.
LEMMA ElseEofRuns ==
  ASSUME NEW x \in Pieces, NEW c, NEW a, NEW d, RunsThrough(c), RunsThrough(a), IsElseEof(x, c, a, d)
  PROVE  RunsThrough(x)
<1>1. /\ Balance(c.code) = 1 /\ ~c.halts /\ ~c.open /\ Balance(a.code) = 0 /\ a.before = c.after
      /\ x.before = c.before /\ x.after = a.after /\ x.runs = c.runs \o a.runs /\ x.items = <<>>
      /\ x.halts = a.halts /\ c.items[1] = 0 /\ d \in Codes /\ Balance(d) = 0 /\ x.open
      /\ (a.code.terminating => a.halts)
      /\ x.code = ConditionalEof(c.code, d, a.code)
      /\ x.cost = c.cost + 4 + (a.cost + (IF a.halts THEN 0 ELSE 2))
  BY DEF IsElseEof, Chooses
<1>2. /\ c \in Pieces /\ c.code \in Codes /\ c.runs \in Seq(Int) /\ c.cost \in Int
      /\ Len(c.code.code) \in Nat
  BY PieceIs DEF RunsThrough
<1>3. /\ a.code \in Codes /\ a.runs \in Seq(Int) /\ a.cost \in Int /\ a.halts \in BOOLEAN
      /\ Len(a.code.code) \in Nat /\ a.items = <<>> /\ Len(d.code) \in Nat
  BY <1>1, NoItems, CodeIs
<1>4. x.code \in Codes /\ Balance(x.code) = 0 /\ Len(x.items) = 0
  <2>1. /\ ConditionalEof(c.code, d, a.code) \in Codes
        /\ Balance(ConditionalEof(c.code, d, a.code)) = 0
    BY <1>1, <1>2, <1>3, EofIs, Zenon
  <2> QED
    BY <1>1, <2>1
<1>5. ASSUME NEW C, NEW k, NEW u, NEW m, NEW h, NEW W, NEW b \in Books, Comes(x, C, k, u, m, h, W)
      PROVE  Leads(C, {Place(k + 1, u, x.before, m, b)},
               {Place(Behind(x, k), u \o x.items, x.after, m \o x.runs, Spent(b, x.cost))}, h, W)
  <2> DEFINE r == m \o c.runs
             t == Spent(b, c.cost + 4)
             n == Len(C)
             e == Len(a.code.code)
             j == Length(d)
  <2>1. /\ Enters(x.code, C, k, u, m, h, W) /\ OnTrack(m \o x.runs, W) /\ k + Len(x.code.code) < n
    BY <1>1, <1>5 DEF Comes
  <2>2. k \in Nat /\ u \in Seq(Int) /\ m \in Seq(Int) /\ OnTrack(m, W) /\ C \in Seq(Instruction)
    BY <1>4, <2>1, EntersIs
  <2>3. r \in Seq(Int) /\ m \o x.runs = r \o a.runs /\ OnTrack(r \o a.runs, W) /\ OnTrack(r, W)
    <3>0. m \in Seq(Int) /\ c.runs \in Seq(Int) /\ a.runs \in Seq(Int)
      BY <1>2, <1>3, <2>2
    <3>1. m \o (c.runs \o a.runs) = (m \o c.runs) \o a.runs
      BY <3>0, Together, Zenon
    <3>2. r \in Seq(Int)
      BY <1>2, <2>2, OnTop
    <3> QED
      BY <1>1, <1>3, <2>1, <3>1, <3>2, OnTrackBefore
  <2>4. PICK i, l, p, q : /\ EofAt(c.code, d, a.code, C, k, u, h, W, i, l, p, q)
                          /\ k + Len(x.code.code) = q
    <3> DEFINE f == c.code
               g == a.code
    <3>1. /\ f \in Codes /\ Balance(f) = 1 /\ g \in Codes /\ d \in Codes /\ Balance(g) = 0 /\ Balance(d) = 0
          /\ x.code = ConditionalEof(f, d, g) /\ Enters(ConditionalEof(f, d, g), C, k, u, m, h, W)
      BY <1>1, <1>2, <1>3, <2>1
    <3> HIDE DEF f, g
    <3>2. \E i, l, p, q : /\ EofAt(f, d, g, C, k, u, h, W, i, l, p, q)
                          /\ k + Len(ConditionalEof(f, d, g).code) = q
      BY <3>1, EofThere
    <3> QED
      BY <3>1, <3>2 DEF f, g
  <2>5. /\ i \in Int /\ l \in Nat /\ p \in Nat /\ q \in Nat /\ q = p + Len(d.code) /\ l = k + Len(c.code.code) + 1
        /\ \A w \in Seq(Int) : OnTrack(w, W) =>
              /\ Enters(Call(Data("RJUMPI", i), <<c.code>>), C, k, u, w, h, W)
              /\ Enters(a.code, C, l, u, w, h, W)
              /\ ~a.code.terminating => Enters(Data("RJUMP", j), C, l + e, u, w, h, W)
        /\ j \in Int /\ p = l + e + (IF a.code.terminating THEN 0 ELSE 1)
        /\ Offset(C, q + 1) = Offset(C, p + 1) + j
    BY <2>4 DEF EofAt
  <2>6. e \in Nat /\ n \in Nat /\ q < n /\ DOMAIN C = 1..n /\ p <= q
    <3> DEFINE g == Len(d.code)
    <3>1. g \in Nat /\ q = p + g /\ q = k + Len(x.code.code)
      BY <1>3, <2>4, <2>5
    <3>2. n \in Nat /\ q < n
      BY <2>1, <2>2, <3>1
    <3> HIDE DEF g, n
    <3>3. p <= q
      BY <2>5, <3>1
    <3> QED
      BY <1>3, <2>2, <3>2, <3>3 DEF n
  <2>16. k + Len(c.code.code) + 2 = l + 1
    <3> DEFINE g == Len(c.code.code)
    <3>1. g \in Nat /\ l = k + g + 1
      BY <1>2, <2>5
    <3> HIDE DEF g
    <3>2. k + g + 2 = l + 1
      BY <2>2, <3>1
    <3> QED
      BY <3>2 DEF g
  <2>17. /\ l + e <= p /\ (~a.code.terminating => l + e + 1 = p)
    <3> HIDE DEF e
    <3>1. CASE a.code.terminating
      BY <2>5, <2>6, <3>1
    <3>2. CASE ~a.code.terminating
      BY <2>5, <2>6, <3>2
    <3> QED
      BY <3>1, <3>2
  <2> HIDE DEF e, n, j
  <2>7. q + 1 \in DOMAIN C /\ l + e < n /\ l + e \in Nat /\ (l + e) + 1 = l + e + 1
    <3>1. l \in Nat /\ p \in Nat /\ q \in Nat
      BY <2>5
    <3>2. q + 1 \in 1..n /\ l + e < n /\ l + e \in Nat /\ (l + e) + 1 = l + e + 1
      BY <2>6, <2>17, <3>1
    <3> QED
      BY <2>6, <3>2
  <2>8. Leads(C, {Place(k + 1, u, c.before, m, b)}, {Place(l + 1, u, c.after, r, t)}, h, W)
    <3> DEFINE v == c.items[1]
    <3>1. v = 0 /\ (v # 0 => Lands(C, 0, Offset(C, k + Len(c.code.code) + 2) + i))
      BY <1>1
    <3>2. Enters(Call(Data("RJUMPI", i), <<c.code>>), C, k, u, m, h, W)
      BY <2>2, <2>5
    <3>3. Leads(C, {Place(k + 1, u, c.before, m, b)},
                {Place(IF v # 0 THEN 0 ELSE k + Len(c.code.code) + 2, u, c.after, r, t)}, h, W)
      BY <1>1, <2>3, <2>5, <3>1, <3>2, BranchGoes
    <3> QED
      BY <2>16, <3>1, <3>3
  <2>9. t \in Books /\ Spent(t, a.cost + (IF a.halts THEN 0 ELSE 2)) = Spent(b, x.cost)
    <3> DEFINE z == c.cost + 4
               w == a.cost + (IF a.halts THEN 0 ELSE 2)
    <3>1. z \in Int /\ x.cost = z + w /\ w \in Int
      BY <1>1, <1>2, <1>3
    <3> HIDE DEF z, w
    <3>2. Spent(b, z) \in Books /\ Spent(Spent(b, z), w) = Spent(b, x.cost)
      BY <3>1, SpentTwice
    <3> QED
      BY <3>2 DEF z, w
  <2> HIDE DEF r, t
  <2>10. Comes(a, C, l, u, r, h, W)
    BY <2>3, <2>5, <2>7 DEF Comes, e, n
  <2>11. Leads(C, {Place(l + 1, u, a.before, r, t)},
               {Place(IF a.halts THEN 0 ELSE q + 1, u, a.after, r \o a.runs,
                      Spent(t, a.cost + (IF a.halts THEN 0 ELSE 2)))}, h, W)
    <3>1. ASSUME ~a.halts, NEW w \in Seq(Int), NEW s \in Books, OnTrack(w, W)
          PROVE  Leads(C, {Place(l + e + 1, u, a.after, w, s)},
                       {Place(q + 1, u, a.after, w, Spent(s, 2))}, h, W)
      <4> DEFINE o == l + e
      <4>1. ~a.code.terminating
        BY <1>1, <3>1
      <4>2. Enters(Data("RJUMP", j), C, o, u, w, h, W) /\ u \in Seq(Int) /\ j \in Int
        BY <2>2, <2>5, <3>1, <4>1
      <4>3. Offset(C, p + 1) = Offset(C, o + 1) + 3
        <5>1. Data("RJUMP", j) \in Codes /\ Len(Data("RJUMP", j).code) = 1 /\ Length(Data("RJUMP", j)) = 3
          BY <4>2, OpsAre
        <5> DEFINE f == Data("RJUMP", j)
        <5> HIDE DEF o, f
        <5>2. Offset(C, o + Len(f.code) + 1) = Offset(C, o + 1) + Length(f)
          BY <4>2, <5>1, EntersIs DEF f
        <5>3. o + 1 = p
          BY <2>17, <4>1 DEF o
        <5> QED
          BY <5>1, <5>2, <5>3 DEF f
      <4>4. Lands(C, q + 1, Offset(C, o + 1) + 3 + j)
        BY <2>5, <2>7, <4>3 DEF Lands
      <4> HIDE DEF o
      <4>5. Leads(C, {Place(o + 1, u, a.after, w, s)}, {Place(q + 1, u, a.after, w, Spent(s, 2))}, h, W)
        BY <4>2, <4>4, RjumpGoes
      <4> QED
        BY <2>7, <4>5 DEF o
    <3>2. ~a.halts => \A w \in Seq(Int), s \in Books :
             OnTrack(w, W) => Leads(C, {Place(l + Len(a.code.code) + 1, u, a.after, w, s)},
                                    {Place(q + 1, u, a.after, w, Spent(s, 2))}, h, W)
      BY <3>1 DEF e
    <3>3. 2 \in Int
      OBVIOUS
    <3> QED
      BY <1>1, <2>9, <2>10, <3>2, <3>3, ThroughBranch, Zenon
  <2>12. Behind(x, k) = (IF a.halts THEN 0 ELSE q + 1) /\ u \o x.items = u
    <3>1. k + Len(x.code.code) + 1 = q + 1
      BY <2>4
    <3> QED
      BY <1>1, <2>2, <3>1, NothingOnTop DEF Behind
  <2>13. Leads(C, {Place(k + 1, u, c.before, m, b)},
               {Place(IF a.halts THEN 0 ELSE q + 1, u, a.after, r \o a.runs,
                      Spent(t, a.cost + (IF a.halts THEN 0 ELSE 2)))}, h, W)
    BY <1>1, <2>8, <2>11, LeadsOn
  <2> QED
    BY <1>1, <2>3, <2>9, <2>12, <2>13
<1> QED
  BY <1>4, <1>5 DEF RunsThrough

\* Loops: the parts of one, and where they stand.
LEMMA WhileIs ==
  ASSUME NEW b \in Codes, Balance(b) = 0, NEW c \in Codes, Balance(c) = 1
  PROVE  LET dest == Op("JUMPDEST")
             i == Length(b) + Length(c) + 6
             asks == Call(Op("JUMPI"), <<JumpBack(i), c>>)
             j == WhileTrue(b, c)
             l == 1 + Len(b.code)
         IN  /\ j \in Codes /\ Len(j.code) = l + Len(c.code) + 4 /\ Balance(j) = 0
             /\ Part(dest, j, 0, 0) /\ Part(b, j, 1, 0) /\ Part(asks, j, l, 0) /\ Part(c, j, l, 0)
             /\ i \in Int /\ Length(dest) = 1 /\ Len(dest.code) = 1
<1> DEFINE dest == Op("JUMPDEST")
           i == Length(b) + Length(c) + 6
           asks == Call(Op("JUMPI"), <<JumpBack(i), c>>)
           j == WhileTrue(b, c)
           l == 1 + Len(b.code)
<1>1. "JUMPDEST" \in Used \ {"RJUMP", "RJUMPI"}
  BY DEF Used
<1>2. dest \in Codes /\ Len(dest.code) = 1 /\ Balance(dest) = 0 /\ Length(dest) = 1
  BY <1>1, OpsAre
<1>3. Len(c.code) \in Nat /\ Len(b.code) \in Nat /\ Length(b) \in Nat /\ Length(c) \in Nat
  BY CodeIs
<1>4. j = Join(<<dest, b, asks>>)
  BY DEF WhileTrue
<1> HIDE DEF dest, j
<1>5. i \in Int
  BY <1>3
<1>6. asks \in Codes /\ Len(asks.code) = Len(c.code) + 4 /\ Balance(asks) = 0 /\ Part(c, asks, 0, 0)
  <2> HIDE DEF i
  <2>1. Aims(JumpBack(i), 5 - i)
    BY <1>5, BackAims
  <2> QED
    BY <2>1, AskIs, Zenon
<1> HIDE DEF asks
<1>7. /\ j \in Codes /\ Len(j.code) = l + Len(c.code) + 4 /\ Balance(j) = 0
      /\ Part(dest, j, 0, 0) /\ Part(b, j, 1, 0) /\ Part(asks, j, l, 0)
  <2>1. LET t == Join(<<dest, b, asks>>)
        IN  /\ t \in Codes /\ Len(t.code) = Len(dest.code) + Len(b.code) + Len(asks.code)
            /\ Length(t) = Length(dest) + Length(b) + Length(asks)
            /\ Balance(t) = Balance(dest) + Balance(b) + Balance(asks)
            /\ t.terminating = asks.terminating
            /\ Part(dest, t, 0, 0) /\ Part(b, t, Len(dest.code), Balance(dest))
            /\ Part(asks, t, Len(dest.code) + Len(b.code), Balance(dest) + Balance(b))
    BY <1>2, <1>6, ThreeParts, Zenon
  <2>2. /\ j \in Codes /\ Len(j.code) = Len(dest.code) + Len(b.code) + Len(asks.code)
        /\ Balance(j) = Balance(dest) + Balance(b) + Balance(asks)
        /\ Part(dest, j, 0, 0) /\ Part(b, j, Len(dest.code), Balance(dest))
        /\ Part(asks, j, Len(dest.code) + Len(b.code), Balance(dest) + Balance(b))
    BY <1>4, <2>1, Zenon
  <2>3. l \in Nat /\ l = Len(dest.code) + Len(b.code)
    BY <1>2, <1>3
  <2> HIDE DEF l
  <2>4. /\ j \in Codes /\ Len(j.code) = l + Len(asks.code) /\ Balance(j) = 0
        /\ Part(dest, j, 0, 0) /\ Part(b, j, 1, 0) /\ Part(asks, j, l, 0)
    BY <1>2, <1>6, <2>2, <2>3
  <2> DEFINE e == Len(c.code)
  <2>5. e \in Nat /\ Len(asks.code) = e + 4
    BY <1>3, <1>6
  <2> HIDE DEF e
  <2> DEFINE g == Len(asks.code)
             f == Len(j.code)
  <2>7. g = e + 4 /\ f = l + g
    BY <2>4, <2>5
  <2> HIDE DEF g, f
  <2>8. f = l + e + 4
    <3>1. l \in Nat /\ e \in Nat
      BY <2>3, <2>5
    <3> QED
      BY <2>7, <3>1
  <2>6. Len(j.code) = l + e + 4
    BY <2>8 DEF f
  <2> QED
    BY <2>4, <2>6 DEF e
<1>8. Part(c, j, l, 0)
  <2>1. Part(c, j, l + 0, 0 + 0)
    BY <1>6, <1>7, PartOfPart
  <2>2. l \in Nat
    BY <1>3
  <2> HIDE DEF l
  <2> QED
    BY <2>1, <2>2
<1> QED
  BY <1>2, <1>5, <1>7, <1>8 DEF dest, asks, j

\* Where the parts of a loop stand, and where its jump lands.
LEMMA WhileThere ==
  ASSUME NEW b \in Codes, Balance(b) = 0, NEW c \in Codes, Balance(c) = 1,
         NEW C, NEW k, NEW u, NEW m, NEW h, NEW W, Enters(WhileTrue(b, c), C, k, u, m, h, W)
  PROVE  \E i, l, q : WhileAt(b, c, C, k, u, h, W, i, l, q) /\ k + Len(WhileTrue(b, c).code) = q
<1> DEFINE dest == Op("JUMPDEST")
           i == Length(b) + Length(c) + 6
           asks == Call(Op("JUMPI"), <<JumpBack(i), c>>)
           x == WhileTrue(b, c)
           z == 1 + Len(b.code)
<1>1. /\ x \in Codes /\ Len(x.code) = z + Len(c.code) + 4
      /\ Part(dest, x, 0, 0) /\ Part(b, x, 1, 0) /\ Part(asks, x, z, 0) /\ Part(c, x, z, 0)
      /\ i \in Int /\ Length(dest) = 1 /\ Len(dest.code) = 1
  BY WhileIs, Zenon
<1>2. Enters(x, C, k, u, m, h, W)
  OBVIOUS
<1>3. /\ Len(b.code) \in Nat /\ Len(c.code) \in Nat /\ Length(b) \in Nat /\ Length(c) \in Nat
  BY CodeIs
<1>4. i = Length(b) + Length(c) + 6 /\ asks = Call(Op("JUMPI"), <<JumpBack(i), c>>)
  OBVIOUS
<1> HIDE DEF x, asks, dest, i
<1>6. k \in Nat /\ u \in Seq(Int) /\ m \in Seq(Int) /\ OnTrack(m, W) /\ C \in Seq(Instruction)
      /\ k + Len(x.code) <= Len(C)
  BY <1>1, <1>2, EntersIs
<1> DEFINE d == Len(b.code)
           e == Len(c.code)
           l == k + 1 + d
           q == l + e + 4
<1>7. /\ l \in Nat /\ q \in Nat /\ k + 0 = k /\ k + z = l /\ k + (z + e + 4) = q /\ (k + 1) + 1 = k + 2
      /\ (k + 1) + d + 1 = l + 1
  <2>1. d \in Nat /\ e \in Nat /\ z = 1 + d
    BY <1>3
  <2> HIDE DEF d, e, z
  <2> QED
    BY <1>6, <2>1
<1>15. k + Len(x.code) = q
  BY <1>1, <1>7
<1>16. q <= Len(C) /\ Len(C) \in Nat
  <2>1. Len(C) \in Nat
    BY <1>6
  <2> HIDE DEF q
  <2> QED
    BY <1>6, <1>15, <2>1
<1>17. l = k + 1 + Len(b.code) /\ q = l + Len(c.code) + 4
  OBVIOUS
<1> HIDE DEF l, q, z
<1>8. ASSUME NEW r \in Seq(Int), OnTrack(r, W)
      PROVE  /\ Enters(dest, C, k, u, r, h, W) /\ Enters(b, C, k + 1, u, r, h, W)
             /\ Enters(asks, C, l, u, r, h, W) /\ Enters(c, C, l, u, r, h, W)
  <2>1. Enters(x, C, k, u, r, h, W)
    BY <1>2, <1>8, EntersWith
  <2>2. /\ Enters(dest, C, k + 0, u, r, h, W) /\ Enters(b, C, k + 1, u, r, h, W)
        /\ Enters(asks, C, k + z, u, r, h, W) /\ Enters(c, C, k + z, u, r, h, W)
    BY <1>1, <2>1, EntersTop
  <2> QED
    BY <1>7, <2>2
<1>9. C[k + 1].op = "JUMPDEST" /\ k + 1 \in DOMAIN C
  BY <1>6, <1>8, DestThere DEF dest
<1> DEFINE o == Offset(C, k + 1)
           g == Length(b)
           w == Length(c)
<1>10. Offset(C, l + e + 1) = o + 1 + g + w /\ o \in Nat
  <2>1. Offset(C, k + 2) = o + 1 /\ o \in Nat
    <3>1. dest \in Codes
      BY <1>1 DEF Part
    <3>2. Offset(C, k + Len(dest.code) + 1) = Offset(C, k + 1) + Length(dest) /\ Offset(C, k + 1) \in Nat
      BY <1>6, <1>8, <3>1, EntersIs
    <3> QED
      BY <1>1, <1>7, <3>2
  <2>2. Offset(C, (k + 1) + d + 1) = Offset(C, (k + 1) + 1) + g
    BY <1>6, <1>8, EntersIs
  <2>3. Offset(C, l + e + 1) = Offset(C, l + 1) + w
    BY <1>6, <1>8, EntersIs
  <2> HIDE DEF d, e, g, w, o
  <2> QED
    BY <1>7, <2>1, <2>2, <2>3
<1>11. Lands(C, k + 1, Offset(C, l + e + 1) + (5 - i))
  <2>1. g \in Nat /\ w \in Nat /\ i = g + w + 6
    BY <1>3, <1>4
  <2> HIDE DEF e, g, w, o
  <2>2. o + 1 + g + w + (5 - i) = o
    BY <1>10, <2>1
  <2> QED
    BY <1>9, <1>10, <2>2 DEF Lands, o
<1>14. WhileAt(b, c, C, k, u, h, W, i, l, q)
  BY <1>1, <1>4, <1>6, <1>7, <1>8, <1>9, <1>11, <1>16, <1>17 DEF WhileAt, dest
<1> QED
  BY <1>14, <1>15 DEF x

\* One turn of a loop, once its condition was asked.
LEMMA AskedAgain ==
  ASSUME NEW b, NEW c, RunsThrough(c), Balance(c.code) = 1, ~c.halts, ~c.open,
         NEW C, NEW k, NEW u, NEW m, NEW h, NEW W, NEW s \in Books, NEW i, NEW l, NEW q,
         WhileAt(b, c.code, C, k, u, h, W, i, l, q), u \in Seq(Int), m \in Seq(Int),
         OnTrack(m, W), OnTrack(m \o c.runs, W)
  PROVE  Leads(C, {Place(l + 1, u, c.before, m, s)},
               {Place(IF c.items[1] # 0 THEN k + 1 ELSE q + 1, u, c.after, m \o c.runs,
                      Spent(s, c.cost + 18))}, h, W)
<1> DEFINE v == c.items[1]
           r == m \o c.runs
           t == Spent(s, c.cost)
           d == c.code
           e == Len(d.code)
           f == c.after
<1>1. c \in Pieces /\ Len(c.items) = 1 /\ d \in Codes /\ c.runs \in Seq(Int) /\ c.cost \in Int
      /\ e \in Nat /\ c.items \in Seq(Int)
  <2>1. c \in Pieces /\ Len(c.items) = Balance(c.code)
    BY DEF RunsThrough
  <2> QED
    BY <2>1, PieceIs
<1>2. c.items = <<v>> /\ v \in Int
  BY <1>1
<1>3. r \in Seq(Int)
  BY <1>1, OnTop
<1>4. /\ i \in Int /\ l \in Nat /\ q \in Nat /\ k \in Nat /\ q = l + e + 4
      /\ Enters(d, C, l, u, m, h, W) /\ Enters(Call(Op("JUMPI"), <<JumpBack(i), d>>), C, l, u, r, h, W)
      /\ Lands(C, k + 1, Offset(C, l + e + 1) + (5 - i)) /\ C[k + 1].op = "JUMPDEST"
  BY <1>3 DEF WhileAt
<1>5. Comes(c, C, l, u, m, h, W) /\ Behind(c, l) = l + e + 1
  BY <1>4 DEF Comes, Behind
<1>6. Leads(C, {Place(l + 1, u, c.before, m, s)}, {Place(l + e + 1, u \o <<v>>, f, r, t)}, h, W)
  BY <1>2, <1>5, Through
<1>7. t \in Books /\ Spent(t, 18) = Spent(s, c.cost + 18)
  BY <1>1, SpentTwice
<1>8. Aims(JumpBack(i), 5 - i)
  BY <1>4, BackAims
<1>9. Balance(d) = 1 /\ d \in Codes
  BY <1>1
<1>10. l + e + 5 = q + 1
  <2>1. e \in Nat
    BY <1>1
  <2> HIDE DEF e
  <2> QED
    BY <1>4, <2>1
<1>11. e = Len(d.code)
  OBVIOUS
<1> HIDE DEF v, r, t, d, e, f
<1>12. v # 0 => Lands(C, k + 1, Offset(C, l + Len(d.code) + 1) + (5 - i)) /\ C[k + 1].op = "JUMPDEST"
  BY <1>4, <1>11
<1>13. Leads(C, {Place(l + Len(d.code) + 1, u \o <<v>>, f, r, t)},
             {Place(IF v # 0 THEN k + 1 ELSE l + Len(d.code) + 5, u, f, r, Spent(t, 18))}, h, W)
  BY <1>2, <1>4, <1>7, <1>8, <1>9, <1>12, AskGoes
<1>14. Leads(C, {Place(l + e + 1, u \o <<v>>, f, r, t)},
             {Place(IF v # 0 THEN k + 1 ELSE q + 1, u, f, r, Spent(s, c.cost + 18))}, h, W)
  BY <1>7, <1>10, <1>11, <1>13
<1>15. Leads(C, {Place(l + 1, u, c.before, m, s)},
             {Place(IF v # 0 THEN k + 1 ELSE q + 1, u, f, r, Spent(s, c.cost + 18))}, h, W)
  BY <1>6, <1>14, LeadsOn
<1> QED
  BY <1>15 DEF v, f, r

\* The jump destination and the body.
LEMMA BodyGoes ==
  ASSUME NEW b, RunsThrough(b), Balance(b.code) = 0, NEW d,
         NEW C, NEW k, NEW u, NEW m, NEW h, NEW W, NEW s \in Books, NEW i, NEW l, NEW q,
         WhileAt(b.code, d, C, k, u, h, W, i, l, q), Len(d.code) \in Nat, u \in Seq(Int), m \in Seq(Int),
         OnTrack(m, W), OnTrack(m \o b.runs, W)
  PROVE  Leads(C, {Place(k + 1, u, b.before, m, s)},
               {Place(IF b.halts THEN 0 ELSE l + 1, u, b.after, m \o b.runs, Spent(s, 1 + b.cost))}, h, W)
<1> DEFINE t == Spent(s, 1)
           e == Len(b.code.code)
           n == Len(C)
           g == Len(d.code)
<1>1. /\ b.code \in Codes /\ b.runs \in Seq(Int) /\ b.cost \in Int /\ b.halts \in BOOLEAN
      /\ e \in Nat /\ b.items = <<>>
  BY NoItems
<1>2. /\ l \in Nat /\ q \in Nat /\ k \in Nat /\ l = k + 1 + e /\ q = l + g + 4
      /\ Enters(Op("JUMPDEST"), C, k, u, m, h, W) /\ Enters(b.code, C, k + 1, u, m, h, W)
      /\ q <= n /\ n \in Nat
  BY DEF WhileAt
<1>3. t \in Books /\ Spent(t, b.cost) = Spent(s, 1 + b.cost)
  <2> DEFINE z == b.cost
  <2>1. z \in Int
    BY <1>1
  <2> HIDE DEF z
  <2>2. 1 \in Int /\ Spent(s, 1) \in Books /\ Spent(Spent(s, 1), z) = Spent(s, 1 + z)
    BY <2>1, SpentTwice
  <2> QED
    BY <2>2 DEF z
<1>4. u \o <<>> = u
  BY NothingOnTop
<1> HIDE DEF t
<1>5. Leads(C, {Place(k + 1, u, b.before, m, s)}, {Place(k + 2, u, b.before, m, t)}, h, W)
  BY <1>2, JumpdestGoes DEF t
<1>6. (k + 1) + e < n /\ (k + 1) + 1 = k + 2 /\ (k + 1) + e + 1 = l + 1
  <2>1. g \in Nat /\ e \in Nat
    BY <1>1
  <2> HIDE DEF e, g, n
  <2> QED
    BY <1>2, <2>1
<1>7. Comes(b, C, k + 1, u, m, h, W) /\ Behind(b, k + 1) = IF b.halts THEN 0 ELSE l + 1
  BY <1>2, <1>6 DEF Comes, Behind
<1>8. Leads(C, {Place((k + 1) + 1, u, b.before, m, t)},
            {Place(Behind(b, k + 1), u \o b.items, b.after, m \o b.runs, Spent(t, b.cost))}, h, W)
  BY <1>3, <1>7, Through
<1>9. Leads(C, {Place(k + 2, u, b.before, m, t)},
            {Place(IF b.halts THEN 0 ELSE l + 1, u, b.after, m \o b.runs, Spent(s, 1 + b.cost))}, h, W)
  BY <1>1, <1>3, <1>4, <1>6, <1>7, <1>8
<1> QED
  BY <1>5, <1>9, LeadsOn

\* One turn of a loop comes back to its start, or out of it.
LEMMA TurnGoes ==
  ASSUME NEW b, NEW c, RunsThrough(b), RunsThrough(c), NEW x, Turns(x, b, c),
         NEW C, NEW k, NEW u, NEW m, NEW h, NEW W, NEW s \in Books,
         Enters(x.code, C, k, u, m, h, W), OnTrack(m \o (b.runs \o c.runs), W)
  PROVE  Leads(C, {Place(k + 1, u, b.before, m, s)},
               {Place(IF c.items[1] # 0 THEN k + 1 ELSE k + Len(x.code.code) + 1, u, c.after,
                      m \o (b.runs \o c.runs), Spent(s, (1 + b.cost) + (c.cost + 18)))}, h, W)
<1> DEFINE r == m \o b.runs
           t == Spent(s, 1 + b.cost)
           v == c.items[1]
<1>1. /\ Balance(b.code) = 0 /\ ~b.halts /\ Balance(c.code) = 1 /\ ~c.halts /\ ~c.open
      /\ c.before = b.after /\ x.code = WhileTrue(b.code, c.code)
  BY DEF Turns
<1>2. /\ b.code \in Codes /\ b.runs \in Seq(Int) /\ b.cost \in Int
  BY <1>1, NoItems
<1>3. /\ c.code \in Codes /\ c.runs \in Seq(Int) /\ c.cost \in Int /\ Len(c.code.code) \in Nat
  BY PieceIs DEF RunsThrough
<1>4. PICK i, l, q : /\ WhileAt(b.code, c.code, C, k, u, h, W, i, l, q)
                     /\ k + Len(x.code.code) = q
  <2> DEFINE f == b.code
             g == c.code
  <2>1. /\ f \in Codes /\ Balance(f) = 0 /\ g \in Codes /\ Balance(g) = 1 /\ x.code = WhileTrue(f, g)
        /\ Enters(WhileTrue(f, g), C, k, u, m, h, W)
    BY <1>1, <1>2, <1>3
  <2> HIDE DEF f, g
  <2>2. \E i, l, q : WhileAt(f, g, C, k, u, h, W, i, l, q) /\ k + Len(WhileTrue(f, g).code) = q
    BY <2>1, WhileThere
  <2> QED
    BY <2>1, <2>2 DEF f, g
<1>5. u \in Seq(Int) /\ m \in Seq(Int) /\ OnTrack(m, W)
  BY DEF Enters
<1>6. r \in Seq(Int) /\ m \o (b.runs \o c.runs) = r \o c.runs /\ OnTrack(r \o c.runs, W) /\ OnTrack(r, W)
  <2>0. m \in Seq(Int) /\ b.runs \in Seq(Int) /\ c.runs \in Seq(Int)
    BY <1>2, <1>3, <1>5
  <2>1. m \o (b.runs \o c.runs) = (m \o b.runs) \o c.runs
    BY <2>0, Together, Zenon
  <2>2. r \in Seq(Int)
    BY <1>2, <1>5, OnTop
  <2> QED
    BY <1>3, <2>1, <2>2, OnTrackBefore
<1>7. Leads(C, {Place(k + 1, u, b.before, m, s)}, {Place(l + 1, u, b.after, r, t)}, h, W)
  <2>1. Leads(C, {Place(k + 1, u, b.before, m, s)},
              {Place(IF b.halts THEN 0 ELSE l + 1, u, b.after, r, t)}, h, W)
    BY <1>1, <1>3, <1>4, <1>5, <1>6, BodyGoes
  <2> QED
    BY <1>1, <2>1
<1>8. t \in Books /\ Spent(t, c.cost + 18) = Spent(s, (1 + b.cost) + (c.cost + 18))
  <2> DEFINE z == 1 + b.cost
             w == c.cost + 18
  <2>1. z \in Int /\ w \in Int
    BY <1>2, <1>3
  <2> HIDE DEF z, w
  <2>2. Spent(s, z) \in Books /\ Spent(Spent(s, z), w) = Spent(s, z + w)
    BY <2>1, SpentTwice
  <2> QED
    BY <2>2 DEF z, w
<1> HIDE DEF r, t
<1>9. Leads(C, {Place(l + 1, u, c.before, r, t)},
            {Place(IF v # 0 THEN k + 1 ELSE q + 1, u, c.after, r \o c.runs, Spent(t, c.cost + 18))}, h, W)
  BY <1>1, <1>4, <1>5, <1>6, <1>8, AskedAgain
<1>10. Leads(C, {Place(k + 1, u, b.before, m, s)},
             {Place(IF v # 0 THEN k + 1 ELSE q + 1, u, c.after, r \o c.runs, Spent(t, c.cost + 18))}, h, W)
  BY <1>1, <1>7, <1>9, LeadsOn
<1>11. k + Len(x.code.code) + 1 = q + 1
  BY <1>4
<1> HIDE DEF v
<1> QED
  BY <1>6, <1>8, <1>10, <1>11 DEF v

\* A loop is a code without balance.
LEMMA LoopCodes ==
  ASSUME NEW b, NEW d \in Codes, Balance(d) = 1, RunsThrough(b), Balance(b.code) = 0
  PROVE  WhileTrue(b.code, d) \in Codes /\ Balance(WhileTrue(b.code, d)) = 0
<1>1. b.code \in Codes
  BY NoItems
<1> QED
  BY <1>1, WhileIs, Zenon

\* A loop whose condition is false at the end of the turn runs it once.
LEMMA LastTurnRuns ==
  ASSUME NEW x \in Pieces, NEW b, NEW c, RunsThrough(b), RunsThrough(c), IsLastTurn(x, b, c)
  PROVE  RunsThrough(x)
<1>1. /\ Turns(x, b, c) /\ c.items[1] = 0 /\ x.after = c.after /\ x.runs = b.runs \o c.runs /\ ~x.halts
      /\ x.cost = (1 + b.cost) + (c.cost + 18) /\ x.items = <<>> /\ x.before = b.before
  BY DEF IsLastTurn, Turns
<1>2. x.code \in Codes /\ Len(x.items) = Balance(x.code)
  <2>1. /\ x.code = WhileTrue(b.code, c.code) /\ Balance(b.code) = 0 /\ Balance(c.code) = 1 /\ c.code \in Codes
    BY <1>1, PieceIs DEF Turns, RunsThrough
  <2>2. x.code \in Codes /\ Balance(x.code) = 0
    BY <2>1, LoopCodes
  <2> QED
    BY <1>1, <2>2
<1>3. ASSUME NEW C, NEW k, NEW u, NEW m, NEW h, NEW W, NEW s \in Books, Comes(x, C, k, u, m, h, W)
      PROVE  Leads(C, {Place(k + 1, u, x.before, m, s)},
               {Place(Behind(x, k), u \o x.items, x.after, m \o x.runs, Spent(s, x.cost))}, h, W)
  <2>1. Enters(x.code, C, k, u, m, h, W) /\ OnTrack(m \o (b.runs \o c.runs), W)
    BY <1>1, <1>3 DEF Comes
  <2>2. u \o x.items = u
    BY <1>1, <2>1, NothingOnTop DEF Enters
  <2>3. Behind(x, k) = k + Len(x.code.code) + 1
    BY <1>1 DEF Behind
  <2> DEFINE v == c.items[1]
  <2>4. Leads(C, {Place(k + 1, u, b.before, m, s)},
               {Place(IF v # 0 THEN k + 1 ELSE k + Len(x.code.code) + 1, u, c.after,
                      m \o (b.runs \o c.runs), Spent(s, (1 + b.cost) + (c.cost + 18)))}, h, W)
    BY <1>1, <2>1, TurnGoes
  <2>5. v = 0
    BY <1>1
  <2> HIDE DEF v
  <2> QED
    BY <1>1, <2>2, <2>3, <2>4, <2>5
<1> QED
  BY <1>2, <1>3 DEF RunsThrough

\* One whose condition is true runs once more.
LEMMA TurnRuns ==
  ASSUME NEW x \in Pieces, NEW b, NEW c, NEW y, RunsThrough(b), RunsThrough(c), RunsThrough(y), IsTurn(x, b, c, y)
  PROVE  RunsThrough(x)
<1>1. /\ Turns(x, b, c) /\ c.items[1] # 0 /\ y.code = x.code /\ y.before = c.after /\ ~y.open
      /\ x.after = y.after /\ x.runs = (b.runs \o c.runs) \o y.runs /\ x.halts = y.halts
      /\ x.cost = ((1 + b.cost) + (c.cost + 18)) + y.cost
      /\ x.items = <<>> /\ x.before = b.before
  BY DEF IsTurn, Turns
<1>2. x.code \in Codes /\ Balance(x.code) = 0
  <2>1. /\ x.code = WhileTrue(b.code, c.code) /\ Balance(b.code) = 0 /\ Balance(c.code) = 1 /\ c.code \in Codes
    BY <1>1, PieceIs DEF Turns, RunsThrough
  <2> QED
    BY <2>1, LoopCodes
<1>3. y.items = <<>> /\ y.runs \in Seq(Int) /\ y.cost \in Int
  BY <1>1, <1>2, NoItems
<1>4. b.runs \in Seq(Int) /\ c.runs \in Seq(Int) /\ b.cost \in Int /\ c.cost \in Int /\ b.runs \o c.runs \in Seq(Int)
  <2>1. b.runs \in Seq(Int) /\ c.runs \in Seq(Int) /\ b.cost \in Int /\ c.cost \in Int
    BY PieceIs DEF RunsThrough
  <2> QED
    BY <2>1, OnTop
<1>5. ASSUME NEW C, NEW k, NEW u, NEW m, NEW h, NEW W, NEW s \in Books, Comes(x, C, k, u, m, h, W)
      PROVE  Leads(C, {Place(k + 1, u, x.before, m, s)},
               {Place(Behind(x, k), u \o x.items, x.after, m \o x.runs, Spent(s, x.cost))}, h, W)
  <2> DEFINE r == m \o (b.runs \o c.runs)
             z == (1 + b.cost) + (c.cost + 18)
             t == Spent(s, z)
  <2>1. Enters(x.code, C, k, u, m, h, W) /\ OnTrack(m \o x.runs, W)
    BY <1>5 DEF Comes
  <2>2. m \in Seq(Int) /\ u \in Seq(Int)
    BY <2>1 DEF Enters
  <2>3. r \in Seq(Int) /\ m \o x.runs = r \o y.runs /\ OnTrack(r, W) /\ OnTrack(r \o y.runs, W)
    <3>0. m \in Seq(Int) /\ (b.runs \o c.runs) \in Seq(Int) /\ y.runs \in Seq(Int)
      BY <1>3, <1>4, <2>2
    <3>1. m \o ((b.runs \o c.runs) \o y.runs) = (m \o (b.runs \o c.runs)) \o y.runs
      BY <3>0, Together, Zenon
    <3>2. r \in Seq(Int)
      BY <1>4, <2>2, OnTop
    <3> QED
      BY <1>1, <1>3, <2>1, <3>1, <3>2, OnTrackBefore
  <2>4. Behind(x, k) = Behind(y, k)
    BY <1>1 DEF Behind
  <2>5. Comes(y, C, k, u, r, h, W)
    BY <1>1, <2>1, <2>3, EntersWith DEF Comes
  <2> DEFINE v == c.items[1]
  <2>6. Leads(C, {Place(k + 1, u, b.before, m, s)},
               {Place(IF v # 0 THEN k + 1 ELSE k + Len(x.code.code) + 1, u, c.after, r, t)}, h, W)
    BY <1>1, <2>1, <2>3, TurnGoes
  <2>7. v # 0
    BY <1>1
  <2>8. t \in Books /\ Spent(t, y.cost) = Spent(s, x.cost)
    <3> DEFINE w == y.cost
    <3>1. z \in Int /\ w \in Int /\ x.cost = z + w
      BY <1>1, <1>3, <1>4
    <3> HIDE DEF z, w
    <3>2. Spent(s, z) \in Books /\ Spent(Spent(s, z), w) = Spent(s, x.cost)
      BY <3>1, SpentTwice
    <3> QED
      BY <3>2 DEF w
  <2> HIDE DEF v, r, t
  <2>9. Leads(C, {Place(k + 1, u, c.after, r, t)},
              {Place(Behind(y, k), u \o <<>>, y.after, r \o y.runs, Spent(t, y.cost))}, h, W)
    BY <1>1, <1>3, <2>5, <2>8, Through
  <2>10. Leads(C, {Place(k + 1, u, b.before, m, s)}, {Place(k + 1, u, c.after, r, t)}, h, W)
    BY <2>6, <2>7
  <2>11. Leads(C, {Place(k + 1, u, b.before, m, s)},
              {Place(Behind(y, k), u \o <<>>, y.after, r \o y.runs, Spent(t, y.cost))}, h, W)
    BY <2>9, <2>10, LeadsOn
  <2> QED
    BY <1>1, <2>3, <2>4, <2>8, <2>11
<1>6. Len(x.items) = Balance(x.code)
  BY <1>1, <1>2
<1> QED
  BY <1>5, <1>6 DEF RunsThrough

\* One whose body halts runs it once.
LEMMA CutTurnRuns ==
  ASSUME NEW x \in Pieces, NEW b, NEW d, RunsThrough(b), IsCutTurn(x, b, d)
  PROVE  RunsThrough(x)
<1>1. /\ Balance(b.code) = 0 /\ b.halts /\ d \in Codes /\ Balance(d) = 1
      /\ x.before = b.before /\ x.after = b.after /\ x.runs = b.runs /\ x.items = <<>> /\ x.halts /\ ~x.open
      /\ x.code = WhileTrue(b.code, d) /\ x.cost = 1 + b.cost
  BY DEF IsCutTurn
<1>2. x.code \in Codes /\ Balance(x.code) = 0 /\ b.code \in Codes
  BY <1>1, LoopCodes, NoItems
<1>3. ASSUME NEW C, NEW k, NEW u, NEW m, NEW h, NEW W, NEW s \in Books, Comes(x, C, k, u, m, h, W)
      PROVE  Leads(C, {Place(k + 1, u, x.before, m, s)},
               {Place(Behind(x, k), u \o x.items, x.after, m \o x.runs, Spent(s, x.cost))}, h, W)
  <2>1. Enters(x.code, C, k, u, m, h, W) /\ OnTrack(m \o b.runs, W)
    BY <1>1, <1>3 DEF Comes
  <2>2. u \o x.items = u /\ u \in Seq(Int) /\ m \in Seq(Int) /\ OnTrack(m, W)
    BY <1>1, <2>1, NothingOnTop DEF Enters
  <2>3. Behind(x, k) = 0
    BY <1>1 DEF Behind
  <2>4. PICK i, l, q : WhileAt(b.code, d, C, k, u, h, W, i, l, q)
    <3> DEFINE f == b.code
    <3>1. /\ f \in Codes /\ Balance(f) = 0 /\ Enters(WhileTrue(f, d), C, k, u, m, h, W)
      BY <1>1, <1>2, <2>1
    <3> HIDE DEF f
    <3>2. \E i, l, q : WhileAt(f, d, C, k, u, h, W, i, l, q) /\ k + Len(WhileTrue(f, d).code) = q
      BY <1>1, <3>1, WhileThere
    <3> QED
      BY <3>2 DEF f
  <2>5. Len(d.code) \in Nat
    BY <1>1, CodeIs
  <2>6. Leads(C, {Place(k + 1, u, b.before, m, s)},
               {Place(IF b.halts THEN 0 ELSE l + 1, u, b.after, m \o b.runs, Spent(s, 1 + b.cost))}, h, W)
    BY <1>1, <2>1, <2>2, <2>4, <2>5, BodyGoes
  <2> QED
    BY <1>1, <2>2, <2>3, <2>6
<1>4. Len(x.items) = Balance(x.code)
  BY <1>1, <1>2
<1> QED
  BY <1>3, <1>4 DEF RunsThrough

\* The fields of a rung have their types.
LEMMA RungIs ==
  ASSUME NEW y \in Rungs
  PROVE  /\ y.code \in Codes /\ Len(y.code.code) \in Nat /\ Length(y.code) \in Nat /\ y.runs \in Seq(Int)
         /\ y.cost \in Nat /\ y.cost \in Int /\ y.halts \in BOOLEAN /\ y.far \in Nat /\ y.far \in Int
<1>1. y.code \in Codes /\ y.runs \in Seq(Int) /\ y.cost \in Nat /\ y.halts \in BOOLEAN /\ y.far \in Nat
  BY DEF Rungs
<1> QED
  BY <1>1, CodeIs

\* What reaches its end does so wherever it stands.
LEMMA Reached ==
  ASSUME NEW y, Reaches(y), NEW C, NEW k, NEW u, NEW m, NEW h, NEW W, NEW b \in Books, NEW q,
         Enters(y.code, C, k, u, m, h, W), OnTrack(m \o y.runs, W), k + Len(y.code.code) < Len(C),
         Lands(C, q, Offset(C, k + Len(y.code.code) + 1) + y.far), C[q].op = "JUMPDEST"
  PROVE  Leads(C, {Place(k + 1, u, y.before, m, b)},
               {Place(IF y.halts THEN 0 ELSE q, u, y.after, m \o y.runs, Spent(b, y.cost))}, h, W)
BY DEF Reaches, Arrives

\* JUMPI over so many bytes asks the condition that is called with it.
LEMMA LegacyAsks ==
  ASSUME NEW c, IsQuestion(c), NEW n \in Nat
  PROVE  AsksFor(JumpOverIf(n + 3, c.code), c, n, 18, TRUE)
<1> DEFINE w == n + 3
           j == JumpOverIf(w, c.code)
           l == Len(c.code.code)
<1>1. c.code \in Codes /\ w \in Int /\ l \in Nat /\ Balance(c.code) = 1 /\ n \in Int
  BY PieceIs DEF IsQuestion, RunsThrough
<1>2. j \in Codes /\ Len(j.code) = l + 4 /\ Balance(j) = 0
  BY <1>1, JumpOverIfIs
<1>3. ASSUME NEW C, NEW k, NEW u, NEW m, NEW h, NEW W, NEW b \in Books, NEW q,
             Enters(j, C, k, u, m, h, W), OnTrack(m \o c.runs, W),
             c.items[1] # 0 => /\ Lands(C, q, Offset(C, k + Len(j.code) + 1) + n)
                               /\ TRUE => C[q].op = "JUMPDEST"
      PROVE  Decides(c, C, k, Len(j.code), u, m, h, W, b, q, 18)
  <2>1. k \in Nat /\ Offset(C, k + Len(j.code) + 1) \in Int
    <3>1. /\ k \in Nat /\ Offset(C, k + 1) \in Nat
          /\ Offset(C, k + Len(j.code) + 1) = Offset(C, k + 1) + Length(j)
      BY <1>2, <1>3, EntersIs
    <3>2. Length(j) \in Nat
      BY <1>2, CodeIs
    <3> QED
      BY <3>1, <3>2
  <2>2. k + Len(j.code) + 1 = k + l + 5
    <3> HIDE DEF l
    <3> QED
      BY <1>1, <1>2, <2>1
  <2>3. c.items[1] # 0 => Lands(C, q, Offset(C, k + l + 5) + w - 3) /\ C[q].op = "JUMPDEST"
    <3> DEFINE o == Offset(C, k + l + 5)
    <3>1. o \in Int /\ (c.items[1] # 0 => Lands(C, q, o + n) /\ C[q].op = "JUMPDEST")
      BY <1>3, <2>1, <2>2
    <3> HIDE DEF o
    <3>2. o + w - 3 = o + n
      BY <1>1, <3>1
    <3> QED
      BY <3>1, <3>2 DEF o
  <2>4. Leads(C, {Place(k + 1, u, c.before, m, b)},
              {Place(IF c.items[1] # 0 THEN q ELSE k + l + 5, u, c.after, m \o c.runs,
                     Spent(b, c.cost + 18))}, h, W)
    <3> HIDE DEF w
    <3> QED
      BY <1>1, <1>3, <2>3, AskedGoes DEF IsQuestion
  <2> QED
    BY <2>2, <2>4 DEF Decides
<1>4. n \in Int /\ 18 \in Nat
  OBVIOUS
<1> HIDE DEF j
<1>5. \A C, k, u, m, h, W, b, q :
          /\ b \in Books /\ Enters(j, C, k, u, m, h, W) /\ OnTrack(m \o c.runs, W)
          /\ c.items[1] # 0 => /\ Lands(C, q, Offset(C, k + Len(j.code) + 1) + n)
                               /\ TRUE => C[q].op = "JUMPDEST"
          => Decides(c, C, k, Len(j.code), u, m, h, W, b, q, 18)
  BY <1>3
<1>6. AsksFor(j, c, n, 18, TRUE)
  BY <1>2, <1>4, <1>5, Zenon DEF AsksFor
<1> QED
  BY <1>6 DEF j

\* RJUMPI asks it too, and its target needs no JUMPDEST.
LEMMA EofAsks ==
  ASSUME NEW c, IsQuestion(c), NEW n \in Nat
  PROVE  AsksFor(Call(Data("RJUMPI", n), <<c.code>>), c, n, 4, FALSE)
<1> DEFINE j == Call(Data("RJUMPI", n), <<c.code>>)
           l == Len(c.code.code)
<1>1. c.code \in Codes /\ n \in Int /\ l \in Nat /\ Balance(c.code) = 1
  BY PieceIs DEF IsQuestion, RunsThrough
<1>2. j \in Codes /\ Len(j.code) = l + 1 /\ Balance(j) = 0
  BY <1>1, BranchIs
<1>3. ASSUME NEW C, NEW k, NEW u, NEW m, NEW h, NEW W, NEW b \in Books, NEW q,
             Enters(j, C, k, u, m, h, W), OnTrack(m \o c.runs, W),
             c.items[1] # 0 => /\ Lands(C, q, Offset(C, k + Len(j.code) + 1) + n)
                               /\ FALSE => C[q].op = "JUMPDEST"
      PROVE  Decides(c, C, k, Len(j.code), u, m, h, W, b, q, 4)
  <2>1. k \in Nat
    BY <1>2, <1>3, EntersIs
  <2>2. k + Len(j.code) + 1 = k + l + 2
    <3> HIDE DEF l
    <3> QED
      BY <1>1, <1>2, <2>1
  <2>3. c.items[1] # 0 => Lands(C, q, Offset(C, k + l + 2) + n)
    BY <1>3, <2>2
  <2>4. Leads(C, {Place(k + 1, u, c.before, m, b)},
              {Place(IF c.items[1] # 0 THEN q ELSE k + l + 2, u, c.after, m \o c.runs,
                     Spent(b, c.cost + 4))}, h, W)
    BY <1>1, <1>3, <2>3, BranchGoes DEF IsQuestion
  <2> QED
    BY <2>2, <2>4 DEF Decides
<1>4. n \in Int /\ 4 \in Nat
  OBVIOUS
<1> HIDE DEF j
<1>5. \A C, k, u, m, h, W, b, q :
          /\ b \in Books /\ Enters(j, C, k, u, m, h, W) /\ OnTrack(m \o c.runs, W)
          /\ c.items[1] # 0 => /\ Lands(C, q, Offset(C, k + Len(j.code) + 1) + n)
                               /\ FALSE => C[q].op = "JUMPDEST"
          => Decides(c, C, k, Len(j.code), u, m, h, W, b, q, 4)
  BY <1>3
<1>6. AsksFor(j, c, n, 4, FALSE)
  BY <1>2, <1>4, <1>5, Zenon DEF AsksFor
<1> QED
  BY <1>6 DEF j

\* What exits does so wherever it stands.
LEMMA Exited ==
  ASSUME NEW o, NEW n, NEW z, Exits(o, n, z), NEW C, NEW k, NEW u, NEW m, NEW h, NEW W, NEW f, NEW b \in Books,
         NEW q, Enters(o, C, k, u, m, h, W), Lands(C, q, Offset(C, k + Len(o.code) + 1) + n),
         C[q].op = "JUMPDEST"
  PROVE  Leads(C, {Place(k + 1, u, f, m, b)}, {Place(q, u, f, m, Spent(b, z))}, h, W)
BY DEF Exits

\* The jump over so many bytes goes there.
LEMMA LegacyExits ==
  ASSUME NEW n \in Nat
  PROVE  Exits(JumpOver(n + 3), n, 16)
<1> DEFINE w == n + 3
           o == JumpOver(w)
<1>1. w \in Int /\ n \in Int /\ 16 \in Nat
  OBVIOUS
<1>2. o \in Codes /\ Len(o.code) = 4 /\ Balance(o) = 0
  BY <1>1, JumpOverIs
<1>3. ASSUME NEW C, NEW k, NEW u, NEW m, NEW h, NEW W, NEW f, NEW b \in Books, NEW q,
             Enters(o, C, k, u, m, h, W), Lands(C, q, Offset(C, k + Len(o.code) + 1) + n),
             C[q].op = "JUMPDEST"
      PROVE  Leads(C, {Place(k + 1, u, f, m, b)}, {Place(q, u, f, m, Spent(b, 16))}, h, W)
  <2>1. k \in Nat /\ Offset(C, k + Len(o.code) + 1) \in Int
    <3>1. /\ k \in Nat /\ Offset(C, k + 1) \in Nat
          /\ Offset(C, k + Len(o.code) + 1) = Offset(C, k + 1) + Length(o)
      BY <1>2, <1>3, EntersIs
    <3>2. Length(o) \in Nat
      BY <1>2, CodeIs
    <3> QED
      BY <3>1, <3>2
  <2>2. k + Len(o.code) + 1 = k + 5
    <3> DEFINE p == Len(o.code)
    <3>1. p = 4 /\ k \in Nat
      BY <1>2, <2>1
    <3> HIDE DEF p
    <3>2. k + p + 1 = k + 5
      BY <3>1
    <3> QED
      BY <3>2 DEF p
  <2> DEFINE g == Offset(C, k + 5)
  <2>3. g \in Int /\ Lands(C, q, g + n)
    BY <1>3, <2>1, <2>2
  <2> HIDE DEF g
  <2>4. g + w - 3 = g + n
    BY <2>3
  <2>5. Lands(C, q, Offset(C, k + 5) + w - 3)
    BY <2>3, <2>4 DEF g
  <2> HIDE DEF w
  <2> QED
    BY <1>1, <1>3, <2>5, JumpOverGoes
<1> HIDE DEF o
<1>4. \A C, k, u, m, h, W, f, b, q :
          /\ b \in Books /\ Enters(o, C, k, u, m, h, W)
          /\ Lands(C, q, Offset(C, k + Len(o.code) + 1) + n) /\ C[q].op = "JUMPDEST"
          => Leads(C, {Place(k + 1, u, f, m, b)}, {Place(q, u, f, m, Spent(b, 16))}, h, W)
  BY <1>3
<1>5. Exits(o, n, 16)
  BY <1>1, <1>2, <1>4, Zenon DEF Exits
<1> QED
  BY <1>5 DEF o

\* RJUMP goes there.
LEMMA EofExits ==
  ASSUME NEW n \in Nat
  PROVE  Exits(Data("RJUMP", n), n, 2)
<1> DEFINE o == Data("RJUMP", n)
<1>1. n \in Int /\ 2 \in Nat
  OBVIOUS
<1>2. o \in Codes /\ Len(o.code) = 1 /\ Balance(o) = 0 /\ Length(o) = 3
  BY <1>1, OpsAre
<1>3. ASSUME NEW C, NEW k, NEW u, NEW m, NEW h, NEW W, NEW f, NEW b \in Books, NEW q,
             Enters(o, C, k, u, m, h, W), Lands(C, q, Offset(C, k + Len(o.code) + 1) + n),
             C[q].op = "JUMPDEST"
      PROVE  Leads(C, {Place(k + 1, u, f, m, b)}, {Place(q, u, f, m, Spent(b, 2))}, h, W)
  <2>1. /\ k \in Nat /\ Offset(C, k + 1) \in Nat /\ u \in Seq(Int)
        /\ Offset(C, k + Len(o.code) + 1) = Offset(C, k + 1) + Length(o)
    BY <1>2, <1>3, EntersIs
  <2>2. Lands(C, q, Offset(C, k + 1) + 3 + n)
    BY <1>2, <1>3, <2>1
  <2> QED
    BY <1>1, <1>3, <2>1, <2>2, RjumpGoes
<1> HIDE DEF o
<1>4. \A C, k, u, m, h, W, f, b, q :
          /\ b \in Books /\ Enters(o, C, k, u, m, h, W)
          /\ Lands(C, q, Offset(C, k + Len(o.code) + 1) + n) /\ C[q].op = "JUMPDEST"
          => Leads(C, {Place(k + 1, u, f, m, b)}, {Place(q, u, f, m, Spent(b, 2))}, h, W)
  BY <1>3
<1>5. Exits(o, n, 2)
  BY <1>1, <1>2, <1>4, Zenon DEF Exits
<1> QED
  BY <1>5 DEF o

\* An action and the jump behind it.
LEMMA ArmGoes ==
  ASSUME NEW a, RunsThrough(a), Balance(a.code) = 0, NEW o, NEW n, NEW z, Exits(o, n, z),
         NEW y \in Codes, NEW s \in Nat, Part(a.code, y, s, 0), Part(o, y, s + Len(a.code.code), 0),
         Len(y.code) = s + Len(a.code.code) + Len(o.code),
         NEW C, NEW k, NEW u, NEW m, NEW h, NEW W, NEW b \in Books, NEW q,
         Enters(y, C, k, u, m, h, W), OnTrack(m \o a.runs, W), k + Len(y.code) < Len(C),
         Lands(C, q, Offset(C, k + Len(y.code) + 1) + n), C[q].op = "JUMPDEST"
  PROVE  Leads(C, {Place(k + s + 1, u, a.before, m, b)},
               {Place(IF a.halts THEN 0 ELSE q, u, a.after, m \o a.runs,
                      Spent(b, a.cost + (IF a.halts THEN 0 ELSE z)))}, h, W)
<1> DEFINE l == Len(a.code.code)
           p == Len(o.code)
           e == Len(C)
           x == k + s
<1>1. /\ a.code \in Codes /\ l \in Nat /\ a.halts \in BOOLEAN
  BY NoItems
<1>2. o \in Codes /\ n \in Int /\ z \in Int /\ p \in Nat
  BY CodeIs DEF Exits
<1>3. k \in Nat /\ u \in Seq(Int) /\ m \in Seq(Int) /\ C \in Seq(Instruction) /\ OnTrack(m, W) /\ Len(u) \in Nat
  BY EntersIs
<1>4. Enters(a.code, C, x, u, m, h, W)
  BY EntersTop
<1>5. Enters(o, C, k + (s + l), u, m, h, W)
  BY EntersTop
<1>6. e \in Nat
  BY <1>3
<1>7. /\ x \in Nat /\ k + (s + l) = x + l /\ x + l < e /\ x + l + p + 1 = k + Len(y.code) + 1 /\ x + 1 = k + s + 1
  <2> DEFINE g == Len(y.code)
  <2>1. g = s + l + p /\ k + g < e
    OBVIOUS
  <2> HIDE DEF l, p, e, g
  <2>2. /\ x \in Nat /\ k + (s + l) = x + l /\ x + l < e /\ x + l + p + 1 = k + g + 1 /\ x + 1 = k + s + 1
    BY <1>1, <1>2, <1>3, <1>6, <2>1
  <2> QED
    BY <2>2 DEF g
<1> HIDE DEF x
<1>8. Comes(a, C, x, u, m, h, W)
  BY <1>4, <1>7 DEF Comes
<1>9. ASSUME NEW r \in Seq(Int), NEW t \in Books, OnTrack(r, W)
      PROVE  Leads(C, {Place(x + l + 1, u, a.after, r, t)}, {Place(q, u, a.after, r, Spent(t, z))}, h, W)
  <2>1. Enters(o, C, x + l, u, r, h, W)
    BY <1>5, <1>7, <1>9, EntersWith
  <2>2. Lands(C, q, Offset(C, (x + l) + Len(o.code) + 1) + n)
    BY <1>7
  <2> DEFINE g == x + l
  <2> HIDE DEF g
  <2>3. Enters(o, C, g, u, r, h, W) /\ Lands(C, q, Offset(C, g + Len(o.code) + 1) + n)
    BY <2>1, <2>2 DEF g
  <2>4. Leads(C, {Place(g + 1, u, a.after, r, t)}, {Place(q, u, a.after, r, Spent(t, z))}, h, W)
    BY <2>3, Exited
  <2> QED
    BY <2>4 DEF g
<1>10. ~a.halts => \A r \in Seq(Int), t \in Books :
          OnTrack(r, W) => Leads(C, {Place(x + Len(a.code.code) + 1, u, a.after, r, t)},
                                 {Place(q, u, a.after, r, Spent(t, z))}, h, W)
  BY <1>9
<1>11. Leads(C, {Place(x + 1, u, a.before, m, b)},
               {Place(IF a.halts THEN 0 ELSE q, u, a.after, m \o a.runs,
                      Spent(b, a.cost + (IF a.halts THEN 0 ELSE z)))}, h, W)
  BY <1>2, <1>8, <1>10, ThroughBranch, Zenon
<1> QED
  BY <1>7, <1>11

\* An action with its jump reaches the end.
LEMMA BaseReaches ==
  ASSUME NEW a, RunsThrough(a), Balance(a.code) = 0, NEW o, NEW n, NEW z, Exits(o, n, z), NEW y, IsArm(y, a, z, 0),
         y.code = Concat(a.code, o), y.far = n
  PROVE  Reaches(y)
<1>1. a.code \in Codes /\ Len(a.code.code) \in Nat /\ o \in Codes /\ Balance(o) = 0 /\ Len(o.code) \in Nat
      /\ a.cost \in Int /\ z \in Int /\ a.halts \in BOOLEAN
  BY NoItems, CodeIs DEF Exits
<1>2. /\ y.code \in Codes /\ Balance(y.code) = 0 /\ Part(a.code, y.code, 0, 0)
      /\ Part(o, y.code, 0 + Len(a.code.code), 0) /\ Len(y.code.code) = 0 + Len(a.code.code) + Len(o.code)
  <2> DEFINE f == a.code
             l == Len(f.code)
             p == Len(o.code)
  <2>1. f \in Codes /\ o \in Codes /\ y.code = Concat(f, o) /\ Balance(f) = 0 /\ Balance(o) = 0 /\ l \in Nat /\ p \in Nat
    BY <1>1
  <2> HIDE DEF f
  <2>2. /\ y.code \in Codes /\ Len(y.code.code) = l + p /\ Balance(y.code) = Balance(f) + Balance(o)
        /\ Part(f, y.code, 0, 0) /\ Part(o, y.code, l, Balance(f))
    <3>1. f \in Codes /\ o \in Codes
      BY <2>1
    <3>2. /\ Concat(f, o) \in Codes /\ Len(Concat(f, o).code) = Len(f.code) + Len(o.code)
          /\ Balance(Concat(f, o)) = Balance(f) + Balance(o)
          /\ Part(f, Concat(f, o), 0, 0) /\ Part(o, Concat(f, o), Len(f.code), Balance(f))
      BY <3>1, PartsOfSum
    <3> QED
      BY <2>1, <3>2
  <2> HIDE DEF l, p
  <2>3. 0 + l = l
    BY <2>1
  <2>4. Balance(y.code) = 0 /\ Part(o, y.code, 0 + l, 0) /\ Len(y.code.code) = 0 + l + p
    BY <2>1, <2>2, <2>3
  <2> QED
    BY <2>2, <2>4 DEF f, l, p
<1>3. y \in Rungs /\ y.before = a.before /\ y.after = a.after /\ y.runs = a.runs /\ y.halts = a.halts
      /\ y.cost = a.cost + (IF a.halts THEN 0 ELSE z)
  BY <1>1 DEF IsArm, ActsAs
<1>4. ASSUME NEW C, NEW k, NEW u, NEW m, NEW h, NEW W, NEW b \in Books, NEW q,
             Enters(y.code, C, k, u, m, h, W), OnTrack(m \o y.runs, W), k + Len(y.code.code) < Len(C),
             Lands(C, q, Offset(C, k + Len(y.code.code) + 1) + y.far), C[q].op = "JUMPDEST"
      PROVE  Leads(C, {Place(k + 1, u, y.before, m, b)},
                   {Place(IF y.halts THEN 0 ELSE q, u, y.after, m \o y.runs, Spent(b, y.cost))}, h, W)
  <2>1. 0 \in Nat /\ k \in Nat /\ k + 0 + 1 = k + 1
    BY <1>2, <1>4, EntersIs
  <2> DEFINE f == y.code
  <2>2. /\ f \in Codes /\ Part(a.code, f, 0, 0) /\ Part(o, f, 0 + Len(a.code.code), 0)
        /\ Len(f.code) = 0 + Len(a.code.code) + Len(o.code)
        /\ Enters(f, C, k, u, m, h, W) /\ OnTrack(m \o a.runs, W) /\ k + Len(f.code) < Len(C)
        /\ Lands(C, q, Offset(C, k + Len(f.code) + 1) + n)
    BY <1>2, <1>3, <1>4
  <2> HIDE DEF f
  <2>3. Leads(C, {Place(k + 0 + 1, u, a.before, m, b)},
               {Place(IF a.halts THEN 0 ELSE q, u, a.after, m \o a.runs,
                      Spent(b, a.cost + (IF a.halts THEN 0 ELSE z)))}, h, W)
    BY <1>4, <2>1, <2>2, ArmGoes, Zenon
  <2> QED
    BY <1>3, <2>1, <2>3
<1>5. y \in Rungs /\ Balance(y.code) = 0
  BY <1>2, <1>3
<1>6. ASSUME NEW C, NEW k, NEW u, NEW m, NEW h, NEW W, NEW b, NEW q
      PROVE  Arrives(y, C, k, u, m, h, W, b, q)
  BY <1>4 DEF Arrives
<1> QED
  BY <1>5, <1>6 DEF Reaches

\* A question leads to where its answer says, and on from there.
LEMMA AskedThen ==
  ASSUME NEW e, Reaches(e), NEW c, NEW y, NEW z, IsRung(y, c, e, z),
         NEW j, NEW t, NEW dest, AsksFor(j, c, t, z, dest),
         NEW C, NEW k, NEW u, NEW m, NEW h, NEW W, NEW b \in Books, NEW p, NEW q,
         Enters(j, C, k, u, m, h, W), OnTrack(m \o y.runs, W),
         AnswerLeads(c, j, C, k, p, t, dest),
         Enters(e.code, C, p, u, m, h, W), p + Len(e.code.code) < Len(C),
         Lands(C, q, Offset(C, p + Len(e.code.code) + 1) + e.far), C[q].op = "JUMPDEST"
  PROVE  Leads(C, {Place(k + 1, u, y.before, m, b)},
               {Place(IF y.halts THEN 0 ELSE q, u, y.after, m \o y.runs, Spent(b, y.cost))}, h, W)
<1> DEFINE r == m \o c.runs
           x == c.cost + z
           s == Spent(b, x)
           v == c.items[1]
<1>1. /\ e \in Rungs /\ e.code \in Codes /\ e.runs \in Seq(Int) /\ e.cost \in Int
  BY RungIs DEF Reaches
<1>2. /\ c.runs \in Seq(Int) /\ c.cost \in Nat /\ z \in Nat /\ x \in Int
  BY PieceIs DEF IsQuestion, RunsThrough, IsRung
<1>3. /\ e.before = c.after /\ y.before = c.before /\ y.after = e.after /\ y.runs = c.runs \o e.runs
      /\ y.halts = e.halts /\ y.cost = x + e.cost
  BY DEF IsRung, Continues
<1>4. k \in Nat /\ m \in Seq(Int)
  <2>1. j \in Codes
    BY DEF AsksFor
  <2> QED
    BY <2>1, EntersIs
<1>5. r \in Seq(Int) /\ m \o y.runs = r \o e.runs /\ OnTrack(r \o e.runs, W) /\ OnTrack(r, W)
  <2>0. m \in Seq(Int) /\ c.runs \in Seq(Int) /\ e.runs \in Seq(Int)
    BY <1>1, <1>2, <1>4
  <2>1. m \o (c.runs \o e.runs) = (m \o c.runs) \o e.runs
    BY <2>0, Together, Zenon
  <2>2. r \in Seq(Int)
    BY <1>2, <1>4, OnTop
  <2> QED
    BY <1>1, <1>3, <2>1, <2>2, OnTrackBefore
<1>6. s \in Books /\ Spent(s, e.cost) = Spent(b, y.cost)
  <2> DEFINE n == e.cost
  <2>1. x \in Int /\ n \in Int /\ y.cost = x + n
    BY <1>1, <1>2, <1>3
  <2> HIDE DEF x, n
  <2>2. Spent(b, x) \in Books /\ Spent(Spent(b, x), n) = Spent(b, y.cost)
    BY <2>1, SpentTwice
  <2> QED
    BY <2>2 DEF n
<1>7. Leads(C, {Place(k + 1, u, c.before, m, b)}, {Place(p + 1, u, c.after, r, s)}, h, W)
  <2>1. Decides(c, C, k, Len(j.code), u, m, h, W, b, p + 1, z)
    BY <1>5 DEF AsksFor, AnswerLeads
  <2> DEFINE g == Len(j.code)
  <2>2. Leads(C, {Place(k + 1, u, c.before, m, b)},
              {Place(IF v # 0 THEN p + 1 ELSE k + g + 1, u, c.after, r, s)}, h, W)
    BY <2>1 DEF Decides
  <2>3. v = 0 => p = k + g
    BY DEF AnswerLeads
  <2> HIDE DEF v, g, r, s
  <2> QED
    BY <2>2, <2>3
<1> HIDE DEF r, s
<1>8. Leads(C, {Place(p + 1, u, e.before, r, s)},
            {Place(IF e.halts THEN 0 ELSE q, u, e.after, r \o e.runs, Spent(s, e.cost))}, h, W)
  <2>1. Enters(e.code, C, p, u, r, h, W)
    BY <1>5, EntersWith
  <2> QED
    BY <1>5, <1>6, <2>1, Reached
<1> QED
  BY <1>3, <1>5, <1>6, <1>7, <1>8, LeadsOn

\* If the answer is yes, the rung jumps over what it stands around to its own action;
\* if it is no, what it stands around goes on, and jumps over the action.
LEMMA YesReaches ==
  ASSUME NEW e, Reaches(e), NEW c, NEW y, NEW z, IsRung(y, c, e, z), c.items[1] # 0,
         NEW d \in Codes, Balance(d) = 0, NEW j, NEW dest, AsksFor(j, c, Length(d), z, dest),
         dest => Part(Op("JUMPDEST"), e.code, 0, 0),
         y.code = Join(<<j, d, e.code>>), y.far = e.far
  PROVE  Reaches(y)
<1> DEFINE lj == Len(j.code)
           ld == Len(d.code)
           le == Len(e.code.code)
           f == e.code
<1>1. /\ f \in Codes /\ Balance(f) = 0 /\ j \in Codes /\ Balance(j) = 0 /\ lj \in Nat /\ ld \in Nat /\ le \in Nat
      /\ Length(d) \in Int /\ e.far \in Int /\ Length(d) \in Nat
  BY CodeIs, RungIs DEF Reaches, AsksFor
<1>2. /\ y.code \in Codes /\ Balance(y.code) = 0 /\ Len(y.code.code) = lj + ld + le
      /\ Part(j, y.code, 0, 0) /\ Part(d, y.code, lj, 0) /\ Part(f, y.code, lj + ld, 0)
  <2> DEFINE w == Join(<<j, d, f>>)
  <2> HIDE DEF f
  <2>1. /\ w \in Codes /\ Len(w.code) = Len(j.code) + Len(d.code) + Len(f.code)
        /\ Balance(w) = Balance(j) + Balance(d) + Balance(f)
        /\ Part(j, w, 0, 0) /\ Part(d, w, Len(j.code), Balance(j))
        /\ Part(f, w, Len(j.code) + Len(d.code), Balance(j) + Balance(d))
    BY <1>1, ThreeParts
  <2>2. y.code = w
    BY DEF f
  <2> HIDE DEF w
  <2>3. /\ w \in Codes /\ Balance(w) = 0 /\ Len(w.code) = lj + ld + Len(f.code)
        /\ Part(j, w, 0, 0) /\ Part(d, w, lj, 0) /\ Part(f, w, lj + ld, 0)
    <3>1. Balance(j) = 0 /\ Balance(d) = 0 /\ Balance(f) = 0 /\ 0 + 0 = 0 /\ 0 + 0 + 0 = 0
      BY <1>1
    <3> QED
      BY <2>1, <3>1
  <2> QED
    BY <2>2, <2>3 DEF f
<1>3. ASSUME NEW C, NEW k, NEW u, NEW m, NEW h, NEW W, NEW b \in Books, NEW q,
             Enters(y.code, C, k, u, m, h, W), OnTrack(m \o y.runs, W), k + Len(y.code.code) < Len(C),
             Lands(C, q, Offset(C, k + Len(y.code.code) + 1) + y.far), C[q].op = "JUMPDEST"
      PROVE  Leads(C, {Place(k + 1, u, y.before, m, b)},
                   {Place(IF y.halts THEN 0 ELSE q, u, y.after, m \o y.runs, Spent(b, y.cost))}, h, W)
  <2> DEFINE g == Len(y.code.code)
             n == Len(C)
             p == k + (lj + ld)
  <2>1. k \in Nat /\ C \in Seq(Instruction) /\ n \in Nat /\ DOMAIN C = 1..n
    BY <1>2, <1>3, EntersIs
  <2>2. Enters(j, C, k, u, m, h, W) /\ Enters(d, C, k + lj, u, m, h, W) /\ Enters(f, C, p, u, m, h, W)
    <3>1. Enters(j, C, k + 0, u, m, h, W) /\ Enters(d, C, k + lj, u, m, h, W) /\ Enters(f, C, k + (lj + ld), u, m, h, W)
      <4> DEFINE w == y.code
      <4>1. /\ Part(j, w, 0, 0) /\ Part(d, w, lj, 0) /\ Part(f, w, lj + ld, 0) /\ Enters(w, C, k, u, m, h, W)
        BY <1>2, <1>3
      <4> HIDE DEF w, lj, ld, f
      <4> QED
        BY <4>1, EntersTop
    <3>2. k + 0 = k
      BY <2>1
    <3> QED
      BY <3>1, <3>2
  <2>3. p + le = k + g /\ p + 1 \in 1..n /\ p + 1 = (k + lj) + ld + 1 /\ p + le < n /\ k + lj + 1 = (k + lj) + 1
        /\ (le > 0 => p + 1 <= n) /\ p \in Nat
    <3>1. g = lj + ld + le /\ k + g < n
      BY <1>2, <1>3
    <3> HIDE DEF lj, ld, le, g, n
    <3> QED
      BY <1>1, <2>1, <3>1
  <2>4. Lands(C, p + 1, Offset(C, k + Len(j.code) + 1) + Length(d))
    <3>1. Offset(C, (k + lj) + Len(d.code) + 1) = Offset(C, (k + lj) + 1) + Length(d)
      <4> DEFINE i == k + lj
      <4> HIDE DEF i
      <4>1. Enters(d, C, i, u, m, h, W)
        BY <2>2 DEF i
      <4>2. Offset(C, i + Len(d.code) + 1) = Offset(C, i + 1) + Length(d)
        BY <4>1, EntersIs
      <4> QED
        BY <4>2 DEF i
    <3>2. Offset(C, p + 1) = Offset(C, k + lj + 1) + Length(d)
      BY <2>3, <3>1
    <3> QED
      BY <2>1, <2>3, <3>2 DEF Lands
  <2>5. dest => C[p + 1].op = "JUMPDEST"
    <3>1. Enters(f, C, p, u, m, h, W) /\ p + 0 = p /\ (dest => Part(Op("JUMPDEST"), f, 0, 0))
      <4>1. p + 0 = p
        <5> HIDE DEF p
        <5> QED
          BY <2>3
      <4> QED
        BY <2>2, <4>1 DEF f
    <3> HIDE DEF p, f
    <3>2. dest => Enters(Op("JUMPDEST"), C, p + 0, u, m, h, W)
      BY <3>1, EntersTop
    <3> QED
      BY <3>1, <3>2, DestThere
  <2>6. Lands(C, q, Offset(C, p + Len(e.code.code) + 1) + e.far) /\ p + Len(e.code.code) < Len(C)
    BY <1>3, <2>3
  <2> DEFINE t == Length(d)
             v == c.items[1]
  <2>7. /\ v # 0 => /\ Lands(C, p + 1, Offset(C, k + Len(j.code) + 1) + t)
                    /\ dest => C[p + 1].op = "JUMPDEST"
        /\ v = 0 => p = k + Len(j.code)
    BY <2>4, <2>5
  <2>8. /\ AsksFor(j, c, t, z, dest) /\ Enters(e.code, C, p, u, m, h, W) /\ Enters(j, C, k, u, m, h, W)
        /\ Lands(C, q, Offset(C, p + Len(e.code.code) + 1) + e.far) /\ p + Len(e.code.code) < Len(C)
    BY <2>2, <2>6
  <2> HIDE DEF p, t
  <2>9. AnswerLeads(c, j, C, k, p, t, dest)
    BY <2>7 DEF AnswerLeads
  <2> QED
    BY <1>3, <2>8, <2>9, AskedThen
<1>4. y \in Rungs
  BY DEF IsRung
<1>5. ASSUME NEW C, NEW k, NEW u, NEW m, NEW h, NEW W, NEW b, NEW q
      PROVE  Arrives(y, C, k, u, m, h, W, b, q)
  BY <1>3 DEF Arrives
<1> QED
  BY <1>2, <1>4, <1>5 DEF Reaches

\* After a no the code within goes on, and jumps over the action.
LEMMA NoReaches ==
  ASSUME NEW e, Reaches(e), NEW c, NEW y, NEW z, IsRung(y, c, e, z), c.items[1] = 0,
         NEW d \in Codes, Balance(d) = 0, NEW j, NEW t, NEW dest, AsksFor(j, c, t, z, dest),
         y.code = Join(<<j, e.code, d>>), e.far = Length(d) + y.far
  PROVE  Reaches(y)
<1> DEFINE lj == Len(j.code)
           ld == Len(d.code)
           le == Len(e.code.code)
           f == e.code
<1>1. /\ f \in Codes /\ Balance(f) = 0 /\ j \in Codes /\ Balance(j) = 0 /\ lj \in Nat /\ ld \in Nat /\ le \in Nat
      /\ Length(d) \in Nat /\ e.far \in Int /\ y.far \in Int /\ y \in Rungs
  BY CodeIs, RungIs DEF Reaches, AsksFor, IsRung
<1>2. /\ y.code \in Codes /\ Balance(y.code) = 0 /\ Len(y.code.code) = lj + le + ld
      /\ Part(j, y.code, 0, 0) /\ Part(f, y.code, lj, 0) /\ Part(d, y.code, lj + le, 0)
  <2> DEFINE w == Join(<<j, f, d>>)
  <2>0. le = Len(f.code)
    OBVIOUS
  <2> HIDE DEF f, le
  <2>1. /\ w \in Codes /\ Len(w.code) = Len(j.code) + Len(f.code) + Len(d.code)
        /\ Balance(w) = Balance(j) + Balance(f) + Balance(d)
        /\ Part(j, w, 0, 0) /\ Part(f, w, Len(j.code), Balance(j))
        /\ Part(d, w, Len(j.code) + Len(f.code), Balance(j) + Balance(f))
    BY <1>1, ThreeParts
  <2>2. y.code = w
    BY DEF f
  <2> HIDE DEF w
  <2>3. /\ w \in Codes /\ Balance(w) = 0 /\ Len(w.code) = lj + le + ld
        /\ Part(j, w, 0, 0) /\ Part(f, w, lj, 0) /\ Part(d, w, lj + le, 0)
    <3>1. Balance(j) = 0 /\ Balance(d) = 0 /\ Balance(f) = 0 /\ 0 + 0 = 0 /\ 0 + 0 + 0 = 0
      BY <1>1
    <3> QED
      BY <2>0, <2>1, <3>1
  <2> QED
    BY <2>2, <2>3 DEF f
<1>3. ASSUME NEW C, NEW k, NEW u, NEW m, NEW h, NEW W, NEW b \in Books, NEW q,
             Enters(y.code, C, k, u, m, h, W), OnTrack(m \o y.runs, W), k + Len(y.code.code) < Len(C),
             Lands(C, q, Offset(C, k + Len(y.code.code) + 1) + y.far), C[q].op = "JUMPDEST"
      PROVE  Leads(C, {Place(k + 1, u, y.before, m, b)},
                   {Place(IF y.halts THEN 0 ELSE q, u, y.after, m \o y.runs, Spent(b, y.cost))}, h, W)
  <2> DEFINE g == Len(y.code.code)
             n == Len(C)
             p == k + lj
             i == k + (lj + le)
  <2>1. k \in Nat /\ C \in Seq(Instruction) /\ n \in Nat /\ DOMAIN C = 1..n
    BY <1>2, <1>3, EntersIs
  <2>2. Enters(j, C, k, u, m, h, W) /\ Enters(f, C, p, u, m, h, W) /\ Enters(d, C, i, u, m, h, W)
    <3>1. Enters(j, C, k + 0, u, m, h, W) /\ Enters(f, C, k + lj, u, m, h, W) /\ Enters(d, C, k + (lj + le), u, m, h, W)
      <4> DEFINE w == y.code
      <4>1. /\ Part(j, w, 0, 0) /\ Part(f, w, lj, 0) /\ Part(d, w, lj + le, 0) /\ Enters(w, C, k, u, m, h, W)
        BY <1>2, <1>3
      <4> HIDE DEF w, lj, le, f
      <4> QED
        BY <4>1, EntersTop
    <3>2. k + 0 = k
      BY <2>1
    <3> QED
      BY <3>1, <3>2
  <2>3. /\ i = p + le /\ p + le < n /\ k + g + 1 = i + ld + 1
    <3>1. g = lj + le + ld /\ k + g < n
      BY <1>2, <1>3
    <3> HIDE DEF lj, ld, le, g, n
    <3> QED
      BY <1>1, <2>1, <3>1
  <2>4. Offset(C, k + g + 1) = Offset(C, p + le + 1) + Length(d) /\ Offset(C, p + le + 1) \in Nat
    <3> HIDE DEF i
    <3>1. Offset(C, i + Len(d.code) + 1) = Offset(C, i + 1) + Length(d) /\ Offset(C, i + 1) \in Nat
      BY <2>2, EntersIs
    <3> QED
      BY <2>3, <3>1
  <2>5. Lands(C, q, Offset(C, p + Len(e.code.code) + 1) + e.far) /\ p + Len(e.code.code) < Len(C)
    <3> DEFINE o == Offset(C, p + le + 1)
               x == Offset(C, k + g + 1)
               l == Length(d)
    <3>1. x = o + l /\ o \in Nat /\ l \in Nat /\ e.far = l + y.far /\ y.far \in Int /\ Lands(C, q, x + y.far)
      BY <1>1, <1>3, <2>4
    <3> HIDE DEF o, x, l
    <3>2. x + y.far = o + e.far
      BY <3>1
    <3> QED
      BY <2>3, <3>1, <3>2 DEF o
  <2>6. AnswerLeads(c, j, C, k, p, t, dest)
    BY DEF AnswerLeads
  <2>7. Enters(e.code, C, p, u, m, h, W)
    BY <2>2
  <2> HIDE DEF p
  <2> QED
    BY <1>3, <2>2, <2>5, <2>6, <2>7, AskedThen
<1>5. ASSUME NEW C, NEW k, NEW u, NEW m, NEW h, NEW W, NEW b, NEW q
      PROVE  Arrives(y, C, k, u, m, h, W, b, q)
  BY <1>3 DEF Arrives
<1> QED
  BY <1>1, <1>2, <1>5 DEF Reaches

\* An action of a legacy switch begins with the JUMPDEST that the question jumps to.
LEMMA ArmReaches ==
  ASSUME NEW a, RunsThrough(a), Balance(a.code) = 0, NEW o, NEW n, NEW z, Exits(o, n, z), NEW y, IsArm(y, a, z, 1),
         y.code = Join(<<Op("JUMPDEST"), a.code, o>>), y.far = n
  PROVE  Reaches(y) /\ Part(Op("JUMPDEST"), y.code, 0, 0)
<1> DEFINE j == Op("JUMPDEST")
           f == a.code
           l == Len(f.code)
           lo == Len(o.code)
<1>1. /\ f \in Codes /\ Balance(f) = 0 /\ l \in Nat /\ o \in Codes /\ Balance(o) = 0 /\ lo \in Nat
      /\ a.cost \in Int /\ z \in Int /\ a.halts \in BOOLEAN /\ a.runs \in Seq(Int)
  BY NoItems, CodeIs DEF Exits
<1>2. /\ j \in Codes /\ Len(j.code) = 1 /\ Balance(j) = 0
  BY OpsAre DEF Used
<1>3. /\ y.code \in Codes /\ Balance(y.code) = 0 /\ Len(y.code.code) = 1 + l + lo
      /\ Part(j, y.code, 0, 0) /\ Part(f, y.code, 1, 0) /\ Part(o, y.code, 1 + l, 0)
  <2> DEFINE w == Join(<<j, f, o>>)
  <2> HIDE DEF f, j
  <2>1. /\ w \in Codes /\ Len(w.code) = Len(j.code) + Len(f.code) + Len(o.code)
        /\ Balance(w) = Balance(j) + Balance(f) + Balance(o)
        /\ Part(j, w, 0, 0) /\ Part(f, w, Len(j.code), Balance(j))
        /\ Part(o, w, Len(j.code) + Len(f.code), Balance(j) + Balance(f))
    BY <1>1, <1>2, ThreeParts
  <2>2. y.code = w
    BY DEF f, j
  <2> HIDE DEF w
  <2>3. /\ w \in Codes /\ Balance(w) = 0 /\ Len(w.code) = 1 + l + lo
        /\ Part(j, w, 0, 0) /\ Part(f, w, 1, 0) /\ Part(o, w, 1 + l, 0)
    <3>1. Balance(j) = 0 /\ Balance(o) = 0 /\ Balance(f) = 0 /\ 0 + 0 = 0 /\ 0 + 0 + 0 = 0 /\ Len(j.code) = 1
      BY <1>1, <1>2
    <3> QED
      BY <2>1, <3>1
  <2> QED
    BY <2>2, <2>3 DEF f, j
<1>4. /\ y \in Rungs /\ y.before = a.before /\ y.after = a.after /\ y.runs = a.runs /\ y.halts = a.halts
      /\ y.cost = 1 + (a.cost + (IF a.halts THEN 0 ELSE z))
  BY <1>1 DEF IsArm, ActsAs
<1>5. ASSUME NEW C, NEW k, NEW u, NEW m, NEW h, NEW W, NEW b \in Books, NEW q,
             Enters(y.code, C, k, u, m, h, W), OnTrack(m \o y.runs, W), k + Len(y.code.code) < Len(C),
             Lands(C, q, Offset(C, k + Len(y.code.code) + 1) + y.far), C[q].op = "JUMPDEST"
      PROVE  Leads(C, {Place(k + 1, u, y.before, m, b)},
                   {Place(IF y.halts THEN 0 ELSE q, u, y.after, m \o y.runs, Spent(b, y.cost))}, h, W)
  <2> DEFINE t == Spent(b, 1)
             x == a.cost + (IF a.halts THEN 0 ELSE z)
             w == y.code
  <2>1. k \in Nat /\ k + 0 = k /\ k + 1 + 1 = k + 2 /\ 1 \in Nat /\ m \in Seq(Int)
    BY <1>3, <1>5, EntersIs
  <2>2. w \in Codes /\ Part(j, w, 0, 0) /\ Part(f, w, 1, 0) /\ Part(o, w, 1 + l, 0) /\ Enters(w, C, k, u, m, h, W)
        /\ Len(w.code) = 1 + Len(a.code.code) + Len(o.code) /\ k + Len(w.code) < Len(C) /\ OnTrack(m \o a.runs, W)
        /\ Lands(C, q, Offset(C, k + Len(w.code) + 1) + n)
    BY <1>3, <1>4, <1>5
  <2> HIDE DEF w
  <2>3. Enters(j, C, k, u, m, h, W)
    <3>1. Enters(j, C, k + 0, u, m, h, W)
      BY <2>2, EntersTop
    <3> QED
      BY <2>1, <3>1
  <2>4. Leads(C, {Place(k + 1, u, a.before, m, b)}, {Place(k + 2, u, a.before, m, t)}, h, W)
    BY <2>1, <2>3, DestGoes
  <2>5. t \in Books /\ Spent(t, x) = Spent(b, y.cost)
    <3>1. 1 \in Int /\ x \in Int /\ y.cost = 1 + x
      BY <1>1, <1>4
    <3> HIDE DEF x
    <3> QED
      BY <3>1, SpentTwice
  <2> HIDE DEF t
  <2>6. Leads(C, {Place(k + 2, u, a.before, m, t)},
               {Place(IF a.halts THEN 0 ELSE q, u, a.after, m \o a.runs, Spent(t, x))}, h, W)
    <3>1. Leads(C, {Place(k + 1 + 1, u, a.before, m, t)},
               {Place(IF a.halts THEN 0 ELSE q, u, a.after, m \o a.runs, Spent(t, x))}, h, W)
      BY <1>5, <2>1, <2>2, <2>5, ArmGoes
    <3> QED
      BY <2>1, <3>1
  <2> QED
    BY <1>4, <2>4, <2>5, <2>6, LeadsOn
<1>6. ASSUME NEW C, NEW k, NEW u, NEW m, NEW h, NEW W, NEW b, NEW q
      PROVE  Arrives(y, C, k, u, m, h, W, b, q)
  BY <1>5 DEF Arrives
<1>7. Reaches(y)
  BY <1>3, <1>4, <1>6 DEF Reaches
<1> QED
  BY <1>3, <1>7

\* The outermost rung, with the JUMPDEST that all of them jump to.
LEMMA TopRuns ==
  ASSUME NEW x \in Pieces, NEW y, Reaches(y), y.far = 0, x.code = Concat(y.code, Op("JUMPDEST")),
         x.before = y.before, x.after = y.after, x.runs = y.runs, x.items = <<>>, x.halts = y.halts, ~x.open,
         x.cost = y.cost + (IF y.halts THEN 0 ELSE 1)
  PROVE  RunsThrough(x)
<1> DEFINE j == Op("JUMPDEST")
           f == y.code
           l == Len(f.code)
<1>1. /\ f \in Codes /\ Balance(f) = 0 /\ l \in Nat /\ y.cost \in Int /\ y.halts \in BOOLEAN
  BY RungIs DEF Reaches
<1>2. j \in Codes /\ Len(j.code) = 1 /\ Balance(j) = 0
  BY OpsAre DEF Used
<1>3. /\ x.code \in Codes /\ Balance(x.code) = 0 /\ Len(x.code.code) = l + 1
      /\ Part(f, x.code, 0, 0) /\ Part(j, x.code, l, 0)
  <2> HIDE DEF f, j, l
  <2>1. f \in Codes /\ j \in Codes /\ x.code = Concat(f, j)
    BY <1>1, <1>2 DEF f, j
  <2>2. /\ Concat(f, j) \in Codes /\ Len(Concat(f, j).code) = Len(f.code) + Len(j.code)
        /\ Balance(Concat(f, j)) = Balance(f) + Balance(j)
        /\ Part(f, Concat(f, j), 0, 0) /\ Part(j, Concat(f, j), Len(f.code), Balance(f))
    BY <2>1, PartsOfSum
  <2>3. Len(f.code) = l
    BY DEF l
  <2>4. Balance(f) = 0 /\ Balance(j) = 0 /\ Len(j.code) = 1 /\ 0 + 0 = 0
    BY <1>1, <1>2
  <2> QED
    BY <2>1, <2>2, <2>3, <2>4
<1>4. ASSUME NEW C, NEW k, NEW u, NEW m, NEW h, NEW W, NEW b \in Books, Comes(x, C, k, u, m, h, W)
      PROVE  Leads(C, {Place(k + 1, u, x.before, m, b)},
               {Place(Behind(x, k), u \o x.items, x.after, m \o x.runs, Spent(b, x.cost))}, h, W)
  <2> DEFINE w == x.code
             r == m \o y.runs
             s == Spent(b, y.cost)
             q == k + l
  <2>1. w \in Codes /\ Enters(w, C, k, u, m, h, W) /\ OnTrack(r, W) /\ Part(f, w, 0, 0) /\ Part(j, w, l, 0)
    BY <1>3, <1>4 DEF Comes
  <2> HIDE DEF w
  <2>2. k \in Nat /\ u \in Seq(Int) /\ m \in Seq(Int) /\ Enters(f, C, k + 0, u, m, h, W) /\ Enters(j, C, q, u, m, h, W)
    <3> HIDE DEF f, j, l
    <3> QED
      BY <2>1, EntersTop
  <2>3. k + 0 = k /\ q \in Nat /\ q + 1 = k + Len(y.code.code) + 1 /\ q + 2 = k + Len(x.code.code) + 1
        /\ u \o <<>> = u /\ k + l = q
    <3>1. l \in Nat /\ Len(x.code.code) = l + 1 /\ Len(y.code.code) = l
      BY <1>1, <1>3
    <3> HIDE DEF l
    <3>2. k + 0 = k /\ q \in Nat /\ q + 1 = k + l + 1 /\ q + 2 = k + (l + 1) + 1
      BY <2>2, <3>1
    <3> QED
      BY <2>2, <3>1, <3>2, NothingOnTop
  <2>4. y.runs \in Seq(Int) /\ r \in Seq(Int)
    BY <2>2, RungIs, OnTop DEF Reaches
  <2>5. s \in Books /\ Spent(s, 1) = Spent(b, y.cost + 1) /\ y.cost + 0 = y.cost
    BY <1>1, SpentTwice
  <2>6. Leads(C, {Place(k + 1, u, y.before, m, b)},
              {Place(IF y.halts THEN 0 ELSE q + 1, u, y.after, r, s)}, h, W)
    <3>1. q + 1 \in DOMAIN C /\ C[q + 1].op = "JUMPDEST"
      BY <2>2, DestThere
    <3>2. Lands(C, q + 1, Offset(C, k + Len(y.code.code) + 1) + y.far)
      <4>1. Offset(C, q + 1) \in Nat
        <5> HIDE DEF q, j
        <5> QED
          BY <1>2, <2>2, EntersIs
      <4>2. Offset(C, k + Len(y.code.code) + 1) + y.far = Offset(C, q + 1)
        <5> DEFINE o == Offset(C, q + 1)
        <5>1. o \in Nat /\ Offset(C, k + Len(y.code.code) + 1) = o
          BY <2>3, <4>1
        <5> HIDE DEF o
        <5>2. o + 0 = o
          BY <5>1
        <5> QED
          BY <5>1, <5>2 DEF o
      <4> QED
        BY <3>1, <4>2 DEF Lands
    <3>3. k + Len(y.code.code) < Len(C)
      <4>1. C \in Seq(Instruction)
        <5> HIDE DEF f
        <5> QED
          BY <1>1, <2>2, EntersIs
      <4>2. q + 1 <= Len(C) /\ Len(C) \in Nat
        BY <3>1, <4>1
      <4>3. k + Len(y.code.code) = q
        OBVIOUS
      <4> HIDE DEF q
      <4> QED
        BY <2>3, <4>2, <4>3
    <3>4. Enters(y.code, C, k, u, m, h, W)
      BY <2>2, <2>3
    <3> HIDE DEF q
    <3> QED
      BY <2>1, <3>1, <3>2, <3>3, <3>4, Reached
  <2>7. CASE y.halts
    <3>1. Behind(x, k) = 0
      BY <2>7 DEF Behind
    <3>2. x.cost = y.cost
      BY <2>5, <2>7
    <3> HIDE DEF q
    <3> QED
      BY <2>3, <2>6, <2>7, <3>1, <3>2
  <2>8. CASE ~y.halts
    <3>1. Behind(x, k) = q + 2
      BY <2>3, <2>8 DEF Behind
    <3>2. Enters(j, C, q, u, r, h, W)
      BY <2>1, <2>2, <2>4, EntersWith
    <3> HIDE DEF q, s, r
    <3>3. Leads(C, {Place(q + 1, u, y.after, r, s)}, {Place(q + 2, u, y.after, r, Spent(s, 1))}, h, W)
      BY <2>3, <2>5, <3>2, DestGoes
    <3>4. Leads(C, {Place(k + 1, u, y.before, m, b)}, {Place(q + 2, u, y.after, r, Spent(s, 1))}, h, W)
      BY <2>6, <2>8, <3>3, LeadsOn
    <3>5. Spent(s, 1) = Spent(b, x.cost)
      BY <2>5, <2>8
    <3> QED
      BY <2>3, <3>1, <3>4, <3>5 DEF r
  <2> QED
    BY <2>7, <2>8
<1>5. Len(x.items) = Balance(x.code)
  BY <1>3
<1> QED
  BY <1>4, <1>5 DEF RunsThrough

\* From the innermost rung outwards.
LEMMA Climbs ==
  ASSUME NEW n \in Nat, n > 0, NEW E, Reaches(E[n]), \A k \in 1..(n - 1) : Reaches(E[k + 1]) => Reaches(E[k])
  PROVE  Reaches(E[1])
<1> DEFINE T == {k \in Nat : k \in 1..n /\ Reaches(E[k])}
           t == Min(T)
<1>1. T \subseteq Nat /\ n \in T
  OBVIOUS
<1>2. t \in T /\ \A k \in T : t <= k
  BY <1>1, LeastNat
<1> HIDE DEF t
<1>3. t = 1
  <2> SUFFICES ASSUME t # 1 PROVE FALSE
    OBVIOUS
  <2>1. t - 1 \in 1..(n - 1) /\ (t - 1) + 1 = t /\ Reaches(E[t])
    BY <1>2
  <2>2. Reaches(E[t - 1])
    BY <2>1
  <2> QED
    BY <1>2, <2>1, <2>2
<1> QED
  BY <1>2, <1>3

\* A function that is defined from its last value down to its first exists.
LEMMA StepsExist ==
  ASSUME NEW n \in Nat, NEW V, NEW first \in V, NEW step \in [(1..n) \X V -> V]
  PROVE  \E g : AreSteps(g, n, V, first, step)
<1> DEFINE next == [p \in (1..n) \X V |-> step[<<n + 1 - p[1], p[2]>>]]
<1>1. next \in [(1..n) \X V -> V]
  <2> SUFFICES ASSUME NEW p \in (1..n) \X V PROVE step[<<n + 1 - p[1], p[2]>>] \in V
    OBVIOUS
  <2>1. n + 1 - p[1] \in 1..n /\ p[2] \in V
    OBVIOUS
  <2>2. <<n + 1 - p[1], p[2]>> \in (1..n) \X V
    BY <2>1
  <2> QED
    BY <2>2
<1>2. \A i \in 1..n, v \in V : next[<<i, v>>] = step[<<n + 1 - i, v>>]
  OBVIOUS
<1> HIDE DEF next
<1>3. PICK f : IsFold(f, n, V, first, next)
  BY <1>1, FoldExists
<1> DEFINE g == [i \in 1..(n + 1) |-> f[1..(n + 1 - i)]]
<1>4. \A s \in SUBSET (1..n) : f[s] \in V
  BY <1>3 DEF IsFold
<1>5. ASSUME NEW i \in 1..(n + 1) PROVE g[i] \in V
  <2>1. 1..(n + 1 - i) \in SUBSET (1..n)
    OBVIOUS
  <2> QED
    BY <1>4, <2>1
<1>6. g[n + 1] = first
  <2>1. f[{}] = first
    BY <1>3 DEF IsFold
  <2>2. n + 1 \in 1..(n + 1) /\ 1..(n + 1 - (n + 1)) = {}
    OBVIOUS
  <2> QED
    BY <2>1, <2>2
<1>7. ASSUME NEW i \in 1..n PROVE g[i] = step[<<i, g[i + 1]>>]
  <2> DEFINE k == n + 1 - i
  <2>1. k \in 1..n /\ k - 1 = n + 1 - (i + 1) /\ n + 1 - k = i /\ i \in 1..(n + 1) /\ i + 1 \in 1..(n + 1)
    OBVIOUS
  <2>2. g[i] = f[1..k] /\ g[i + 1] = f[1..(k - 1)]
    BY <2>1
  <2> HIDE DEF k, g
  <2>3. /\ 1..k \in SUBSET (1..n) /\ 1..(k - 1) \in SUBSET (1..n)
        /\ 1..k # {} /\ Max(1..k) = k /\ (1..k) \ {k} = 1..(k - 1)
    BY <2>1, Segments
  <2>4. f[1..k] = next[<<k, f[1..(k - 1)]>>] /\ f[1..(k - 1)] \in V
    BY <1>3, <1>4, <2>3 DEF IsFold
  <2>5. next[<<k, f[1..(k - 1)]>>] = step[<<i, f[1..(k - 1)]>>]
    BY <1>2, <2>1, <2>4
  <2> QED
    BY <2>2, <2>4, <2>5
<1>8. g \in [1..(n + 1) -> V]
  BY <1>5
<1> HIDE DEF g
<1>9. AreSteps(g, n, V, first, step)
  BY <1>6, <1>7, <1>8 DEF AreSteps
<1> QED
  BY <1>9

\* What each step keeps holds of every value.
LEMMA StepsKeep ==
  ASSUME NEW n \in Nat, NEW V, NEW g, g[n + 1] \in V, \A i \in 1..n : g[i + 1] \in V => g[i] \in V
  PROVE  \A i \in 1..(n + 1) : g[i] \in V
<1> SUFFICES ASSUME NEW j \in 1..(n + 1), g[j] \notin V PROVE FALSE
  OBVIOUS
<1> DEFINE T == {k \in 1..(n + 1) : \A i \in 1..(n + 1) : i >= k => g[i] \in V}
           t == Min(T)
<1>1. T \subseteq Nat /\ n + 1 \in T
  OBVIOUS
<1>2. t \in T /\ \A k \in T : t <= k
  <2> HIDE DEF T
  <2> QED
    BY <1>1, LeastNat
<1> HIDE DEF t
<1>3. j < t
  BY <1>2
<1>4. t - 1 \in 1..n /\ (t - 1) + 1 = t /\ g[t] \in V
  BY <1>2, <1>3
<1>5. g[t - 1] \in V
  BY <1>4
<1>6. t - 1 \in T
  <2>1. ASSUME NEW i \in 1..(n + 1), i >= t - 1 PROVE g[i] \in V
    <3>1. CASE i = t - 1
      BY <1>5, <3>1
    <3>2. CASE i # t - 1
      <4>1. i >= t
        BY <1>2, <2>1, <3>2
      <4> QED
        BY <1>2, <4>1
    <3> QED
      BY <3>1, <3>2
  <2> QED
    BY <1>4, <2>1
<1> QED
  BY <1>2, <1>4, <1>6

\* The fold that Rest is computed by exists, and sums the weights in their order.
LEMMA WeightsAdd ==
  ASSUME NEW n \in Nat, NEW w \in [1..n -> Nat]
  PROVE  /\ \E f : WeighedBy(f, w, n)
         /\ \A f : WeighedBy(f, w, n) => Weighed([k \in 0..n |-> f[1..k]], w, n)
<1> DEFINE next == [p \in (1..n) \X Nat |-> p[2] + w[p[1]]]
<1>1. next \in [(1..n) \X Nat -> Nat] /\ 0 \in Nat
  OBVIOUS
<1>2. \A i \in 1..n, v \in Nat : next[<<i, v>>] = v + w[i]
  OBVIOUS
<1> HIDE DEF next
<1>3. PICK f : IsFold(f, n, Nat, 0, next)
  BY <1>1, FoldExists
<1>4. WeighedBy(f, w, n)
  <2>1. ASSUME NEW s \in SUBSET (1..n), s # {}
        PROVE  next[<<Max(s), f[s \ {Max(s)}]>>] = f[s \ {Max(s)}] + w[Max(s)]
    <3>1. Max(s) \in 1..n /\ s \ {Max(s)} \in SUBSET (1..n)
      BY <2>1, GreatestNat
    <3> QED
      BY <1>2, <1>3, <3>1 DEF IsFold
  <2> QED
    BY <1>3, <2>1 DEF IsFold, WeighedBy
<1>5. ASSUME NEW g, WeighedBy(g, w, n) PROVE Weighed([k \in 0..n |-> g[1..k]], w, n)
  <2> DEFINE u == [k \in 0..n |-> g[1..k]]
  <2>1. \A s \in SUBSET (1..n) : g[s] = IF s = {} THEN 0 ELSE g[s \ {Max(s)}] + w[Max(s)]
    BY <1>5 DEF WeighedBy
  <2>2. u[0] = 0
    <3>1. 0 \in 0..n /\ 1..0 = {} /\ {} \in SUBSET (1..n)
      OBVIOUS
    <3> QED
      BY <2>1, <3>1
  <2>3. ASSUME NEW k \in 1..n PROVE u[k] = u[k - 1] + w[k]
    <3>1. /\ 1..k \in SUBSET (1..n) /\ 1..k # {} /\ Max(1..k) = k /\ (1..k) \ {k} = 1..(k - 1)
      BY Segments
    <3>2. g[1..k] = g[1..(k - 1)] + w[k]
      BY <2>1, <3>1
    <3>3. k \in 0..n /\ k - 1 \in 0..n
      OBVIOUS
    <3> QED
      BY <3>2, <3>3
  <2> HIDE DEF u
  <2>4. Weighed(u, w, n)
    BY <2>2, <2>3 DEF Weighed
  <2> QED
    BY <2>4 DEF u
<1>6. \A g : WeighedBy(g, w, n) => Weighed([k \in 0..n |-> g[1..k]], w, n)
  BY <1>5
<1> QED
  BY <1>4, <1>6

\* There is one such sum.
LEMMA WeightsAgree ==
  ASSUME NEW n \in Nat, NEW w \in [1..n -> Nat], NEW u, Weighed(u, w, n)
  PROVE  \A k \in 0..n : u[k] \in Nat /\ \A v : Weighed(v, w, n) => v[k] = u[k]
<1> DEFINE Good(k) == u[k] \in Nat /\ \A v : Weighed(v, w, n) => v[k] = u[k]
           bad == {k \in 0..n : ~Good(k)}
<1>1. Good(0)
  BY DEF Weighed
<1>2. ASSUME NEW k \in 1..n, Good(k - 1) PROVE Good(k)
  <2>1. u[k] = u[k - 1] + w[k] /\ w[k] \in Nat
    BY DEF Weighed
  <2>2. ASSUME NEW v, Weighed(v, w, n) PROVE v[k] = u[k]
    <3>1. v[k] = v[k - 1] + w[k] /\ v[k - 1] = u[k - 1]
      BY <1>2, <2>2 DEF Weighed
    <3> QED
      BY <2>1, <3>1
  <2> QED
    BY <1>2, <2>1, <2>2
<1> HIDE DEF Good
<1>3. bad = {}
  <2> SUFFICES ASSUME bad # {} PROVE FALSE
    OBVIOUS
  <2> DEFINE k == Min(bad)
  <2>1. k \in bad /\ \A j \in bad : k <= j
    <3>1. bad \subseteq Nat
      OBVIOUS
    <3> HIDE DEF bad
    <3> QED
      BY <3>1, LeastNat
  <2> HIDE DEF k
  <2>2. k \in 1..n /\ k - 1 \in 0..n
    BY <1>1, <2>1
  <2>3. Good(k - 1)
    BY <2>1, <2>2
  <2> QED
    BY <1>2, <2>1, <2>2, <2>3
<1> QED
  BY <1>3 DEF Good

\* The fields of a case have their types.
LEMMA CaseIs ==
  ASSUME NEW cases \in Seq(SwitchCases)
  PROVE  /\ Len(cases) \in Nat /\ DOMAIN cases = 1..Len(cases)
         /\ \A k \in 1..Len(cases) : /\ cases[k].condition \in Codes /\ Balance(cases[k].condition) = 1
                                     /\ cases[k].action \in Codes /\ Balance(cases[k].action) = 0
                                     /\ Length(cases[k].action) \in Nat /\ cases[k].terminating \in BOOLEAN
         /\ LegacyWeights(cases) \in [1..Len(cases) -> Nat] /\ EofWeights(cases) \in [1..Len(cases) -> Nat]
<1> DEFINE n == Len(cases)
<1>1. n \in Nat /\ DOMAIN cases = 1..n /\ \A k \in 1..n : cases[k] \in SwitchCases
  OBVIOUS
<1>2. ASSUME NEW k \in 1..n
      PROVE  /\ cases[k].condition \in Codes /\ Balance(cases[k].condition) = 1
             /\ cases[k].action \in Codes /\ Balance(cases[k].action) = 0
             /\ Length(cases[k].action) \in Nat /\ cases[k].terminating \in BOOLEAN
  <2> DEFINE c == cases[k]
  <2>1. c \in SwitchCases
    BY <1>1
  <2> HIDE DEF c
  <2>2. /\ c.condition \in Codes /\ Balance(c.condition) = 1 /\ c.action \in Codes /\ Balance(c.action) = 0
        /\ c.terminating \in BOOLEAN
    BY <2>1 DEF SwitchCases
  <2>3. Length(c.action) \in Nat
    BY <2>2, CodeIs
  <2> QED
    BY <2>2, <2>3 DEF c
<1> HIDE DEF n
<1>3. LegacyWeights(cases) \in [1..n -> Nat] /\ EofWeights(cases) \in [1..n -> Nat]
  BY <1>1, <1>2 DEF LegacyWeights, EofWeights, n
<1> QED
  BY <1>1, <1>2, <1>3 DEF n

\* The bytes in front are the sum of what each legacy action takes.
LEMMA LegacyRestIs ==
  ASSUME NEW cases \in Seq(SwitchCases)
  PROVE  \E u : Weighed(u, LegacyWeights(cases), Len(cases)) /\ u[Len(cases)] = LegacyRest(cases)
<1> DEFINE n == Len(cases)
           w == LegacyWeights(cases)
           Fold(g) == g = [s \in SUBSET (DOMAIN cases) |->
                             IF s = {} THEN 0 ELSE g[s \ {Max(s)}] + (Length(cases[Max(s)].action) + 6)]
           fold == CHOOSE g : Fold(g)
<1>1. n \in Nat /\ DOMAIN cases = 1..n /\ w \in [1..n -> Nat]
  BY CaseIs
<1>2. LegacyRest(cases) = fold[DOMAIN cases]
  BY DEF LegacyRest, Rest, FoldLeft, MapThenFoldSet
<1>3. ASSUME NEW s \in SUBSET (1..n), s # {}
      PROVE  w[Max(s)] = Length(cases[Max(s)].action) + 6
  <2>1. Max(s) \in 1..n
    BY <1>1, <1>3, GreatestNat
  <2> QED
    BY <2>1 DEF LegacyWeights
<1> HIDE DEF w
<1>4. PICK f : WeighedBy(f, w, n)
  <2> HIDE DEF n
  <2> QED
    BY <1>1, WeightsAdd
<1>5. Fold(f)
  BY <1>1, <1>3, <1>4 DEF WeighedBy
<1>6. Fold(fold)
  BY <1>5
<1> HIDE DEF fold
<1>7. WeighedBy(fold, w, n)
  BY <1>1, <1>3, <1>6 DEF WeighedBy
<1> DEFINE u == [k \in 0..n |-> fold[1..k]]
<1>8. Weighed(u, w, n)
  <2> HIDE DEF n
  <2> QED
    BY <1>1, <1>7, WeightsAdd
<1>9. u[n] = LegacyRest(cases)
  <2>1. n \in 0..n
    BY <1>1
  <2> QED
    BY <1>1, <1>2, <2>1
<1> HIDE DEF u
<1> QED
  BY <1>8, <1>9 DEF w

\* The bytes in front of one case more.
LEMMA LegacyRestAdds ==
  ASSUME NEW cases \in Seq(SwitchCases)
  PROVE  /\ LegacyRest(SubSeq(cases, 1, 0)) = 0 /\ SubSeq(cases, 1, Len(cases)) = cases
         /\ \A i \in 0..Len(cases) : LegacyRest(SubSeq(cases, 1, i)) \in Nat
         /\ \A i \in 1..Len(cases) :
               LegacyRest(SubSeq(cases, 1, i)) = LegacyRest(SubSeq(cases, 1, i - 1)) + LegacyWeights(cases)[i]
<1> DEFINE n == Len(cases)
           w == LegacyWeights(cases)
<1>1. n \in Nat /\ DOMAIN cases = 1..n /\ w \in [1..n -> Nat]
  BY CaseIs
<1>2. PICK u : Weighed(u, w, n)
  BY LegacyRestIs
<1>3. ASSUME NEW i \in 0..n
      PROVE  LegacyRest(SubSeq(cases, 1, i)) = u[i] /\ u[i] \in Nat
  <2> DEFINE s == SubSeq(cases, 1, i)
  <2>1. s \in Seq(SwitchCases) /\ Len(s) = i /\ \A k \in 1..i : s[k] = cases[k]
    BY <1>1, SubSeqProperties
  <2> HIDE DEF s
  <2>2. PICK v : Weighed(v, LegacyWeights(s), i) /\ v[i] = LegacyRest(s)
    BY <2>1, LegacyRestIs
  <2>3. LegacyWeights(s) \in [1..i -> Nat] /\ \A k \in 1..i : LegacyWeights(s)[k] = w[k]
    <3>1. LegacyWeights(s) \in [1..i -> Nat]
      BY <2>1, CaseIs
    <3>2. \A k \in 1..i : k \in 1..n
      BY <1>1
    <3> QED
      BY <2>1, <3>1, <3>2 DEF LegacyWeights
  <2>4. Weighed(u, LegacyWeights(s), i)
    <3>1. \A k \in 1..i : k \in 1..n
      BY <1>1
    <3> HIDE DEF w
    <3> QED
      BY <1>2, <2>3, <3>1 DEF Weighed
  <2>5. v[i] = u[i] /\ u[i] \in Nat
    <3>1. i \in 0..i /\ i \in Nat
      BY <1>1
    <3> QED
      BY <2>2, <2>3, <2>4, <3>1, WeightsAgree
  <2> QED
    BY <2>2, <2>5 DEF s
<1>4. u[0] = 0 /\ \A i \in 1..n : u[i] = u[i - 1] + w[i]
  BY <1>2 DEF Weighed
<1>5. SubSeq(cases, 1, n) = cases
  OBVIOUS
<1> HIDE DEF w, n
<1>6. 0 \in 0..n /\ \A i \in 1..n : i \in 0..n /\ i - 1 \in 0..n
  BY <1>1
<1>7. LegacyRest(SubSeq(cases, 1, 0)) = 0
  BY <1>3, <1>4, <1>6
<1>8. \A i \in 0..n : LegacyRest(SubSeq(cases, 1, i)) \in Nat
  BY <1>3
<1>9. \A i \in 1..n :
         LegacyRest(SubSeq(cases, 1, i)) = LegacyRest(SubSeq(cases, 1, i - 1)) + w[i]
  BY <1>3, <1>4, <1>6
<1> QED
  BY <1>5, <1>7, <1>8, <1>9 DEF w, n

\* The bytes in front are the sum of what each EOF action takes.
LEMMA EofRestIs ==
  ASSUME NEW cases \in Seq(SwitchCases)
  PROVE  \E u : Weighed(u, EofWeights(cases), Len(cases)) /\ u[Len(cases)] = EofRest(cases)
<1> DEFINE n == Len(cases)
           w == EofWeights(cases)
           Fold(g) == g = [s \in SUBSET (DOMAIN cases) |->
                             IF s = {} THEN 0 ELSE g[s \ {Max(s)}] + (Length(cases[Max(s)].action) + (IF cases[Max(s)].terminating THEN 0 ELSE 3))]
           fold == CHOOSE g : Fold(g)
<1>1. n \in Nat /\ DOMAIN cases = 1..n /\ w \in [1..n -> Nat]
  BY CaseIs
<1>2. EofRest(cases) = fold[DOMAIN cases]
  BY DEF EofRest, Rest, FoldLeft, MapThenFoldSet
<1>3. ASSUME NEW s \in SUBSET (1..n), s # {}
      PROVE  w[Max(s)] = Length(cases[Max(s)].action) + (IF cases[Max(s)].terminating THEN 0 ELSE 3)
  <2>1. Max(s) \in 1..n
    BY <1>1, <1>3, GreatestNat
  <2> QED
    BY <2>1 DEF EofWeights
<1> HIDE DEF w
<1>4. PICK f : WeighedBy(f, w, n)
  <2> HIDE DEF n
  <2> QED
    BY <1>1, WeightsAdd
<1>5. Fold(f)
  BY <1>1, <1>3, <1>4 DEF WeighedBy
<1>6. Fold(fold)
  BY <1>5
<1> HIDE DEF fold
<1>7. WeighedBy(fold, w, n)
  BY <1>1, <1>3, <1>6 DEF WeighedBy
<1> DEFINE u == [k \in 0..n |-> fold[1..k]]
<1>8. Weighed(u, w, n)
  <2> HIDE DEF n
  <2> QED
    BY <1>1, <1>7, WeightsAdd
<1>9. u[n] = EofRest(cases)
  <2>1. n \in 0..n
    BY <1>1
  <2> QED
    BY <1>1, <1>2, <2>1
<1> HIDE DEF u
<1> QED
  BY <1>8, <1>9 DEF w

\* The bytes in front of one case more.
LEMMA EofRestAdds ==
  ASSUME NEW cases \in Seq(SwitchCases)
  PROVE  /\ EofRest(SubSeq(cases, 1, 0)) = 0 /\ SubSeq(cases, 1, Len(cases)) = cases
         /\ \A i \in 0..Len(cases) : EofRest(SubSeq(cases, 1, i)) \in Nat
         /\ \A i \in 1..Len(cases) :
               EofRest(SubSeq(cases, 1, i)) = EofRest(SubSeq(cases, 1, i - 1)) + EofWeights(cases)[i]
<1> DEFINE n == Len(cases)
           w == EofWeights(cases)
<1>1. n \in Nat /\ DOMAIN cases = 1..n /\ w \in [1..n -> Nat]
  BY CaseIs
<1>2. PICK u : Weighed(u, w, n)
  BY EofRestIs
<1>3. ASSUME NEW i \in 0..n
      PROVE  EofRest(SubSeq(cases, 1, i)) = u[i] /\ u[i] \in Nat
  <2> DEFINE s == SubSeq(cases, 1, i)
  <2>1. s \in Seq(SwitchCases) /\ Len(s) = i /\ \A k \in 1..i : s[k] = cases[k]
    BY <1>1, SubSeqProperties
  <2> HIDE DEF s
  <2>2. PICK v : Weighed(v, EofWeights(s), i) /\ v[i] = EofRest(s)
    BY <2>1, EofRestIs
  <2>3. EofWeights(s) \in [1..i -> Nat] /\ \A k \in 1..i : EofWeights(s)[k] = w[k]
    <3>1. EofWeights(s) \in [1..i -> Nat]
      BY <2>1, CaseIs
    <3>2. \A k \in 1..i : k \in 1..n
      BY <1>1
    <3> QED
      BY <2>1, <3>1, <3>2 DEF EofWeights
  <2>4. Weighed(u, EofWeights(s), i)
    <3>1. \A k \in 1..i : k \in 1..n
      BY <1>1
    <3> HIDE DEF w
    <3> QED
      BY <1>2, <2>3, <3>1 DEF Weighed
  <2>5. v[i] = u[i] /\ u[i] \in Nat
    <3>1. i \in 0..i /\ i \in Nat
      BY <1>1
    <3> QED
      BY <2>2, <2>3, <2>4, <3>1, WeightsAgree
  <2> QED
    BY <2>2, <2>5 DEF s
<1>4. u[0] = 0 /\ \A i \in 1..n : u[i] = u[i - 1] + w[i]
  BY <1>2 DEF Weighed
<1>5. SubSeq(cases, 1, n) = cases
  OBVIOUS
<1> HIDE DEF w, n
<1>6. 0 \in 0..n /\ \A i \in 1..n : i \in 0..n /\ i - 1 \in 0..n
  BY <1>1
<1>7. EofRest(SubSeq(cases, 1, 0)) = 0
  BY <1>3, <1>4, <1>6
<1>8. \A i \in 0..n : EofRest(SubSeq(cases, 1, i)) \in Nat
  BY <1>3
<1>9. \A i \in 1..n :
         EofRest(SubSeq(cases, 1, i)) = EofRest(SubSeq(cases, 1, i - 1)) + w[i]
  BY <1>3, <1>4, <1>6
<1> QED
  BY <1>5, <1>7, <1>8, <1>9 DEF w, n

\* A way with its code is a rung.
LEMMA RungOfIs ==
  ASSUME NEW v \in Ways, NEW code \in Codes, NEW far \in Nat
  PROVE  RungOf(v, code, far) \in Rungs
BY DEF RungOf, Ways, Rungs

\* Its fields are those of the way.
LEMMA RungOfHas ==
  ASSUME NEW v, NEW code, NEW far
  PROVE  /\ RungOf(v, code, far).code = code /\ RungOf(v, code, far).far = far
         /\ RungOf(v, code, far).before = v.before /\ RungOf(v, code, far).after = v.after
         /\ RungOf(v, code, far).runs = v.runs /\ RungOf(v, code, far).cost = v.cost
         /\ RungOf(v, code, far).halts = v.halts
BY DEF RungOf

\* The rung around another one, after a no and after a yes.
LEMMA StepDown ==
  ASSUME NEW v \in Ways, NEW w, NEW c, NEW z, IsQuestion(c), Continues(v, c, w, z),
         NEW j, NEW t, NEW dest, AsksFor(j, c, t, z, dest), c.items[1] = 0,
         NEW d \in Codes, Balance(d) = 0, NEW l, NEW g \in Nat, NEW f \in Nat, g = Length(d) + f,
         NEW b, b = Join(<<j, l, d>>), b \in Codes, Reaches(RungOf(w, l, g))
  PROVE  Reaches(RungOf(v, b, f))
<1> DEFINE y == RungOf(v, b, f)
           e == RungOf(w, l, g)
<1>1. y \in Rungs /\ z \in Nat
  BY RungOfIs DEF AsksFor
<1>2. IsRung(y, c, e, z)
  <2>1. /\ e.before = w.before /\ e.after = w.after /\ e.runs = w.runs /\ e.cost = w.cost /\ e.halts = w.halts
        /\ y.before = v.before /\ y.after = v.after /\ y.runs = v.runs /\ y.cost = v.cost /\ y.halts = v.halts
    BY RungOfHas
  <2> HIDE DEF y, e
  <2>2. Continues(y, c, e, z)
    BY <2>1 DEF Continues
  <2> QED
    BY <1>1, <2>2 DEF IsRung
<1>3. y.code = Join(<<j, e.code, d>>) /\ e.far = Length(d) + y.far
  BY RungOfHas
<1>4. Reaches(e)
  OBVIOUS
<1> HIDE DEF y, e
<1>5. Reaches(y)
  BY <1>2, <1>3, <1>4, NoReaches
<1> QED
  BY <1>5 DEF y

\* The rung around an action, after a yes.
LEMMA StepUp ==
  ASSUME NEW v \in Ways, NEW w, NEW c, NEW z, IsQuestion(c), Continues(v, c, w, z),
         NEW d \in Codes, Balance(d) = 0, NEW j, NEW dest, AsksFor(j, c, Length(d), z, dest), c.items[1] # 0,
         NEW l, NEW f \in Nat, dest => Part(Op("JUMPDEST"), l, 0, 0),
         NEW b, b = Join(<<j, d, l>>), b \in Codes, Reaches(RungOf(w, l, f))
  PROVE  Reaches(RungOf(v, b, f))
<1> DEFINE y == RungOf(v, b, f)
           e == RungOf(w, l, f)
<1>1. y \in Rungs /\ z \in Nat
  BY RungOfIs DEF AsksFor
<1>2. IsRung(y, c, e, z)
  <2>1. /\ e.before = w.before /\ e.after = w.after /\ e.runs = w.runs /\ e.cost = w.cost /\ e.halts = w.halts
        /\ y.before = v.before /\ y.after = v.after /\ y.runs = v.runs /\ y.cost = v.cost /\ y.halts = v.halts
    BY RungOfHas
  <2> HIDE DEF y, e
  <2>2. Continues(y, c, e, z)
    BY <2>1 DEF Continues
  <2> QED
    BY <1>1, <2>2 DEF IsRung
<1>3. y.code = Join(<<j, d, e.code>>) /\ e.far = y.far /\ (dest => Part(Op("JUMPDEST"), e.code, 0, 0))
  BY RungOfHas
<1>4. Reaches(e)
  OBVIOUS
<1> HIDE DEF y, e
<1>5. Reaches(y)
  BY <1>2, <1>3, <1>4, YesReaches
<1> QED
  BY <1>5 DEF y

\* From the innermost code that runs out to the whole ladder.
LEMMA LadderReaches ==
  ASSUME NEW n, NEW L, NEW A, NEW J, NEW R, AreLayers(n, L, A, J, R),
         NEW q \in 0..n, NEW c, NEW w, NEW z, NEW dest, AreAsked(q, c, w, J, L, z, dest),
         \/ /\ q = n /\ (q > 0 => c[q].items[1] = 0)
            /\ Reaches(RungOf(w[q + 1], L[q + 1], R[q + 1]))
         \/ /\ q > 0 /\ c[q].items[1] # 0 /\ (dest => Part(Op("JUMPDEST"), A[q], 0, 0))
            /\ Reaches(RungOf(w[q + 1], A[q], R[q]))
  PROVE  Reaches(RungOf(w[1], L[1], R[1]))
<1> DEFINE E == [k \in 1..(q + 1) |-> RungOf(w[k], L[k], R[k])]
<1>1. /\ n \in Nat /\ q \in Nat /\ \A i \in 1..(n + 1) : L[i] \in Codes /\ R[i] \in Nat /\ Balance(L[i]) = 0
      /\ \A i \in 1..n : /\ A[i] \in Codes /\ Balance(A[i]) = 0 /\ R[i + 1] = Length(A[i]) + R[i]
                         /\ L[i] = Join(<<J[i], L[i + 1], A[i]>>)
  BY DEF AreLayers
<1>2. /\ \A k \in 1..(q + 1) : w[k] \in Ways
      /\ \A k \in 1..q : /\ IsQuestion(c[k]) /\ Continues(w[k], c[k], w[k + 1], z)
                         /\ AsksFor(J[k], c[k], Length(L[k + 1]), z, dest)
                         /\ k < q => c[k].items[1] = 0
  BY DEF AreAsked
<1>3. \A k \in 1..(q + 1) : E[k] = RungOf(w[k], L[k], R[k])
  OBVIOUS
<1> HIDE DEF E
<1>4. ASSUME NEW k \in 1..q, c[k].items[1] = 0, Reaches(E[k + 1])
      PROVE  Reaches(E[k])
  <2> DEFINE v == w[k]
             x == w[k + 1]
             d == A[k]
             l == L[k + 1]
             j == J[k]
             f == R[k]
             g == R[k + 1]
             b == L[k]
             o == c[k]
  <2>1. k \in 1..n /\ k \in 1..(n + 1) /\ k + 1 \in 1..(n + 1) /\ k \in 1..(q + 1) /\ k + 1 \in 1..(q + 1)
    BY <1>1
  <2>2. /\ v \in Ways /\ IsQuestion(o) /\ Continues(v, o, x, z) /\ AsksFor(j, o, Length(l), z, dest)
        /\ o.items[1] = 0
    BY <1>2, <1>4, <2>1
  <2>3. /\ d \in Codes /\ Balance(d) = 0 /\ g \in Nat /\ f \in Nat /\ g = Length(d) + f
        /\ b = Join(<<j, l, d>>) /\ b \in Codes
    BY <1>1, <2>1
  <2>4. Reaches(RungOf(x, l, g))
    BY <1>3, <1>4, <2>1
  <2>5. E[k] = RungOf(v, b, f)
    BY <1>3, <2>1
  <2> HIDE DEF v, x, d, l, j, f, g, b, o
  <2> QED
    BY <2>2, <2>3, <2>4, <2>5, StepDown
<1>5. ASSUME NEW m \in Nat, m > 0, m <= q + 1, Reaches(E[m]), \A k \in 1..(m - 1) : c[k].items[1] = 0
      PROVE  Reaches(RungOf(w[1], L[1], R[1]))
  <2>1. ASSUME NEW k \in 1..(m - 1), Reaches(E[k + 1]) PROVE Reaches(E[k])
    <3>1. k \in 1..q
      BY <1>1, <1>5
    <3> QED
      BY <1>4, <1>5, <2>1, <3>1
  <2>2. Reaches(E[1])
    BY <1>5, <2>1, Climbs
  <2>3. 1 \in 1..(q + 1)
    BY <1>1
  <2> QED
    BY <1>3, <2>2, <2>3
<1>6. CASE /\ q = n /\ (q > 0 => c[q].items[1] = 0)
           /\ Reaches(RungOf(w[q + 1], L[q + 1], R[q + 1]))
  <2>1. q + 1 \in Nat /\ q + 1 > 0 /\ q + 1 <= q + 1 /\ q + 1 \in 1..(q + 1) /\ (q + 1) - 1 = q
    BY <1>1
  <2>2. Reaches(E[q + 1])
    BY <1>3, <1>6, <2>1
  <2>3. ASSUME NEW k \in 1..((q + 1) - 1) PROVE c[k].items[1] = 0
    BY <1>1, <1>2, <1>6, <2>1
  <2> QED
    BY <1>5, <2>1, <2>2, <2>3
<1>7. CASE /\ q > 0 /\ c[q].items[1] # 0 /\ (dest => Part(Op("JUMPDEST"), A[q], 0, 0))
           /\ Reaches(RungOf(w[q + 1], A[q], R[q]))
  <2> DEFINE v == w[q]
             x == w[q + 1]
             d == L[q + 1]
             l == A[q]
             j == J[q]
             f == R[q]
             b == L[q]
             o == c[q]
  <2>1. q \in 1..n /\ q \in 1..(n + 1) /\ q + 1 \in 1..(n + 1) /\ q \in 1..(q + 1) /\ q \in 1..q /\ q <= q + 1
    BY <1>1, <1>7
  <2>2. /\ v \in Ways /\ IsQuestion(o) /\ Continues(v, o, x, z) /\ AsksFor(j, o, Length(d), z, dest)
        /\ o.items[1] # 0
    BY <1>2, <1>7, <2>1
  <2>3. /\ d \in Codes /\ Balance(d) = 0 /\ f \in Nat /\ b = Join(<<j, d, l>>) /\ b \in Codes
    BY <1>1, <2>1
  <2>4. Reaches(RungOf(x, l, f)) /\ (dest => Part(Op("JUMPDEST"), l, 0, 0))
    BY <1>7
  <2>5. E[q] = RungOf(v, b, f)
    BY <1>3, <2>1
  <2>6. Reaches(E[q])
    <3> HIDE DEF v, x, d, l, j, f, b, o
    <3> QED
      BY <2>2, <2>3, <2>4, <2>5, StepUp
  <2>7. \A k \in 1..(q - 1) : c[k].items[1] = 0
    BY <1>1, <1>2
  <2> QED
    BY <1>1, <1>5, <1>7, <2>1, <2>6, <2>7
<1> QED
  BY <1>6, <1>7

\* The fields of a layer.
LEMMA LayerIs ==
  ASSUME NEW extra \in Nat, NEW v \in LayersOf(extra)
  PROVE  /\ v.code \in Codes /\ Balance(v.code) = 0 /\ v.over \in Nat /\ Length(v.code) \in Nat
         /\ v.over = Length(v.code) + extra
<1>1. v.code \in Codes /\ Balance(v.code) = 0 /\ v.over \in Nat /\ v.over = Length(v.code) + extra
  BY DEF LayersOf
<1> QED
  BY <1>1, CodeIs

\* Code with the bytes to jump over is a layer.
LEMMA LayerMade ==
  ASSUME NEW extra \in Nat, NEW a \in Codes, Balance(a) = 0, NEW n, n = Length(a) + extra
  PROVE  [code |-> a, over |-> n] \in LayersOf(extra)
<1>1. Length(a) \in Nat
  BY CodeIs
<1> DEFINE l == Length(a)
<1> HIDE DEF l
<1>2. l \in Nat /\ n = l + extra
  BY <1>1 DEF l
<1>3. n \in Nat
  BY <1>2
<1> QED
  BY <1>3 DEF LayersOf

\* A jump over less than 256 bytes pushes one byte.
LEMMA ShortJump ==
  ASSUME NEW n \in Nat, n < 256
  PROVE  Length(JumpOver(n)) = 5
<1>1. IntSize[n] = 1
  <2>1. IntSize[n] = Width(IntSize, n)
    BY IntSizeIs
  <2> QED
    BY <2>1 DEF Width
<1>2. Length(Push(n)) = 2
  <2>1. Push(n) = PushN(1, n)
    BY <1>1 DEF Push
  <2>2. Length(PushN(1, n)) = 1 + 1
    BY PushAre
  <2> QED
    BY <2>1, <2>2
<1>3. Length(Ahead(n)) = 4
  <2>1. Length(Ahead(n)) = Length(Push(n)) + 2
    BY AheadIs
  <2> QED
    BY <1>2, <2>1
<1>4. Length(Call(Op("JUMP"), <<Ahead(n)>>)) = Length(Ahead(n)) + 1
  <2> DEFINE a == Ahead(n)
             t == Length(Ahead(n)) - 2 + n
  <2>1. Aims(a, t)
    BY AheadAims
  <2> HIDE DEF a, t
  <2>2. Length(Call(Op("JUMP"), <<a>>)) = Length(a) + 1
    BY <2>1, JumpIs, Zenon
  <2> QED
    BY <2>2 DEF a
<1>5. JumpOver(n) = Call(Op("JUMP"), <<Ahead(n)>>)
  BY DEF JumpOver, Ahead
<1> QED
  BY <1>3, <1>4, <1>5

\* An action with its jump takes six bytes more than the action when the jump is short.
LEMMA LegacyArmIs ==
  ASSUME NEW cases \in Seq(SwitchCases), NEW i \in 1..Len(cases)
  PROVE  /\ LegacyRest(SubSeq(cases, 1, i - 1)) \in Nat
         /\ LegacyArm(cases, i) \in Codes /\ Balance(LegacyArm(cases, i)) = 0
         /\ LegacyRest(SubSeq(cases, 1, i - 1)) + 3 < 256
            => Length(LegacyArm(cases, i)) = LegacyWeights(cases)[i]
<1> DEFINE r == LegacyRest(SubSeq(cases, 1, i - 1))
           o == JumpOver(r + 3)
           a == cases[i].action
           j == Op("JUMPDEST")
<1>1. r \in Nat
  <2>1. i - 1 \in 0..Len(cases)
    BY CaseIs
  <2> QED
    BY <2>1, LegacyRestAdds
<1>2. a \in Codes /\ Balance(a) = 0 /\ Length(a) \in Nat
  BY CaseIs
<1> HIDE DEF r
<1>3. r + 3 \in Int
  BY <1>1
<1>4. o \in Codes /\ Balance(o) = 0 /\ (r + 3 < 256 => Length(o) = 5)
  <2>1. r + 3 < 256 => Length(o) = 5
    <3>1. r + 3 \in Nat
      BY <1>1
    <3> QED
      BY <3>1, ShortJump
  <2> QED
    BY <1>3, <2>1, JumpOverIs
<1>5. j \in Codes /\ Length(j) = 1 /\ Balance(j) = 0
  BY OpsAre DEF Used
<1>6. LegacyArm(cases, i) = Join(<<j, a, o>>)
  BY DEF LegacyArm, r
<1>7. LegacyWeights(cases)[i] = Length(a) + 6
  BY DEF LegacyWeights
<1> HIDE DEF a, j, o
<1>8. /\ Join(<<j, a, o>>) \in Codes /\ Length(Join(<<j, a, o>>)) = Length(j) + Length(a) + Length(o)
      /\ Balance(Join(<<j, a, o>>)) = Balance(j) + Balance(a) + Balance(o)
  BY <1>2, <1>4, <1>5, ThreeParts
<1>9. Balance(Join(<<j, a, o>>)) = 0
  BY <1>2, <1>4, <1>5, <1>8
<1>10. r + 3 < 256 => Length(Join(<<j, a, o>>)) = Length(a) + 6
  BY <1>2, <1>4, <1>5, <1>8
<1> QED
  BY <1>1, <1>6, <1>7, <1>8, <1>9, <1>10 DEF r

\* A legacy layer around a layer is one.
LEMMA LegacyLayerIs ==
  ASSUME NEW cases \in Seq(SwitchCases), NEW i \in 1..Len(cases), NEW v \in LayersOf(3)
  PROVE  LegacyLayer(cases, i, v) \in LayersOf(3)
<1> DEFINE f == LegacyArm(cases, i)
           c == cases[i].condition
           a == JumpOverIf(v.over, c)
           d == v.code
           n == v.over + Length(a) + Length(f)
<1>1. f \in Codes /\ Balance(f) = 0 /\ Length(f) \in Nat
  BY LegacyArmIs, CodeIs
<1>2. c \in Codes /\ Balance(c) = 1
  BY CaseIs
<1>3. d \in Codes /\ Balance(d) = 0 /\ v.over \in Nat /\ Length(d) \in Nat /\ v.over = Length(d) + 3
  BY LayerIs
<1>4. a \in Codes /\ Balance(a) = 0 /\ Length(a) \in Nat
  <2>1. v.over \in Int
    BY <1>3
  <2> HIDE DEF c
  <2> QED
    BY <1>2, <2>1, JumpOverIfIs, Zenon
<1>5. LegacyLayer(cases, i, v) = [code |-> Join(<<a, d, f>>), over |-> n]
  BY DEF LegacyLayer
<1> HIDE DEF f, a, d
<1>6. /\ Join(<<a, d, f>>) \in Codes /\ Length(Join(<<a, d, f>>)) = Length(a) + Length(d) + Length(f)
      /\ Balance(Join(<<a, d, f>>)) = Balance(a) + Balance(d) + Balance(f)
  BY <1>1, <1>3, <1>4, ThreeParts
<1>7. Balance(Join(<<a, d, f>>)) = 0 /\ n = Length(Join(<<a, d, f>>)) + 3
  BY <1>1, <1>3, <1>4, <1>6
<1> HIDE DEF n
<1>8. [code |-> Join(<<a, d, f>>), over |-> n] \in LayersOf(3)
  <2> DEFINE w == Join(<<a, d, f>>)
  <2>1. 3 \in Nat /\ w \in Codes /\ Balance(w) = 0 /\ n = Length(w) + 3
    BY <1>6, <1>7
  <2> HIDE DEF w
  <2>2. [code |-> w, over |-> n] \in LayersOf(3)
    BY <2>1, LayerMade
  <2> QED
    BY <2>2 DEF w
<1> QED
  BY <1>5, <1>8

\* The layers that the legacy switch is defined by exist, and it is the first of them.
LEMMA LegacyLayersAre ==
  ASSUME NEW cases \in Seq(SwitchCases), NEW default \in Codes, Balance(default) = 0
  PROVE  \E g : /\ LegacyLayers(g, default, cases) /\ \A i \in 1..(Len(cases) + 1) : g[i] \in LayersOf(3)
                /\ SwitchLegacy(default, cases) = Concat(g[1].code, Op("JUMPDEST"))
<1> DEFINE n == Len(cases)
           V == LayersOf(3)
           d == LegacyLast(default, cases)
           first == [code |-> d, over |-> Length(d) + 3]
           step == [p \in (1..n) \X V |-> LegacyLayer(cases, p[1], p[2])]
           g == CHOOSE g : LegacyLayers(g, default, cases)
<1>1. n \in Nat /\ LegacyRest(cases) \in Nat
  <2>1. Len(cases) \in Nat
    BY CaseIs
  <2>2. SubSeq(cases, 1, Len(cases)) = cases /\ Len(cases) \in 0..Len(cases)
    BY <2>1, LegacyRestAdds
  <2> QED
    BY <2>1, <2>2, LegacyRestAdds
<1>2. d \in Codes /\ Balance(d) = 0
  <2> DEFINE o == JumpOver(LegacyRest(cases) + 3)
  <2>1. LegacyRest(cases) + 3 \in Int
    BY <1>1
  <2>2. o \in Codes /\ Balance(o) = 0
    BY <2>1, JumpOverIs
  <2>3. d = Concat(default, o)
    BY DEF LegacyLast
  <2> HIDE DEF o, d
  <2>4. Concat(default, o) \in Codes /\ Balance(Concat(default, o)) = Balance(default) + Balance(o)
    BY <2>2, PartsOfSum
  <2> QED
    BY <2>2, <2>3, <2>4
<1>3. first \in V
  <2> HIDE DEF d
  <2>1. 3 \in Nat
    OBVIOUS
  <2> QED
    BY <1>2, <2>1, LayerMade
<1>4. step \in [(1..n) \X V -> V]
  <2> HIDE DEF V
  <2> SUFFICES ASSUME NEW p \in (1..n) \X V PROVE LegacyLayer(cases, p[1], p[2]) \in V
    OBVIOUS
  <2>1. p[1] \in 1..n /\ p[2] \in V
    OBVIOUS
  <2> QED
    BY <2>1, LegacyLayerIs DEF V
<1>5. \A i \in 1..n, v \in V : step[<<i, v>>] = LegacyLayer(cases, i, v)
  <2> HIDE DEF V
  <2> QED
    OBVIOUS
<1> HIDE DEF step, V
<1>6. \E x : AreSteps(x, n, V, first, step)
  <2>1. n \in Nat
    BY <1>1
  <2> HIDE DEF n, first
  <2> QED
    BY <1>3, <1>4, <2>1, StepsExist
<1>7. PICK x : /\ x \in [1..(n + 1) -> V] /\ x[n + 1] = first
               /\ \A i \in 1..n : x[i] = step[<<i, x[i + 1]>>]
  BY <1>6 DEF AreSteps
<1>8. LegacyLayers(x, default, cases)
  <2>1. ASSUME NEW i \in 1..n
        PROVE  x[i] = LegacyLayer(cases, i, x[i + 1])
    <3>1. i + 1 \in 1..(n + 1)
      BY <1>1
    <3> QED
      BY <1>5, <1>7, <3>1
  <2>2. ASSUME NEW i \in 1..(n + 1)
        PROVE  x[i] = IF i > n THEN first ELSE LegacyLayer(cases, i, x[i + 1])
    <3>1. CASE i > n
      <4>1. i = n + 1
        BY <1>1, <3>1
      <4> QED
        BY <1>7, <3>1, <4>1
    <3>2. CASE ~(i > n)
      <4>1. i \in 1..n
        BY <1>1, <3>2
      <4> QED
        BY <2>1, <3>2, <4>1
    <3> QED
      BY <3>1, <3>2
  <2>3. x = [i \in 1..(n + 1) |-> IF i > n THEN first ELSE LegacyLayer(cases, i, x[i + 1])]
    BY <1>7, <2>2
  <2> QED
    BY <2>3 DEF LegacyLayers
<1>9. LegacyLayers(g, default, cases)
  BY <1>8
<1>10. SwitchLegacy(default, cases) = Concat(g[1].code, Op("JUMPDEST"))
  BY DEF SwitchLegacy, LegacyRest, LegacyLast, LegacyArm, LegacyLayer, LegacyLayers
<1> HIDE DEF g
<1>11. g[n + 1] \in V
  <2>1. n + 1 \in 1..(n + 1) /\ n + 1 > n
    BY <1>1
  <2>2. g[n + 1] = first
    BY <1>9, <2>1 DEF LegacyLayers
  <2> QED
    BY <1>3, <2>2
<1>12. ASSUME NEW i \in 1..n, g[i + 1] \in V PROVE g[i] \in V
  <2>1. i \in 1..(n + 1) /\ ~(i > n)
    BY <1>1
  <2>2. g[i] = LegacyLayer(cases, i, g[i + 1])
    BY <1>9, <2>1 DEF LegacyLayers
  <2> QED
    BY <1>12, <2>2, LegacyLayerIs DEF V
<1>13. \A i \in 1..(n + 1) : g[i] \in V
  <2> HIDE DEF n
  <2> QED
    BY <1>1, <1>11, <1>12, StepsKeep
<1> QED
  BY <1>9, <1>10, <1>13 DEF V

\* An action takes three bytes more than it is long, or none if it is terminating.
LEMMA EofArmIs ==
  ASSUME NEW cases \in Seq(SwitchCases), NEW i \in 1..Len(cases)
  PROVE  /\ EofRest(SubSeq(cases, 1, i - 1)) \in Nat
         /\ EofArm(cases, i) \in Codes /\ Balance(EofArm(cases, i)) = 0
         /\ Length(EofArm(cases, i)) = EofWeights(cases)[i]
<1> DEFINE r == EofRest(SubSeq(cases, 1, i - 1))
           o == Data("RJUMP", r)
           a == cases[i].action
           t == cases[i].terminating
<1>1. r \in Nat
  <2>1. i - 1 \in 0..Len(cases)
    BY CaseIs
  <2> QED
    BY <2>1, EofRestAdds
<1>2. a \in Codes /\ Balance(a) = 0 /\ Length(a) \in Nat /\ t \in BOOLEAN
  BY CaseIs
<1>3. EofWeights(cases)[i] = Length(a) + (IF t THEN 0 ELSE 3)
  BY DEF EofWeights
<1>4. EofArm(cases, i) = IF t THEN a ELSE Concat(a, o)
  BY DEF EofArm
<1> HIDE DEF r
<1>5. o \in Codes /\ Balance(o) = 0 /\ Length(o) = 3
  <2>1. r \in Int
    BY <1>1
  <2> QED
    BY <2>1, OpsAre
<1> HIDE DEF a, t, o
<1>6. CASE t
  BY <1>1, <1>2, <1>3, <1>4, <1>6 DEF r
<1>7. CASE ~t
  <2>1. /\ Concat(a, o) \in Codes /\ Length(Concat(a, o)) = Length(a) + Length(o)
        /\ Balance(Concat(a, o)) = Balance(a) + Balance(o)
    BY <1>2, <1>5, PartsOfSum
  <2>2. Balance(Concat(a, o)) = 0 /\ Length(Concat(a, o)) = Length(a) + 3
    BY <1>2, <1>5, <2>1
  <2>3. EofArm(cases, i) = Concat(a, o) /\ EofWeights(cases)[i] = Length(a) + 3
    BY <1>3, <1>4, <1>7
  <2> QED
    BY <1>1, <2>1, <2>2, <2>3 DEF r
<1> QED
  BY <1>2, <1>6, <1>7

\* An EOF layer around a layer is one.
LEMMA EofLayerIs ==
  ASSUME NEW cases \in Seq(SwitchCases), NEW i \in 1..Len(cases), NEW v \in LayersOf(0)
  PROVE  EofLayer(cases, i, v) \in LayersOf(0)
<1> DEFINE f == EofArm(cases, i)
           c == cases[i].condition
           a == Call(Data("RJUMPI", v.over), <<c>>)
           d == v.code
           n == v.over + Length(a) + Length(f)
<1>1. f \in Codes /\ Balance(f) = 0 /\ Length(f) \in Nat
  BY EofArmIs, CodeIs
<1>2. c \in Codes /\ Balance(c) = 1
  BY CaseIs
<1>3. d \in Codes /\ Balance(d) = 0 /\ v.over \in Nat /\ Length(d) \in Nat /\ v.over = Length(d) + 0
  BY LayerIs
<1>4. a \in Codes /\ Balance(a) = 0 /\ Length(a) \in Nat
  <2>1. v.over \in Int
    BY <1>3
  <2>2. a \in Codes /\ Balance(a) = 0
    <3> HIDE DEF c
    <3> QED
      BY <1>2, <2>1, BranchIs, Zenon
  <2> QED
    BY <2>2, CodeIs
<1>5. EofLayer(cases, i, v) = [code |-> Join(<<a, d, f>>), over |-> n]
  BY DEF EofLayer
<1> HIDE DEF f, a, d
<1>6. /\ Join(<<a, d, f>>) \in Codes /\ Length(Join(<<a, d, f>>)) = Length(a) + Length(d) + Length(f)
      /\ Balance(Join(<<a, d, f>>)) = Balance(a) + Balance(d) + Balance(f)
  BY <1>1, <1>3, <1>4, ThreeParts
<1>7. Balance(Join(<<a, d, f>>)) = 0 /\ n = Length(Join(<<a, d, f>>)) + 0
  BY <1>1, <1>3, <1>4, <1>6
<1> HIDE DEF n
<1>8. [code |-> Join(<<a, d, f>>), over |-> n] \in LayersOf(0)
  <2> DEFINE w == Join(<<a, d, f>>)
  <2>1. 0 \in Nat /\ w \in Codes /\ Balance(w) = 0 /\ n = Length(w) + 0
    BY <1>6, <1>7
  <2> HIDE DEF w
  <2>2. [code |-> w, over |-> n] \in LayersOf(0)
    BY <2>1, LayerMade
  <2> QED
    BY <2>2 DEF w
<1> QED
  BY <1>5, <1>8

\* The layers that the EOF switch is defined by exist, and it is the first of them.
LEMMA EofLayersAre ==
  ASSUME NEW cases \in Seq(SwitchCases), NEW default \in Codes, Balance(default) = 0
  PROVE  \E g : /\ EofLayers(g, default, cases) /\ \A i \in 1..(Len(cases) + 1) : g[i] \in LayersOf(0)
                /\ SwitchEof(default, cases) = Concat(g[1].code, Op("JUMPDEST"))
<1> DEFINE n == Len(cases)
           V == LayersOf(0)
           d == EofLast(default, cases)
           first == [code |-> d, over |-> Length(d)]
           step == [p \in (1..n) \X V |-> EofLayer(cases, p[1], p[2])]
           g == CHOOSE g : EofLayers(g, default, cases)
<1>1. n \in Nat /\ EofRest(cases) \in Nat
  <2>1. Len(cases) \in Nat
    BY CaseIs
  <2>2. SubSeq(cases, 1, Len(cases)) = cases /\ Len(cases) \in 0..Len(cases)
    BY <2>1, EofRestAdds
  <2> QED
    BY <2>1, <2>2, EofRestAdds
<1>2. d \in Codes /\ Balance(d) = 0
  <2> DEFINE o == Data("RJUMP", EofRest(cases))
  <2>1. EofRest(cases) \in Int
    BY <1>1
  <2>2. o \in Codes /\ Balance(o) = 0
    BY <2>1, OpsAre
  <2>3. d = Concat(default, o)
    BY DEF EofLast
  <2> HIDE DEF o, d
  <2>4. Concat(default, o) \in Codes /\ Balance(Concat(default, o)) = Balance(default) + Balance(o)
    BY <2>2, PartsOfSum
  <2> QED
    BY <2>2, <2>3, <2>4
<1>3. first \in V
  <2> HIDE DEF d
  <2>1. 0 \in Nat /\ Length(d) \in Nat
    BY <1>2, CodeIs
  <2>2. Length(d) = Length(d) + 0
    BY <2>1
  <2> QED
    BY <1>2, <2>1, <2>2, LayerMade
<1>4. step \in [(1..n) \X V -> V]
  <2> HIDE DEF V
  <2> SUFFICES ASSUME NEW p \in (1..n) \X V PROVE EofLayer(cases, p[1], p[2]) \in V
    OBVIOUS
  <2>1. p[1] \in 1..n /\ p[2] \in V
    OBVIOUS
  <2> QED
    BY <2>1, EofLayerIs DEF V
<1>5. \A i \in 1..n, v \in V : step[<<i, v>>] = EofLayer(cases, i, v)
  <2> HIDE DEF V
  <2> QED
    OBVIOUS
<1> HIDE DEF step, V
<1>6. \E x : AreSteps(x, n, V, first, step)
  <2>1. n \in Nat
    BY <1>1
  <2> HIDE DEF n, first
  <2> QED
    BY <1>3, <1>4, <2>1, StepsExist
<1>7. PICK x : /\ x \in [1..(n + 1) -> V] /\ x[n + 1] = first
               /\ \A i \in 1..n : x[i] = step[<<i, x[i + 1]>>]
  BY <1>6 DEF AreSteps
<1>8. EofLayers(x, default, cases)
  <2>1. ASSUME NEW i \in 1..n
        PROVE  x[i] = EofLayer(cases, i, x[i + 1])
    <3>1. i + 1 \in 1..(n + 1)
      BY <1>1
    <3> QED
      BY <1>5, <1>7, <3>1
  <2>2. ASSUME NEW i \in 1..(n + 1)
        PROVE  x[i] = IF i > n THEN first ELSE EofLayer(cases, i, x[i + 1])
    <3>1. CASE i > n
      <4>1. i = n + 1
        BY <1>1, <3>1
      <4> QED
        BY <1>7, <3>1, <4>1
    <3>2. CASE ~(i > n)
      <4>1. i \in 1..n
        BY <1>1, <3>2
      <4> QED
        BY <2>1, <3>2, <4>1
    <3> QED
      BY <3>1, <3>2
  <2>3. x = [i \in 1..(n + 1) |-> IF i > n THEN first ELSE EofLayer(cases, i, x[i + 1])]
    BY <1>7, <2>2
  <2> QED
    BY <2>3 DEF EofLayers
<1>9. EofLayers(g, default, cases)
  BY <1>8
<1>10. SwitchEof(default, cases) = Concat(g[1].code, Op("JUMPDEST"))
  BY DEF SwitchEof, EofRest, EofLast, EofArm, EofLayer, EofLayers
<1> HIDE DEF g
<1>11. g[n + 1] \in V
  <2>1. n + 1 \in 1..(n + 1) /\ n + 1 > n
    BY <1>1
  <2>2. g[n + 1] = first
    BY <1>9, <2>1 DEF EofLayers
  <2> QED
    BY <1>3, <2>2
<1>12. ASSUME NEW i \in 1..n, g[i + 1] \in V PROVE g[i] \in V
  <2>1. i \in 1..(n + 1) /\ ~(i > n)
    BY <1>1
  <2>2. g[i] = EofLayer(cases, i, g[i + 1])
    BY <1>9, <2>1 DEF EofLayers
  <2> QED
    BY <1>12, <2>2, EofLayerIs DEF V
<1>13. \A i \in 1..(n + 1) : g[i] \in V
  <2> HIDE DEF n
  <2> QED
    BY <1>1, <1>11, <1>12, StepsKeep
<1> QED
  BY <1>9, <1>10, <1>13 DEF V

\* The way from an action on.
LEMMA ArmOf ==
  ASSUME NEW v \in Ways, NEW a, NEW n, NEW z, ActsAs(v, a, n, z), NEW code \in Codes, NEW far \in Nat
  PROVE  /\ IsArm(RungOf(v, code, far), a, n, z)
         /\ RungOf(v, code, far).code = code /\ RungOf(v, code, far).far = far
<1> DEFINE y == RungOf(v, code, far)
<1>1. /\ y.before = v.before /\ y.after = v.after /\ y.runs = v.runs /\ y.cost = v.cost /\ y.halts = v.halts
      /\ y.code = code /\ y.far = far /\ y \in Rungs
  BY RungOfHas, RungOfIs
<1> HIDE DEF y
<1>2. IsArm(y, a, n, z)
  BY <1>1 DEF IsArm, ActsAs
<1> QED
  BY <1>1, <1>2 DEF y

\* An action that ends the program and has no jump behind it.
LEMMA HaltReaches ==
  ASSUME NEW a, RunsThrough(a), Balance(a.code) = 0, a.halts, NEW n, NEW y, IsArm(y, a, n, 0), y.code = a.code
  PROVE  Reaches(y)
<1>1. /\ a.code \in Codes /\ a.items = <<>> /\ a.cost \in Int
  BY NoItems
<1>2. /\ y \in Rungs /\ y.before = a.before /\ y.after = a.after /\ y.runs = a.runs /\ y.halts /\ y.cost = a.cost
  BY <1>1 DEF IsArm, ActsAs
<1>3. ASSUME NEW C, NEW k, NEW u, NEW m, NEW h, NEW W, NEW b \in Books, NEW q,
             Enters(y.code, C, k, u, m, h, W), OnTrack(m \o y.runs, W), k + Len(y.code.code) < Len(C)
      PROVE  Leads(C, {Place(k + 1, u, y.before, m, b)},
                   {Place(IF y.halts THEN 0 ELSE q, u, y.after, m \o y.runs, Spent(b, y.cost))}, h, W)
  <2>1. Comes(a, C, k, u, m, h, W)
    BY <1>2, <1>3 DEF Comes
  <2>2. Leads(C, {Place(k + 1, u, a.before, m, b)},
               {Place(Behind(a, k), u \o a.items, a.after, m \o a.runs, Spent(b, a.cost))}, h, W)
    BY <2>1, Through
  <2>3. u \o a.items = u /\ Behind(a, k) = 0
    <3>1. u \in Seq(Int)
      BY <1>3 DEF Enters
    <3> QED
      BY <1>1, <3>1, NothingOnTop DEF Behind
  <2> QED
    BY <1>2, <2>2, <2>3
<1>4. ASSUME NEW C, NEW k, NEW u, NEW m, NEW h, NEW W, NEW b, NEW q
      PROVE  Arrives(y, C, k, u, m, h, W, b, q)
  BY <1>3 DEF Arrives
<1> QED
  BY <1>2, <1>4 DEF Reaches

\* What a switch asks are questions, no more than it has cases.
LEMMA AsksAre ==
  ASSUME NEW c, NEW w, NEW cases \in Seq(SwitchCases), NEW z, AsksInTurn(c, w, cases, z),
         \A k \in 1..Len(c) : RunsThrough(c[k])
  PROVE  /\ Len(c) \in Nat /\ Len(cases) \in Nat /\ Len(c) \in 0..Len(cases)
         /\ \A k \in 1..(Len(c) + 1) : w[k] \in Ways
         /\ \A k \in 1..Len(c) : /\ IsQuestion(c[k]) /\ Continues(w[k], c[k], w[k + 1], z)
                                 /\ k < Len(c) => c[k].items[1] = 0
                                 /\ c[k].code = cases[k].condition
<1>1. Len(c) \in Nat /\ Len(c) <= Len(cases) /\ Len(cases) \in Nat
  BY CaseIs DEF AsksInTurn
<1>2. ASSUME NEW k \in 1..Len(c) PROVE IsQuestion(c[k])
  <2>1. k \in 1..Len(cases)
    BY <1>1
  <2>2. Balance(cases[k].condition) = 1 /\ c[k].code = cases[k].condition /\ ~c[k].halts /\ ~c[k].open
    BY <2>1, CaseIs DEF AsksInTurn
  <2> QED
    BY <2>2 DEF IsQuestion
<1> QED
  BY <1>1, <1>2 DEF AsksInTurn

\* The whole of a switch, from its layers.
LEMMA LayersRun ==
  ASSUME NEW x \in Pieces, NEW n, NEW L, NEW A, NEW J, NEW R, AreLayers(n, L, A, J, R), R[1] = 0,
         NEW q \in 0..n, NEW c, NEW w, NEW z, NEW dest, AreAsked(q, c, w, J, L, z, dest),
         \/ /\ q = n /\ (q > 0 => c[q].items[1] = 0)
            /\ Reaches(RungOf(w[q + 1], L[q + 1], R[q + 1]))
         \/ /\ q > 0 /\ c[q].items[1] # 0 /\ (dest => Part(Op("JUMPDEST"), A[q], 0, 0))
            /\ Reaches(RungOf(w[q + 1], A[q], R[q])),
         AsItsWay(x, w[1]), x.code = Concat(L[1], Op("JUMPDEST"))
  PROVE  RunsThrough(x)
<1> DEFINE y == RungOf(w[1], L[1], R[1])
<1>1. Reaches(y)
  BY LadderReaches
<1>2. /\ y.before = w[1].before /\ y.after = w[1].after /\ y.runs = w[1].runs /\ y.cost = w[1].cost
      /\ y.halts = w[1].halts /\ y.code = L[1] /\ y.far = R[1]
  BY RungOfHas
<1> HIDE DEF y
<1>3. /\ y.far = 0 /\ x.code = Concat(y.code, Op("JUMPDEST"))
      /\ x.before = y.before /\ x.after = y.after /\ x.runs = y.runs /\ x.items = <<>> /\ x.halts = y.halts
      /\ ~x.open /\ x.cost = y.cost + (IF y.halts THEN 0 ELSE 1)
  BY <1>2 DEF AsItsWay
<1> QED
  BY <1>1, <1>3, TopRuns

\* A legacy switch runs the action of the first case that is true, or the default, and ends behind itself.
LEMMA SwitchLegacyRuns ==
  ASSUME NEW x \in Pieces, NEW c, NEW a, RunsThrough(a), \A k \in 1..Len(c) : RunsThrough(c[k]),
         NEW w, NEW default, NEW cases, IsSwitchLegacy(x, c, a, w, default, cases)
  PROVE  RunsThrough(x)
<1> DEFINE n == Len(cases)
           q == Len(c)
           Far(i) == LegacyRest(SubSeq(cases, 1, i - 1))
<1>1. /\ default \in Codes /\ Balance(default) = 0 /\ cases \in Seq(SwitchCases)
      /\ AsksInTurn(c, w, cases, 18) /\ AsItsWay(x, w[1]) /\ x.code = SwitchLegacy(default, cases)
      /\ \A i \in 1..n : Far(i) + 3 < 256
  BY DEF IsSwitchLegacy
<1>2. /\ q \in Nat /\ n \in Nat /\ q \in 0..n /\ \A k \in 1..(q + 1) : w[k] \in Ways
      /\ \A k \in 1..q : /\ IsQuestion(c[k]) /\ Continues(w[k], c[k], w[k + 1], 18)
                         /\ k < q => c[k].items[1] = 0
                         /\ c[k].code = cases[k].condition
  BY <1>1, AsksAre
<1>3. PICK g : /\ LegacyLayers(g, default, cases) /\ \A i \in 1..(n + 1) : g[i] \in LayersOf(3)
               /\ SwitchLegacy(default, cases) = Concat(g[1].code, Op("JUMPDEST"))
  BY <1>1, LegacyLayersAre
<1> DEFINE L == [i \in 1..(n + 1) |-> g[i].code]
           A == [i \in 1..n |-> LegacyArm(cases, i)]
           J == [i \in 1..n |-> JumpOverIf(g[i + 1].over, cases[i].condition)]
           R == [i \in 1..(n + 1) |-> Far(i)]
<1>4. \A i \in 1..(n + 1) : /\ L[i] = g[i].code /\ L[i] \in Codes /\ Balance(L[i]) = 0
                            /\ g[i].over = Length(L[i]) + 3 /\ Length(L[i]) \in Nat
  <2>1. 3 \in Nat
    OBVIOUS
  <2>2. \A i \in 1..(n + 1) : L[i] = g[i].code
    OBVIOUS
  <2> HIDE DEF L
  <2>3. ASSUME NEW i \in 1..(n + 1)
        PROVE  /\ g[i].code \in Codes /\ Balance(g[i].code) = 0 /\ Length(g[i].code) \in Nat
               /\ g[i].over = Length(g[i].code) + 3
    <3> DEFINE v == g[i]
    <3>1. v \in LayersOf(3)
      BY <1>3
    <3> HIDE DEF v
    <3>2. /\ v.code \in Codes /\ Balance(v.code) = 0 /\ Length(v.code) \in Nat /\ v.over = Length(v.code) + 3
      BY <2>1, <3>1, LayerIs
    <3> QED
      BY <3>2 DEF v
  <2> QED
    BY <2>2, <2>3
<1>5. \A i \in 1..n : /\ A[i] = LegacyArm(cases, i) /\ A[i] \in Codes /\ Balance(A[i]) = 0
                      /\ Length(A[i]) = LegacyWeights(cases)[i]
                      /\ J[i] = JumpOverIf(g[i + 1].over, cases[i].condition)
  <2>1. \A i \in 1..n : A[i] = LegacyArm(cases, i) /\ J[i] = JumpOverIf(g[i + 1].over, cases[i].condition)
    OBVIOUS
  <2> HIDE DEF A, J
  <2> QED
    BY <1>1, <2>1, LegacyArmIs
<1>6. ASSUME NEW i \in 1..n PROVE L[i] = Join(<<J[i], L[i + 1], A[i]>>)
  <2>1. i \in 1..(n + 1) /\ i + 1 \in 1..(n + 1) /\ ~(i > n)
    BY <1>2
  <2>2. g[i] = LegacyLayer(cases, i, g[i + 1])
    BY <1>3, <2>1 DEF LegacyLayers
  <2>3. g[i].code = Join(<<J[i], g[i + 1].code, A[i]>>)
    BY <1>5, <2>2 DEF LegacyLayer
  <2> QED
    BY <1>4, <2>1, <2>3
<1>7. L[n + 1] = LegacyLast(default, cases)
  <2>1. n + 1 \in 1..(n + 1) /\ n + 1 > n
    BY <1>2
  <2>2. g[n + 1].code = LegacyLast(default, cases)
    BY <1>3, <2>1 DEF LegacyLayers
  <2> QED
    BY <1>4, <2>1, <2>2
<1>8. /\ \A i \in 1..(n + 1) : R[i] = Far(i) /\ R[i] \in Nat
      /\ \A i \in 1..n : R[i + 1] = LegacyWeights(cases)[i] + R[i]
      /\ R[1] = 0 /\ R[n + 1] = LegacyRest(cases)
  <2>1. \A i \in 1..(n + 1) : R[i] = LegacyRest(SubSeq(cases, 1, i - 1)) /\ i - 1 \in 0..n
    BY <1>2
  <2>2. /\ LegacyRest(SubSeq(cases, 1, 0)) = 0 /\ SubSeq(cases, 1, n) = cases
        /\ \A i \in 0..n : LegacyRest(SubSeq(cases, 1, i)) \in Nat
        /\ \A i \in 1..n :
              LegacyRest(SubSeq(cases, 1, i)) = LegacyRest(SubSeq(cases, 1, i - 1)) + LegacyWeights(cases)[i]
    BY <1>1, LegacyRestAdds
  <2> HIDE DEF R
  <2>3. ASSUME NEW i \in 1..n PROVE R[i + 1] = LegacyWeights(cases)[i] + R[i]
    <3>1. i \in 1..(n + 1) /\ i + 1 \in 1..(n + 1) /\ (i + 1) - 1 = i /\ i - 1 \in 0..n /\ i \in 0..n
      BY <1>2
    <3>2. R[i + 1] = LegacyRest(SubSeq(cases, 1, i)) /\ R[i] = LegacyRest(SubSeq(cases, 1, i - 1))
      BY <2>1, <3>1
    <3> DEFINE s == LegacyRest(SubSeq(cases, 1, i - 1))
               v == LegacyWeights(cases)[i]
    <3>3. s \in Nat /\ v \in Nat /\ LegacyRest(SubSeq(cases, 1, i)) = s + v
      BY <1>1, <2>2, <3>1, CaseIs
    <3> HIDE DEF s, v
    <3>4. s + v = v + s
      BY <3>3
    <3> QED
      BY <3>2, <3>3, <3>4 DEF s, v
  <2>4. 1 \in 1..(n + 1) /\ n + 1 \in 1..(n + 1) /\ 1 - 1 = 0 /\ (n + 1) - 1 = n
    BY <1>2
  <2>5. R[1] = 0 /\ R[n + 1] = LegacyRest(cases)
    BY <2>1, <2>2, <2>4
  <2> QED
    BY <2>1, <2>2, <2>3, <2>5
<1>9. L \in [1..(n + 1) -> Codes] /\ A \in [1..n -> Codes] /\ R \in [1..(n + 1) -> Nat]
  BY <1>4, <1>5, <1>8
<1> HIDE DEF L, A, J, R, n, q
<1>10. AreLayers(n, L, A, J, R)
  BY <1>2, <1>4, <1>5, <1>6, <1>8, <1>9 DEF AreLayers
<1>11. AreAsked(q, c, w, J, L, 18, TRUE)
  <2>1. ASSUME NEW k \in 1..q PROVE AsksFor(J[k], c[k], Length(L[k + 1]), 18, TRUE)
    <3>1. k \in 1..n /\ k + 1 \in 1..(n + 1)
      BY <1>2
    <3> DEFINE o == c[k]
               l == Length(L[k + 1])
    <3>2. IsQuestion(o) /\ l \in Nat /\ J[k] = JumpOverIf(l + 3, o.code)
      BY <1>2, <1>4, <1>5, <3>1
    <3> HIDE DEF o, l
    <3>3. AsksFor(J[k], o, l, 18, TRUE)
      BY <3>2, LegacyAsks
    <3> QED
      BY <3>3 DEF o, l
  <2> QED
    BY <1>2, <2>1 DEF AreAsked
<1>12. q + 1 \in 1..(q + 1) /\ w[q + 1] \in Ways /\ w[1] \in Ways
  <2>1. q + 1 \in 1..(q + 1) /\ 1 \in 1..(q + 1)
    BY <1>2
  <2> QED
    BY <1>2, <2>1
<1>13. AsItsWay(x, w[1]) /\ x.code = Concat(L[1], Op("JUMPDEST")) /\ R[1] = 0 /\ q \in 0..n
  <2>1. 1 \in 1..(n + 1)
    BY <1>2
  <2>2. L[1] = g[1].code
    BY <1>4, <2>1
  <2> QED
    BY <1>1, <1>2, <1>3, <1>8, <2>2
<1> DEFINE v == w[q + 1]
<1> HIDE DEF v
<1>14. \/ IsDefault(c, a, default, cases) /\ ActsAs(v, a, 16, 0)
       \/ IsChosen(c, a, cases) /\ ActsAs(v, a, 16, 1)
  BY DEF IsSwitchLegacy, v, q
<1>15. CASE IsDefault(c, a, default, cases) /\ ActsAs(v, a, 16, 0)
  <2> DEFINE r == LegacyRest(cases)
             o == JumpOver(r + 3)
             y == RungOf(v, L[n + 1], R[n + 1])
  <2>1. n + 1 \in 1..(n + 1)
    BY <1>2
  <2>2. r \in Nat /\ R[n + 1] = r /\ L[n + 1] = Concat(a.code, o) /\ L[n + 1] \in Codes /\ R[n + 1] \in Nat
        /\ Balance(a.code) = 0
    BY <1>1, <1>4, <1>7, <1>8, <1>15, <2>1 DEF LegacyLast, IsDefault
  <2>3. IsArm(y, a, 16, 0) /\ y.code = L[n + 1] /\ y.far = R[n + 1]
    BY <1>12, <1>15, <2>2, ArmOf DEF v
  <2> HIDE DEF r
  <2>4. Exits(o, r, 16)
    BY <2>2, LegacyExits
  <2> HIDE DEF y, o
  <2>5. y.code = Concat(a.code, o) /\ y.far = r
    BY <2>2, <2>3
  <2>6. Reaches(y)
    BY <2>2, <2>3, <2>4, <2>5, BaseReaches
  <2>7. q = n /\ (q > 0 => c[q].items[1] = 0) /\ Reaches(RungOf(w[q + 1], L[q + 1], R[q + 1]))
    BY <1>15, <2>6 DEF IsDefault, y, v, q, n
  <2> QED
    BY <1>10, <1>11, <1>13, <2>7, LayersRun, Zenon
<1>16. CASE IsChosen(c, a, cases) /\ ActsAs(v, a, 16, 1)
  <2> DEFINE r == R[q]
             o == JumpOver(r + 3)
             y == RungOf(v, A[q], R[q])
  <2>1. q > 0 /\ c[q].items[1] # 0 /\ a.code = cases[q].action
    BY <1>16 DEF IsChosen, q
  <2>2. q \in 1..n /\ q \in 1..(n + 1)
    BY <1>2, <2>1
  <2>3. r \in Nat /\ A[q] \in Codes /\ A[q] = Join(<<Op("JUMPDEST"), a.code, o>>) /\ Balance(a.code) = 0
    <3>1. Balance(cases[q].action) = 0
      BY <1>1, <2>2, CaseIs DEF n
    <3> QED
      BY <1>5, <1>8, <2>1, <2>2, <3>1 DEF LegacyArm
  <2>4. IsArm(y, a, 16, 1) /\ y.code = A[q] /\ y.far = r
    BY <1>12, <1>16, <2>3, ArmOf DEF v
  <2> HIDE DEF r
  <2>5. Exits(o, r, 16)
    BY <2>3, LegacyExits
  <2> HIDE DEF y, o
  <2>6. y.code = Join(<<Op("JUMPDEST"), a.code, o>>)
    BY <2>3, <2>4
  <2>7. Reaches(y) /\ Part(Op("JUMPDEST"), y.code, 0, 0)
    BY <2>3, <2>4, <2>5, <2>6, ArmReaches
  <2>8. /\ q > 0 /\ c[q].items[1] # 0 /\ (TRUE => Part(Op("JUMPDEST"), A[q], 0, 0))
        /\ Reaches(RungOf(w[q + 1], A[q], R[q]))
    BY <2>1, <2>4, <2>7 DEF y, v
  <2> QED
    BY <1>10, <1>11, <1>13, <2>8, LayersRun, Zenon
<1> QED
  BY <1>14, <1>15, <1>16

\* So does an EOF switch, whose terminating actions have no jump.
LEMMA SwitchEofRuns ==
  ASSUME NEW x \in Pieces, NEW c, NEW a, RunsThrough(a), \A k \in 1..Len(c) : RunsThrough(c[k]),
         NEW w, NEW default, NEW cases, IsSwitchEof(x, c, a, w, default, cases)
  PROVE  RunsThrough(x)
<1> DEFINE n == Len(cases)
           q == Len(c)
           Far(i) == EofRest(SubSeq(cases, 1, i - 1))
<1>1. /\ default \in Codes /\ Balance(default) = 0 /\ cases \in Seq(SwitchCases)
      /\ AsksInTurn(c, w, cases, 4) /\ AsItsWay(x, w[1]) /\ x.code = SwitchEof(default, cases)
  BY DEF IsSwitchEof
<1>2. /\ q \in Nat /\ n \in Nat /\ q \in 0..n /\ \A k \in 1..(q + 1) : w[k] \in Ways
      /\ \A k \in 1..q : /\ IsQuestion(c[k]) /\ Continues(w[k], c[k], w[k + 1], 4)
                         /\ k < q => c[k].items[1] = 0
                         /\ c[k].code = cases[k].condition
  BY <1>1, AsksAre
<1>3. PICK g : /\ EofLayers(g, default, cases) /\ \A i \in 1..(n + 1) : g[i] \in LayersOf(0)
               /\ SwitchEof(default, cases) = Concat(g[1].code, Op("JUMPDEST"))
  BY <1>1, EofLayersAre
<1> DEFINE L == [i \in 1..(n + 1) |-> g[i].code]
           A == [i \in 1..n |-> EofArm(cases, i)]
           J == [i \in 1..n |-> Call(Data("RJUMPI", g[i + 1].over), <<cases[i].condition>>)]
           R == [i \in 1..(n + 1) |-> Far(i)]
<1>4. \A i \in 1..(n + 1) : /\ L[i] = g[i].code /\ L[i] \in Codes /\ Balance(L[i]) = 0
                            /\ g[i].over = Length(L[i]) /\ Length(L[i]) \in Nat
  <2>1. 0 \in Nat
    OBVIOUS
  <2>2. \A i \in 1..(n + 1) : L[i] = g[i].code
    OBVIOUS
  <2> HIDE DEF L
  <2>3. ASSUME NEW i \in 1..(n + 1)
        PROVE  /\ g[i].code \in Codes /\ Balance(g[i].code) = 0 /\ Length(g[i].code) \in Nat
               /\ g[i].over = Length(g[i].code)
    <3> DEFINE v == g[i]
    <3>1. v \in LayersOf(0)
      BY <1>3
    <3> HIDE DEF v
    <3>2. /\ v.code \in Codes /\ Balance(v.code) = 0 /\ Length(v.code) \in Nat /\ v.over = Length(v.code) + 0
      BY <2>1, <3>1, LayerIs
    <3>3. v.over = Length(v.code)
      BY <3>2
    <3> QED
      BY <3>2, <3>3 DEF v
  <2> QED
    BY <2>2, <2>3
<1>5. \A i \in 1..n : /\ A[i] = EofArm(cases, i) /\ A[i] \in Codes /\ Balance(A[i]) = 0
                      /\ Length(A[i]) = EofWeights(cases)[i]
                      /\ J[i] = Call(Data("RJUMPI", g[i + 1].over), <<cases[i].condition>>)
  <2>1. \A i \in 1..n : A[i] = EofArm(cases, i) /\ J[i] = Call(Data("RJUMPI", g[i + 1].over), <<cases[i].condition>>)
    OBVIOUS
  <2> HIDE DEF A, J
  <2> QED
    BY <1>1, <2>1, EofArmIs
<1>6. ASSUME NEW i \in 1..n PROVE L[i] = Join(<<J[i], L[i + 1], A[i]>>)
  <2>1. i \in 1..(n + 1) /\ i + 1 \in 1..(n + 1) /\ ~(i > n)
    BY <1>2
  <2>2. g[i] = EofLayer(cases, i, g[i + 1])
    BY <1>3, <2>1 DEF EofLayers
  <2>3. g[i].code = Join(<<J[i], g[i + 1].code, A[i]>>)
    BY <1>5, <2>2 DEF EofLayer
  <2> QED
    BY <1>4, <2>1, <2>3
<1>7. L[n + 1] = EofLast(default, cases)
  <2>1. n + 1 \in 1..(n + 1) /\ n + 1 > n
    BY <1>2
  <2>2. g[n + 1].code = EofLast(default, cases)
    BY <1>3, <2>1 DEF EofLayers
  <2> QED
    BY <1>4, <2>1, <2>2
<1>8. /\ \A i \in 1..(n + 1) : R[i] = Far(i) /\ R[i] \in Nat
      /\ \A i \in 1..n : R[i + 1] = EofWeights(cases)[i] + R[i]
      /\ R[1] = 0 /\ R[n + 1] = EofRest(cases)
  <2>1. \A i \in 1..(n + 1) : R[i] = EofRest(SubSeq(cases, 1, i - 1)) /\ i - 1 \in 0..n
    BY <1>2
  <2>2. /\ EofRest(SubSeq(cases, 1, 0)) = 0 /\ SubSeq(cases, 1, n) = cases
        /\ \A i \in 0..n : EofRest(SubSeq(cases, 1, i)) \in Nat
        /\ \A i \in 1..n :
              EofRest(SubSeq(cases, 1, i)) = EofRest(SubSeq(cases, 1, i - 1)) + EofWeights(cases)[i]
    BY <1>1, EofRestAdds
  <2> HIDE DEF R
  <2>3. ASSUME NEW i \in 1..n PROVE R[i + 1] = EofWeights(cases)[i] + R[i]
    <3>1. i \in 1..(n + 1) /\ i + 1 \in 1..(n + 1) /\ (i + 1) - 1 = i /\ i - 1 \in 0..n /\ i \in 0..n
      BY <1>2
    <3>2. R[i + 1] = EofRest(SubSeq(cases, 1, i)) /\ R[i] = EofRest(SubSeq(cases, 1, i - 1))
      BY <2>1, <3>1
    <3> DEFINE s == EofRest(SubSeq(cases, 1, i - 1))
               v == EofWeights(cases)[i]
    <3>3. s \in Nat /\ v \in Nat /\ EofRest(SubSeq(cases, 1, i)) = s + v
      BY <1>1, <2>2, <3>1, CaseIs
    <3> HIDE DEF s, v
    <3>4. s + v = v + s
      BY <3>3
    <3> QED
      BY <3>2, <3>3, <3>4 DEF s, v
  <2>4. 1 \in 1..(n + 1) /\ n + 1 \in 1..(n + 1) /\ 1 - 1 = 0 /\ (n + 1) - 1 = n
    BY <1>2
  <2>5. R[1] = 0 /\ R[n + 1] = EofRest(cases)
    BY <2>1, <2>2, <2>4
  <2> QED
    BY <2>1, <2>2, <2>3, <2>5
<1>9. L \in [1..(n + 1) -> Codes] /\ A \in [1..n -> Codes] /\ R \in [1..(n + 1) -> Nat]
  BY <1>4, <1>5, <1>8
<1> HIDE DEF L, A, J, R, n, q
<1>10. AreLayers(n, L, A, J, R)
  BY <1>2, <1>4, <1>5, <1>6, <1>8, <1>9 DEF AreLayers
<1>11. AreAsked(q, c, w, J, L, 4, FALSE)
  <2>1. ASSUME NEW k \in 1..q PROVE AsksFor(J[k], c[k], Length(L[k + 1]), 4, FALSE)
    <3>1. k \in 1..n /\ k + 1 \in 1..(n + 1)
      BY <1>2
    <3> DEFINE o == c[k]
               l == Length(L[k + 1])
    <3>2. IsQuestion(o) /\ l \in Nat /\ J[k] = Call(Data("RJUMPI", l), <<o.code>>)
      BY <1>2, <1>4, <1>5, <3>1
    <3> HIDE DEF o, l
    <3>3. AsksFor(J[k], o, l, 4, FALSE)
      BY <3>2, EofAsks
    <3> QED
      BY <3>3 DEF o, l
  <2> QED
    BY <1>2, <2>1 DEF AreAsked
<1>12. q + 1 \in 1..(q + 1) /\ w[q + 1] \in Ways /\ w[1] \in Ways
  <2>1. q + 1 \in 1..(q + 1) /\ 1 \in 1..(q + 1)
    BY <1>2
  <2> QED
    BY <1>2, <2>1
<1>13. AsItsWay(x, w[1]) /\ x.code = Concat(L[1], Op("JUMPDEST")) /\ R[1] = 0 /\ q \in 0..n
  <2>1. 1 \in 1..(n + 1)
    BY <1>2
  <2>2. L[1] = g[1].code
    BY <1>4, <2>1
  <2> QED
    BY <1>1, <1>2, <1>3, <1>8, <2>2
<1> DEFINE v == w[q + 1]
<1> HIDE DEF v
<1>14. /\ ActsAs(v, a, 2, 0)
       /\ \/ IsDefault(c, a, default, cases)
          \/ IsChosen(c, a, cases) /\ (cases[q].terminating => a.halts)
  BY DEF IsSwitchEof, v, q
<1>15. CASE IsDefault(c, a, default, cases)
  <2> DEFINE r == EofRest(cases)
             o == Data("RJUMP", r)
             y == RungOf(v, L[n + 1], R[n + 1])
  <2>1. n + 1 \in 1..(n + 1)
    BY <1>2
  <2>2. r \in Nat /\ R[n + 1] = r /\ L[n + 1] = Concat(a.code, o) /\ L[n + 1] \in Codes /\ R[n + 1] \in Nat
        /\ Balance(a.code) = 0
    BY <1>1, <1>4, <1>7, <1>8, <1>15, <2>1 DEF EofLast, IsDefault
  <2>3. IsArm(y, a, 2, 0) /\ y.code = L[n + 1] /\ y.far = R[n + 1]
    BY <1>12, <1>14, <2>2, ArmOf DEF v
  <2> HIDE DEF r
  <2>4. Exits(o, r, 2)
    BY <2>2, EofExits
  <2> HIDE DEF y, o
  <2>5. y.code = Concat(a.code, o) /\ y.far = r
    BY <2>2, <2>3
  <2>6. Reaches(y)
    BY <2>2, <2>3, <2>4, <2>5, BaseReaches
  <2>7. q = n /\ (q > 0 => c[q].items[1] = 0) /\ Reaches(RungOf(w[q + 1], L[q + 1], R[q + 1]))
    BY <1>15, <2>6 DEF IsDefault, y, v, q, n
  <2> QED
    BY <1>10, <1>11, <1>13, <2>7, LayersRun, Zenon
<1>16. CASE IsChosen(c, a, cases) /\ (cases[q].terminating => a.halts)
  <2> DEFINE r == R[q]
             o == Data("RJUMP", r)
             y == RungOf(v, A[q], R[q])
  <2>1. q > 0 /\ c[q].items[1] # 0 /\ a.code = cases[q].action
    BY <1>16 DEF IsChosen, q
  <2>2. q \in 1..n /\ q \in 1..(n + 1)
    BY <1>2, <2>1
  <2>3. r \in Nat /\ A[q] \in Codes /\ Balance(a.code) = 0
        /\ A[q] = IF cases[q].terminating THEN a.code ELSE Concat(a.code, o)
    <3>1. Balance(cases[q].action) = 0
      BY <1>1, <2>2, CaseIs DEF n
    <3> QED
      BY <1>5, <1>8, <2>1, <2>2, <3>1 DEF EofArm
  <2>4. IsArm(y, a, 2, 0) /\ y.code = A[q] /\ y.far = r
    BY <1>12, <1>14, <2>3, ArmOf DEF v
  <2> HIDE DEF r
  <2>5. Exits(o, r, 2)
    BY <2>3, EofExits
  <2> HIDE DEF y, o
  <2>6. ASSUME cases[q].terminating PROVE Reaches(y)
    <3>1. a.halts /\ y.code = a.code
      BY <1>16, <2>3, <2>4, <2>6
    <3> QED
      BY <2>3, <2>4, <3>1, HaltReaches
  <2>7. ASSUME ~cases[q].terminating PROVE Reaches(y)
    <3>1. y.code = Concat(a.code, o)
      BY <2>3, <2>4, <2>7
    <3> QED
      BY <2>3, <2>4, <2>5, <3>1, BaseReaches
  <2>8. /\ q > 0 /\ c[q].items[1] # 0 /\ (FALSE => Part(Op("JUMPDEST"), A[q], 0, 0))
        /\ Reaches(RungOf(w[q + 1], A[q], R[q]))
    BY <2>1, <2>6, <2>7 DEF y, v
  <2> QED
    BY <1>10, <1>11, <1>13, <2>8, LayersRun, Zenon
<1> QED
  BY <1>14, <1>15, <1>16

\* Structured code, however deeply it is nested, runs through wherever it stands.
LEMMA StructuredRuns ==
  ASSUME NEW x \in Structured
  PROVE  RunsThrough(x)
<1> DEFINE P == {y \in Pieces : RunsThrough(y)}
<1>1. HasSmallest(P)
  <2> SUFFICES ASSUME NEW y \in Pieces,
                      \/ IsNothing(y) \/ IsStop(y)
                      \/ \E o, mark : IsChunk(y, o, mark) \/ IsCondition(y, o, mark)
                      \/ \E z, n : IsPush(y, z, n)
               PROVE  RunsThrough(y)
    BY DEF HasSmallest
  <2> QED
    BY NothingRuns, StopRuns, ChunkRuns, ConditionRuns, PushRuns
<1>2. HasSums(P)
  <2> SUFFICES ASSUME NEW y \in Pieces, NEW a \in P,
                      (\E b \in P : IsSum(y, a, b)) \/ (\E d : IsCut(y, a, d))
               PROVE  RunsThrough(y)
    BY DEF HasSums
  <2> QED
    BY SumRuns, CutRuns
<1>3. HasConditionals(P)
  <2> SUFFICES ASSUME NEW y \in Pieces, NEW c \in P, NEW a \in P, NEW d,
                      \/ IsThen(y, c, a, d) \/ IsElse(y, c, a, d)
                      \/ IsThenEof(y, c, a, d) \/ IsElseEof(y, c, a, d)
               PROVE  RunsThrough(y)
    BY DEF HasConditionals
  <2> QED
    BY ThenRuns, ElseRuns, ThenEofRuns, ElseEofRuns
<1>4. HasLoops(P)
  <2> SUFFICES ASSUME NEW y \in Pieces, NEW b \in P,
                      \/ \E c \in P : IsLastTurn(y, b, c) \/ \E z \in P : IsTurn(y, b, c, z)
                      \/ \E d : IsCutTurn(y, b, d)
               PROVE  RunsThrough(y)
    BY DEF HasLoops
  <2> QED
    BY LastTurnRuns, TurnRuns, CutTurnRuns
<1>5. HasSwitches(P)
  <2> SUFFICES ASSUME NEW y \in Pieces, NEW a \in P, NEW c, NEW w, NEW default, NEW cases,
                      \A k \in 1..Len(c) : c[k] \in P,
                      \/ IsSwitchLegacy(y, c, a, w, default, cases)
                      \/ IsSwitchEof(y, c, a, w, default, cases)
               PROVE  RunsThrough(y)
    BY DEF HasSwitches
  <2>1. RunsThrough(a) /\ \A k \in 1..Len(c) : RunsThrough(c[k])
    OBVIOUS
  <2> QED
    BY <2>1, SwitchLegacyRuns, SwitchEofRuns
<1>6. P \in SUBSET Pieces
  OBVIOUS
<1> HIDE DEF P
<1>7. x \in P
  BY <1>1, <1>2, <1>3, <1>4, <1>5, <1>6 DEF Structured
<1> QED
  BY <1>7 DEF P

\* The fields of a place.
LEMMA PlaceIs ==
  ASSUME NEW p, NEW s, NEW f, NEW m, NEW b
  PROVE  /\ Place(p, s, f, m, b).ip = p /\ Place(p, s, f, m, b).stack = s /\ Place(p, s, f, m, b).left = f
         /\ Place(p, s, f, m, b).marks = m /\ Place(p, s, f, m, b).books = b
BY DEF Place

\* What ran in order is a prefix of what should run.
LEMMA TrackIsPrefix ==
  ASSUME NEW m \in Seq(Int), NEW W \in Seq(Int), OnTrack(m, W)
  PROVE  IsPrefix(m, W)
<1> DEFINE n == Len(m)
           l == Len(W)
<1>1. n \in Nat /\ l \in Nat /\ DOMAIN W = 1..l /\ DOMAIN m = 1..n
  OBVIOUS
<1>2. \A k \in 1..n : k \in 1..l /\ m[k] = W[k]
  BY <1>1 DEF OnTrack
<1>3. n <= l
  <2> HIDE DEF n, l
  <2>1. CASE n = 0
    BY <1>1, <2>1
  <2>2. CASE n # 0
    <3>1. n \in 1..n
      BY <1>1, <2>2
    <3>2. n \in 1..l
      BY <1>2, <3>1
    <3> QED
      BY <1>1, <3>2
  <2> QED
    BY <2>1, <2>2
<1>4. SubSeq(m, 1, n) = m
  OBVIOUS
<1>5. SubSeq(W, 1, n) = m
  <2>1. 1..n \subseteq DOMAIN W
    BY <1>1, <1>2
  <2>2. SubSeq(W, 1, n) = [k \in 1..n |-> W[k]]
    BY <1>1, <1>3
  <2>3. m = [k \in 1..n |-> m[k]]
    BY <1>1
  <2> QED
    BY <1>2, <2>2, <2>3
<1> QED
  BY <1>3, <1>4, <1>5 DEF IsPrefix

\* What is known of a program that a piece of structured code writes.
LEMMA WritesIs ==
  ASSUME IInv, NEW x \in Structured, Writes(program, x)
  PROVE  /\ RunsThrough(x) /\ x \in Pieces /\ x.code \in Codes /\ program.code = x.code.code
         /\ program.code \in Seq(Instruction) /\ Takes_room(program.code)
         /\ program.stack \in Seq(Int) /\ Start \in Nat /\ StackLimit \in Nat
         /\ x.code.min \in Nat /\ x.code.max \in Nat /\ x.code.min <= x.code.max
         /\ Highest(x) \in Int /\ Start <= Highest(x) /\ Highest(x) <= StackLimit
         /\ Len(program.code) \in Nat /\ DOMAIN program.code = 1..Len(program.code)
<1>1. RunsThrough(x) /\ x \in Pieces /\ x.code \in Codes
  BY StructuredRuns, PieceIs DEF Structured
<1>2. x.code.code \in Seq(Instruction) /\ x.code.min \in Nat /\ x.code.max \in Nat /\ x.code.min <= x.code.max
  BY <1>1, CodesAre DEF Sound
<1>3. program.code = x.code.code /\ x.code.min <= Start /\ Start + x.code.max - x.code.min <= StackLimit
  BY DEF Writes, Start
<1>4. program.stack \in Seq(Int) /\ StackLimit \in Nat
  BY ProgramsAssumption DEF IInv
<1>5. Start \in Nat
  BY <1>4 DEF Start
<1>6. Takes_room(program.code)
  BY <1>1, <1>3 DEF Codes
<1> QED
  BY <1>1, <1>2, <1>3, <1>4, <1>5, <1>6 DEF Highest

\* A run starts on its course.
LEMMA InitCourses == Init => Courses
<1> SUFFICES ASSUME Init, NEW x \in Structured, Writes(program, x) PROVE OnCourse(x)
  BY DEF Courses
<1> DEFINE C == program.code
           u == program.stack
           W == x.runs
           h == Highest(x)
           m == <<>>
<1>1. /\ ip = 1 /\ stack = u /\ left = x.before /\ marks = <<>> /\ gas = 0 /\ memory = <<0, 0>>
      /\ result = Nothing /\ status = "running" /\ peak = Start
  BY DEF Init, Writes, Start
<1>2. Spot = Place(1, u, x.before, m, First)
  BY <1>1 DEF Spot, First
<1>3. /\ RunsThrough(x) /\ x \in Pieces /\ x.code \in Codes /\ C = x.code.code
      /\ C \in Seq(Instruction) /\ Takes_room(C) /\ u \in Seq(Int) /\ Start \in Nat
      /\ x.code.min \in Nat /\ x.code.max \in Nat /\ x.code.min <= x.code.max
      /\ h \in Int /\ Start <= h /\ Len(C) \in Nat /\ DOMAIN C = 1..Len(C)
  BY InitIInv, WritesIs
<1>4. First \in Books
  BY DEF First, Books, Nothing
<1>5. x.runs \in Seq(Int)
  BY <1>3, PieceIs
<1>6. m \o x.runs = x.runs /\ OnTrack(m \o x.runs, W) /\ OnTrack(m, W) /\ m \in Seq(Int)
  BY <1>5 DEF OnTrack
<1>7. Enters(x.code, C, 0, u, m, h, W)
  <2>1. Stands(x.code, C, 0)
    BY <1>3 DEF Stands
  <2>2. Len(u) = Start /\ x.code.min <= Start
    BY DEF Start, Writes
  <2>3. Spans(x.code, C, 0, Len(u), h)
    BY <1>3, <2>1, <2>2 DEF Spans, Highest
  <2> QED
    BY <1>3, <1>6, <2>3 DEF Enters
<1>8. Comes(x, C, 0, u, m, h, W)
  BY <1>6, <1>7 DEF Comes, Writes
<1>9. Leads(C, {Place(0 + 1, u, x.before, m, First)},
            {Place(Behind(x, 0), u \o x.items, x.after, m \o x.runs, Spent(First, x.cost))}, h, W)
  BY <1>3, <1>4, <1>8, Through
<1>10. Leads(C, {Spot}, Ends_(x), h, W)
  BY <1>2, <1>6, <1>9 DEF Ends_
<1>11. \E I : Closed(C, I, Ends_(x), h, W) /\ Spot \in I \union Ends_(x)
  BY <1>10, Zenon DEF Leads
<1> QED
  BY <1>1, <1>3, <1>11 DEF OnCourse

\* At the end of its course it has run what is written.
LEMMA AtTheEnd ==
  ASSUME IInv, NEW x \in Structured, Writes(program, x), Spot \in Ends_(x), ip \in Nat, ip # 0
  PROVE  /\ marks = x.runs /\ stack = program.stack \o x.items
         /\ status # "halted" => ip = Len(program.code) + 1 /\ ip \notin DOMAIN program.code
<1>1. Spot.ip = Behind(x, 0) /\ Spot.stack = program.stack \o x.items /\ Spot.marks = x.runs
  <2>1. Spot = Place(Behind(x, 0), program.stack \o x.items, x.after, x.runs, Spent(First, x.cost))
    BY DEF Ends_
  <2> DEFINE q == Behind(x, 0)
             v == program.stack \o x.items
             g == Spent(First, x.cost)
  <2>2. Spot = Place(q, v, x.after, x.runs, g)
    BY <2>1
  <2> HIDE DEF q, v, g
  <2>3. Spot.ip = q /\ Spot.stack = v /\ Spot.marks = x.runs
    BY <2>2, PlaceIs
  <2> QED
    BY <2>3 DEF q, v
<1>2. Len(program.code) \in Nat /\ DOMAIN program.code = 1..Len(program.code) /\ program.code = x.code.code
  BY WritesIs
<1> QED
  BY <1>1, <1>2, SpotIs DEF Behind

\* On its way no instruction can fail but for the gas.
LEMMA OnTheWay ==
  ASSUME IInv, NEW x \in Structured, Writes(program, x), status # "halted",
         Safe(program.code, Spot, Highest(x), x.runs)
  PROVE  /\ ip \in DOMAIN program.code /\ Now.op # "DATA" /\ Height >= Now.min
         /\ Height + Now.max - Now.min <= Highest(x)
         /\ Height - Now.pops + Now.pushes <= StackLimit
         /\ ~(Jumps /\ Dests(Top(1)) = {}) /\ ~(Moves /\ Places(Target_) = {})
<1> DEFINE C == program.code
           c == Spot
<1>1. c.ip = ip /\ c.stack = stack
  BY SpotIs
<1>2. C[c.ip] = Now /\ Offset(C, c.ip) = At(ip) /\ Len(c.stack) = Height
  BY <1>1 DEF Now, Offset, At, Height
<1>3. \A n : FromTop(c.stack, n) = Top(n)
  BY <1>1 DEF FromTop, Top
<1>4. \A n : DestsAt(C, n) = Dests(n) /\ PlacesAt(C, n) = Places(n)
  BY DEF DestsAt, Dests, PlacesAt, Places, Offset, At
<1>5. /\ ip \in DOMAIN C /\ Now.op # "DATA" /\ Height >= Now.min
      /\ Height + Now.max - Now.min <= Highest(x) /\ Follows(C, c) # {}
  BY <1>1, <1>2 DEF Safe
<1>6. Follows(C, c) = IF Jumps THEN Dests(Top(1)) ELSE IF Moves THEN Places(Target_) ELSE Follows(C, c)
  BY <1>1, <1>2, <1>3, <1>4 DEF Follows, Jumps, Moves, Target_
<1>7. ~(Jumps /\ Moves)
  BY DEF Jumps, Moves
<1>8. Height - Now.pops + Now.pushes <= StackLimit
  <2>1. Now \in Instruction /\ Plain(Now) /\ Height \in Int
    <3>1. \A p \in Programs : p.code \in Seq(Instruction) /\ \A k \in DOMAIN p.code : Plain(p.code[k])
      BY ProgramsAssumption
    <3>2. program \in Programs /\ Height \in Int
      BY TraceTypes DEF IInv, TypeOK
    <3>3. C \in Seq(Instruction) /\ Plain(C[ip])
      BY <1>5, <3>1, <3>2
    <3>4. C[ip] \in Instruction
      BY <1>5, <3>3
    <3> QED
      BY <3>2, <3>3, <3>4 DEF Now
  <2>2. /\ Now.pops \in Nat /\ Now.pushes \in Nat /\ Now.min \in Nat /\ Now.max \in Nat
        /\ Now.max >= Now.min - Now.pops + Now.pushes
    BY <2>1 DEF Instruction, Plain, AtLeast
  <2>3. Highest(x) \in Int /\ Highest(x) <= StackLimit /\ StackLimit \in Int
    BY WritesIs
  <2> QED
    BY <1>5, <2>1, <2>2, <2>3
<1> QED
  BY <1>5, <1>6, <1>7, <1>8

\* So it stops for the gas, or at the end.
LEMMA StopCourse ==
  ASSUME IInv, NEW x \in Structured, Writes(program, x), OnCourse(x), Stop
  PROVE  /\ status' \in {"outofgas", "end"}
         /\ status' = "end" => ip \notin DOMAIN program.code
<1>1. status = "running" /\ Fault # "none" /\ status' = Fault /\ ip \in Nat /\ ip # 0
  BY DEF Stop, Running, OnCourse
<1>2. PICK I : Closed(program.code, I, Ends_(x), Highest(x), x.runs) /\ Spot \in I \union Ends_(x)
  BY DEF OnCourse
<1>3. CASE Spot \in I
  <2>1. Safe(program.code, Spot, Highest(x), x.runs)
    BY <1>2, <1>3 DEF Closed
  <2>2. /\ ip \in DOMAIN program.code /\ Now.op # "DATA" /\ Height >= Now.min
        /\ Height - Now.pops + Now.pushes <= StackLimit
        /\ ~(Jumps /\ Dests(Top(1)) = {}) /\ ~(Moves /\ Places(Target_) = {})
    BY <1>1, <2>1, OnTheWay
  <2>3. ~(Height < Now.min) /\ ~(Height - Now.pops + Now.pushes > StackLimit)
    <3>1. Now \in Instruction /\ Height \in Int
      <4>1. program.code \in Seq(Instruction) /\ Height \in Int
        BY WritesIs, TraceTypes DEF TypeOK
      <4> QED
        BY <2>2, <4>1 DEF Now
    <3>2. Now.min \in Int /\ Now.pops \in Int /\ Now.pushes \in Int /\ StackLimit \in Int
      BY <3>1, WritesIs DEF Instruction
    <3> QED
      BY <2>2, <3>1, <3>2
  <2> QED
    BY <1>1, <2>2, <2>3 DEF Fault
<1>4. CASE Spot \in Ends_(x)
  <2>1. ip = Len(program.code) + 1 /\ ip \notin DOMAIN program.code /\ Len(program.code) \in Nat
    BY <1>1, <1>4, AtTheEnd, WritesIs
  <2>2. ip > Len(program.code)
    BY <2>1
  <2> QED
    BY <1>1, <2>1, <2>2 DEF Fault
<1> QED
  BY <1>2, <1>3, <1>4

\* A step keeps the run on its course.
LEMMA NextCourses ==
  ASSUME IInv, Courses, [Next]_vars
  PROVE  Courses'
<1>1. program' = program
  BY DEF Next, vars, Compute, Exchanges, Works, Asks, Jump, Move, FallThrough, Store, CodeCopy, Halt,
         Stop, Executes
<1> SUFFICES ASSUME NEW x \in Structured, Writes(program, x) PROVE OnCourse(x)'
  BY <1>1 DEF Courses
<1>2. OnCourse(x)
  BY DEF Courses
<1>3. Highest(x)' = Highest(x) /\ Ends_(x)' = Ends_(x) /\ Highest(x) \in Int
  BY <1>1, WritesIs DEF Highest, Ends_, Start
<1>4. PICK I : Closed(program.code, I, Ends_(x), Highest(x), x.runs) /\ Spot \in I \union Ends_(x)
  BY <1>2 DEF OnCourse
<1>5. ip \in Nat /\ ip # 0 /\ marks \in Seq(Int) /\ peak <= Highest(x) /\ status \in {"running", "halted", "outofgas", "end"}
  BY <1>2 DEF OnCourse
<1>6. CASE UNCHANGED vars
  <2>1. Spot' = Spot /\ ip' = ip /\ status' = status /\ peak' = peak /\ marks' = marks
    BY <1>6 DEF vars, machine, Spot, Place
  <2> QED
    BY <1>1, <1>2, <1>3, <2>1 DEF OnCourse
<1>7. CASE Stop
  <2>1. status' \in {"outofgas", "end"} /\ (status' = "end" => ip \notin DOMAIN program.code)
    BY <1>2, <1>7, StopCourse
  <2>2. status = "running" /\ UNCHANGED <<ip, stack, left, marks, gas, memory, result, peak>>
    BY <1>7 DEF Stop, Running
  <2>3. Spot' = Spot
    BY <2>1, <2>2 DEF Spot, Place
  <2> QED
    BY <1>1, <1>3, <1>4, <1>5, <2>1, <2>2, <2>3 DEF OnCourse
<1>8. CASE Next /\ ~Stop
  <2>1. status = "running"
    BY <1>8 DEF Next, Compute, Exchanges, Works, Asks, Jump, Move, FallThrough, Store, CodeCopy, Halt,
                Ready, Fetched, Running
  <2>2. program.code \in Seq(Instruction)
    BY WritesIs
  <2>3. /\ Spot' \in After(program.code, Spot) /\ Ready /\ Executes
        /\ status' \in {"running", "halted"} /\ ip' \in Nat /\ ip' # 0
    BY <1>5, <1>8, <2>1, <2>2, Followed
  <2>4. ip \in DOMAIN program.code
    BY <2>3 DEF Ready, Fetched
  <2>5. Spot \in I
    BY <1>4, <1>5, <2>1, <2>4, AtTheEnd
  <2>6. Spot' \in I \union Ends_(x) /\ Safe(program.code, Spot, Highest(x), x.runs)
    BY <1>4, <2>3, <2>5 DEF Closed
  <2>7. peak' <= Highest(x)
    <3>1. Height + Now.max - Now.min <= Highest(x)
      BY <2>1, <2>6, OnTheWay
    <3>2. peak' = AtLeast(peak, Height + Now.max - Now.min)
      BY <2>3 DEF Executes
    <3> QED
      BY <1>5, <3>1, <3>2 DEF AtLeast
  <2>8. marks' \in Seq(Int)
    <3>1. Now \in Instruction
      BY <2>2, <2>4 DEF Now
    <3>2. marks' = MarksAfter(program.code, Spot)
      BY <2>3 DEF After, Spot, Place
    <3>3. MarksAfter(program.code, Spot) = IF Now.op \in {"WORK", "COND"} THEN Append(marks, Now.arg) ELSE marks
      BY <2>1, SpotIs DEF MarksAfter, Now
    <3> QED
      BY <1>5, <3>1, <3>2, <3>3 DEF Instruction
  <2> QED
    BY <1>1, <1>3, <1>4, <2>3, <2>6, <2>7, <2>8 DEF OnCourse
<1> QED
  BY <1>6, <1>7, <1>8

\* On its course it runs as written and does what is declared.
LEMMA CoursesKeep ==
  ASSUME IInv, Courses, IsStructured(program)
  PROVE  RunsAsWritten /\ DeclaredIsTrue
<1>1. PICK x \in Structured : Writes(program, x)
  BY DEF IsStructured
<1>2. OnCourse(x)
  BY <1>1 DEF Courses
<1>3. PICK I : Closed(program.code, I, Ends_(x), Highest(x), x.runs) /\ Spot \in I \union Ends_(x)
  BY <1>2 DEF OnCourse
<1>4. /\ ip \in Nat /\ ip # 0 /\ peak <= Highest(x) /\ status \in {"running", "halted", "outofgas", "end"}
      /\ status = "end" => ip \notin DOMAIN program.code
  BY <1>2 DEF OnCourse
<1>5. /\ RunsThrough(x) /\ x \in Pieces /\ x.code \in Codes /\ program.stack \in Seq(Int)
      /\ DOMAIN program.code = 1..Len(program.code) /\ Start \in Nat
  BY <1>1, WritesIs
<1>6. Done => Spot \in Ends_(x)
  <2>1. Spot \in I => Spot.ip \in DOMAIN program.code
    BY <1>3 DEF Closed, Safe
  <2>2. 0 \notin DOMAIN program.code
    BY <1>5
  <2> QED
    BY <1>3, <1>4, <2>1, <2>2, SpotIs DEF Done
<1>7. Done => marks = x.runs /\ stack = program.stack \o x.items
  BY <1>1, <1>4, <1>6, AtTheEnd
<1>8. /\ program.wants = x.runs /\ ~program.endless /\ ~program.straight
      /\ program.measures = Nothing /\ program.deploys = Nothing
      /\ SameNumbers(program.declares, x.code) /\ x.code.min <= Start
  BY <1>1 DEF Writes, Start
<1>9. x.runs \in Seq(Int) /\ x.items \in Seq(Int) /\ Len(x.items) = Balance(x.code)
  BY <1>5, PieceIs DEF RunsThrough
<1>10. IsPrefix(marks, x.runs)
  <2>1. marks \in Seq(Int)
    BY <1>2 DEF OnCourse
  <2>2. CASE Spot \in Ends_(x)
    <3>1. marks = x.runs
      BY <1>1, <1>4, <2>2, AtTheEnd
    <3> QED
      BY <1>9, <3>1 DEF IsPrefix
  <2>3. CASE Spot \in I
    <3>1. OnTrack(marks, x.runs)
      BY <1>3, <2>3, SpotIs DEF Closed, Safe
    <3> QED
      BY <1>9, <2>1, <3>1, TrackIsPrefix
  <2> QED
    BY <1>3, <2>2, <2>3
<1>11. RunsAsWritten
  BY <1>4, <1>7, <1>8, <1>10 DEF RunsAsWritten, Measured
<1>12. DeclaredIsTrue
  <2>1. Len(program.stack \o x.items) = Start + (x.code.pushes - x.code.pops)
    <3> DEFINE v == x.items
               w == program.stack
    <3>1. v \in Seq(Int) /\ w \in Seq(Int) /\ Len(v) = x.code.pushes - x.code.pops
      BY <1>5, <1>9 DEF Balance
    <3> HIDE DEF v, w
    <3>2. Len(w \o v) = Len(w) + Len(v)
      BY <3>1, ConcatProperties, Zenon
    <3> QED
      BY <3>1, <3>2 DEF v, w, Start
  <2>2. x.code.pops \in Int /\ x.code.pushes \in Int
    BY <1>5, CodesAre
  <2>3. Done => Height = Start + (x.code.pushes - x.code.pops)
    BY <1>7, <2>1 DEF Height
  <2>4. Done => Height = Start - x.code.pops + x.code.pushes
    BY <1>5, <2>2, <2>3
  <2> QED
    BY <1>4, <1>8, <2>4 DEF DeclaredIsTrue, SameNumbers, Highest
<1> QED
  BY <1>11, <1>12

\* Code put together of chunks, conditions, pushes and stops by sums, Conditional and Switch, in
\* legacy code and in EOF, and While, nested in any way, runs as it is written, and on a stack of
\* its minimum it does what it declares: for any sizes, answers of the conditions and gas.  (A
\* legacy Switch counts six bytes for an action with its jump, so that jump has to push one byte;
\* a branch of EOF code that is said to be terminating has none, and has to halt.)
THEOREM StructuredRunsAsWritten ==
    Spec => [](IsStructured(program) => RunsAsWritten /\ DeclaredIsTrue)
  BY InitCourses, NextCourses, CoursesKeep, Invariance, PTL DEF Spec

=============================================================================
