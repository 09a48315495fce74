----------------------------- MODULE Generators -----------------------------
(***************************************************************************)
(* ethereum_test_tools/tools_code/generators.py and the repeated code of   *)
(* the benchmark generators: structured code out of bytecodes, with jumps  *)
(* whose distances are computed from the lengths of the parts.             *)
(***************************************************************************)
EXTENDS Bytecode

\* JUMP and JUMPI over a distance, counted from where PC was read.
JumpOver(n) == Call(Op("JUMP"), <<Call(Op("ADD"), <<Op("PC"), Push(n)>>)>>)
JumpOverIf(n, condition) ==
    Call(Op("JUMPI"), <<Call(Op("ADD"), <<Op("PC"), Push(n)>>), condition>>)
JumpBack(n) == Call(Op("SUB"), <<Op("PC"), PushN(4, n)>>)

\* Mutant: the jump over the true branch does not count the jump itself.
ConditionalLegacyShort(condition, if_true, if_false) ==
    LET yes == Concat(Op("JUMPDEST"), if_true)
        no == Concat(if_false, JumpOver(Length(yes)))
    IN  Join(<<JumpOverIf(Length(no) + 3, condition), no, yes, Op("JUMPDEST")>>)

ConditionalLegacy(condition, if_true, if_false) ==
    LET yes == Concat(Op("JUMPDEST"), if_true)
        no == Concat(if_false, JumpOver(Length(yes) + 3))
    IN  Join(<<JumpOverIf(Length(no) + 3, condition), no, yes, Op("JUMPDEST")>>)

ConditionalEof(condition, if_true, if_false) ==
    LET no == IF if_false.terminating THEN if_false
              ELSE Concat(if_false, Data("RJUMP", Length(if_true)))
    IN  Join(<<Call(Data("RJUMPI", Length(no)), <<condition>>), no, if_true>>)

WhileTrue(body, condition) ==
    Join(<<Op("JUMPDEST"), body,
           Call(Op("JUMPI"), <<JumpBack(Length(body) + Length(condition) + 6), condition>>)>>)
WhileForever(body) ==
    Join(<<Op("JUMPDEST"), body, Call(Op("JUMP"), <<JumpBack(Length(body) + 6)>>)>>)

\* A case is [condition, action, terminating].  The cases are wrapped around the
\* default action from the last to the first, the first one outermost; after
\* each is left to skip the actions of the cases still to come.
Rest(cases, Skips(_)) == FoldLeft(LAMBDA n, c : n + Skips(c), 0, cases)

SwitchLegacy(default, cases) ==
    LET Skips(c) == Length(c.action) + 6
        first == Concat(default, JumpOver(Rest(cases, Skips) + 3))
        layer[i \in 1..(Len(cases) + 1)] ==
            IF i > Len(cases) THEN [code |-> first, over |-> Length(first) + 3]
            ELSE LET inner == layer[i + 1]
                     action == Join(<<Op("JUMPDEST"), cases[i].action,
                                      JumpOver(Rest(SubSeq(cases, 1, i - 1), Skips) + 3)>>)
                     asks == JumpOverIf(inner.over, cases[i].condition)
                 IN  [code |-> Join(<<asks, inner.code, action>>),
                      over |-> inner.over + Length(asks) + Length(action)]
    IN  Concat(layer[1].code, Op("JUMPDEST"))

SwitchEof(default, cases) ==
    LET Skips(c) == Length(c.action) + (IF c.terminating THEN 0 ELSE 3)
        first == Concat(default, Data("RJUMP", Rest(cases, Skips)))
        layer[i \in 1..(Len(cases) + 1)] ==
            IF i > Len(cases) THEN [code |-> first, over |-> Length(first)]
            ELSE LET inner == layer[i + 1]
                     later == Rest(SubSeq(cases, 1, i - 1), Skips)
                     action == IF cases[i].terminating THEN cases[i].action
                               ELSE Concat(cases[i].action, Data("RJUMP", later))
                     asks == Call(Data("RJUMPI", inner.over), <<cases[i].condition>>)
                 IN  [code |-> Join(<<asks, inner.code, action>>),
                      over |-> inner.over + Length(asks) + Length(action)]
    IN  Concat(layer[1].code, Op("JUMPDEST"))

Switch(eof, default, cases) ==
    IF eof THEN SwitchEof(default, cases) ELSE SwitchLegacy(default, cases)

(***************************************************************************)
(* Code that measures, code that deploys, code that fills a contract.      *)
(***************************************************************************)

\* CodeGasMeasure: one SWAP1 POP for each item the measured code leaves.
CodeGasMeasure(code, overhead, extra, stop) ==
    Join(<<Op("GAS"), code, Op("GAS"), Times(extra, Concat(Swap(1), Op("POP"))), Swap(1), Op("SUB"),
           PushN(1, overhead + 2), Swap(1), Op("SUB"), Push(0), Op("SSTORE"),
           IF stop THEN Op("STOP") ELSE Empty>>)

\* Initcode: copies what stands behind its eleven bytes and the prefix.
Initcode(deploy, prefix, padding) ==
    Join(<<prefix, PushN(2, Length(deploy)), PushN(1, 0), Dup(2), PushN(1, 11 + Length(prefix)),
           Dup(3), Op("CODECOPY"), Op("RETURN"), deploy, padding>>)

\* What Initcode says it costs to run: the gas of the prefix is overwritten.
Words(n) == (n + 31) \div 32
InitcodeGas(length) == 15 + 3 + 3 * Words(length) + 3 * length + (length * length) \div 512

\* Mutant: the cleanup takes no room.
RepeatedNoCleanup(setup, body, cleanup, most) ==
    LET back == Call(Op("JUMP"), <<Push(Length(setup))>>)
        overhead == Length(setup) + 1 + Length(back)
    IN  Join(<<setup, Op("JUMPDEST"), Times((most - overhead) \div Length(body), body), cleanup,
               IF Length(setup) > 0 THEN back ELSE Concat(Op("PUSH0"), Op("JUMP"))>>)

\* generate_repeated_code: as often as it fits, then back to the JUMPDEST.
Repeated(setup, body, cleanup, most) ==
    LET back == Call(Op("JUMP"), <<Push(Length(setup))>>)
        overhead == Length(setup) + 1 + Length(cleanup) + Length(back)
    IN  Join(<<setup, Op("JUMPDEST"), Times((most - overhead) \div Length(body), body), cleanup,
               IF Length(setup) > 0 THEN back ELSE Concat(Op("PUSH0"), Op("JUMP"))>>)

\* ExtCallGenerator's target: as often as the code size and the stack allow.
Target(setup, body, most, height) ==
    LET delta == body.pushes - body.pops
        fits == most \div Length(body)
    IN  Concat(setup, Times(IF delta > 0 THEN Least(height \div delta, fits) ELSE fits, body))
=============================================================================
