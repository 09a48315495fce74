------------------------------ MODULE Opcodes ------------------------------
(***************************************************************************)
(* The opcodes of the EVM as ethereum_test_vm/opcodes.py declares them:    *)
(* what each takes from the stack and leaves on it, the height it needs,   *)
(* the bytes of data behind it, and whether it ends the code.  The names,  *)
(* the documentation and the keyword arguments of the calls are left out.  *)
(***************************************************************************)
EXTENDS Integers

AtLeast(a, b) == IF a > b THEN a ELSE b

\* Opcode.__new__: without a minimum the opcode needs what it pops; the
\* maximum is counted from a stack of the minimum height.
Opcode(pops, pushes, min, data, ends) ==
    [pops |-> pops, pushes |-> pushes, min |-> min,
     max |-> AtLeast(min - pops + pushes, min),
     size |-> 1 + data, terminating |-> ends]

Takes(pops, pushes) == Opcode(pops, pushes, pops, 0, FALSE)
Ends(pops) == Opcode(pops, 0, pops, 0, TRUE)
Pushes(n) == Opcode(0, 1, 0, n, FALSE)
Copies(n) == Opcode(0, 1, n, 0, FALSE)
Swaps(n) == Opcode(0, 0, n + 1, 0, FALSE)
WithData(n, opcode) == [opcode EXCEPT !.size = 1 + n]

(***************************************************************************)
(* The enumeration Opcodes, in the order of the file.                      *)
(***************************************************************************)

Arithmetic == [
    STOP |-> Ends(0), ADD |-> Takes(2, 1), MUL |-> Takes(2, 1), SUB |-> Takes(2, 1),
    DIV |-> Takes(2, 1)]

SignedArithmetic == [
    SDIV |-> Takes(2, 1), MOD |-> Takes(2, 1), SMOD |-> Takes(2, 1), ADDMOD |-> Takes(3, 1)]

PowersAndOrder == [
    MULMOD |-> Takes(3, 1), EXP |-> Takes(2, 1), SIGNEXTEND |-> Takes(2, 1),
    LT |-> Takes(2, 1), GT |-> Takes(2, 1)]

Comparison == [
    SLT |-> Takes(2, 1), SGT |-> Takes(2, 1), EQ |-> Takes(2, 1), ISZERO |-> Takes(1, 1),
    AND |-> Takes(2, 1)]

BitLogic == [
    OR |-> Takes(2, 1), XOR |-> Takes(2, 1), NOT |-> Takes(1, 1), BYTE |-> Takes(2, 1),
    SHL |-> Takes(2, 1)]

ShiftsAndHash == [
    SHR |-> Takes(2, 1), SAR |-> Takes(2, 1), CLZ |-> Takes(1, 1), SHA3 |-> Takes(2, 1),
    ADDRESS |-> Takes(0, 1)]

CallerFields == [
    BALANCE |-> Takes(1, 1), ORIGIN |-> Takes(0, 1), CALLER |-> Takes(0, 1),
    CALLVALUE |-> Takes(0, 1), CALLDATALOAD |-> Takes(1, 1)]

OwnCode == [
    CALLDATASIZE |-> Takes(0, 1), CALLDATACOPY |-> Takes(3, 0), CODESIZE |-> Takes(0, 1),
    CODECOPY |-> Takes(3, 0), GASPRICE |-> Takes(0, 1)]

OtherCode == [
    EXTCODESIZE |-> Takes(1, 1), EXTCODECOPY |-> Takes(4, 0), RETURNDATASIZE |-> Takes(0, 1),
    RETURNDATACOPY |-> Takes(3, 0), EXTCODEHASH |-> Takes(1, 1)]

BlockFields == [
    BLOCKHASH |-> Takes(1, 1), COINBASE |-> Takes(0, 1), TIMESTAMP |-> Takes(0, 1),
    NUMBER |-> Takes(0, 1), PREVRANDAO |-> Takes(0, 1)]

ChainFields == [
    GASLIMIT |-> Takes(0, 1), CHAINID |-> Takes(0, 1), SELFBALANCE |-> Takes(0, 1),
    BASEFEE |-> Takes(0, 1), BLOBHASH |-> Takes(1, 1)]

Memory == [
    BLOBBASEFEE |-> Takes(0, 1), POP |-> Takes(1, 0), MLOAD |-> Takes(1, 1),
    MSTORE |-> Takes(2, 0), MSTORE8 |-> Takes(2, 0)]

StorageAndJumps == [
    SLOAD |-> Takes(1, 1), SSTORE |-> Takes(2, 0), JUMP |-> Takes(1, 0), JUMPI |-> Takes(2, 0)]

Position == [
    PC |-> Takes(0, 1), MSIZE |-> Takes(0, 1), GAS |-> Takes(0, 1), JUMPDEST |-> Takes(0, 0),
    NOOP |-> Takes(0, 0)]

Transient == [
    TLOAD |-> Takes(1, 1), TSTORE |-> Takes(2, 0), MCOPY |-> Takes(3, 0), PUSH0 |-> Takes(0, 1)]

Push1To5 == [
    PUSH1 |-> Pushes(1), PUSH2 |-> Pushes(2), PUSH3 |-> Pushes(3), PUSH4 |-> Pushes(4),
    PUSH5 |-> Pushes(5)]

Push6To10 == [
    PUSH6 |-> Pushes(6), PUSH7 |-> Pushes(7), PUSH8 |-> Pushes(8), PUSH9 |-> Pushes(9),
    PUSH10 |-> Pushes(10)]

Push11To15 == [
    PUSH11 |-> Pushes(11), PUSH12 |-> Pushes(12), PUSH13 |-> Pushes(13), PUSH14 |-> Pushes(14),
    PUSH15 |-> Pushes(15)]

Push16To20 == [
    PUSH16 |-> Pushes(16), PUSH17 |-> Pushes(17), PUSH18 |-> Pushes(18), PUSH19 |-> Pushes(19),
    PUSH20 |-> Pushes(20)]

Push21To25 == [
    PUSH21 |-> Pushes(21), PUSH22 |-> Pushes(22), PUSH23 |-> Pushes(23), PUSH24 |-> Pushes(24),
    PUSH25 |-> Pushes(25)]

Push26To30 == [
    PUSH26 |-> Pushes(26), PUSH27 |-> Pushes(27), PUSH28 |-> Pushes(28), PUSH29 |-> Pushes(29),
    PUSH30 |-> Pushes(30)]

Push31To32 == [
    PUSH31 |-> Pushes(31), PUSH32 |-> Pushes(32)]

Dup1To4 == [
    DUP1 |-> Copies(1), DUP2 |-> Copies(2), DUP3 |-> Copies(3), DUP4 |-> Copies(4)]

Dup5To8 == [
    DUP5 |-> Copies(5), DUP6 |-> Copies(6), DUP7 |-> Copies(7), DUP8 |-> Copies(8)]

Dup9To12 == [
    DUP9 |-> Copies(9), DUP10 |-> Copies(10), DUP11 |-> Copies(11), DUP12 |-> Copies(12)]

Dup13To16 == [
    DUP13 |-> Copies(13), DUP14 |-> Copies(14), DUP15 |-> Copies(15), DUP16 |-> Copies(16)]

Swap1To4 == [
    SWAP1 |-> Swaps(1), SWAP2 |-> Swaps(2), SWAP3 |-> Swaps(3), SWAP4 |-> Swaps(4)]

Swap5To8 == [
    SWAP5 |-> Swaps(5), SWAP6 |-> Swaps(6), SWAP7 |-> Swaps(7), SWAP8 |-> Swaps(8)]

Swap9To12 == [
    SWAP9 |-> Swaps(9), SWAP10 |-> Swaps(10), SWAP11 |-> Swaps(11), SWAP12 |-> Swaps(12)]

Swap13To16 == [
    SWAP13 |-> Swaps(13), SWAP14 |-> Swaps(14), SWAP15 |-> Swaps(15), SWAP16 |-> Swaps(16)]

Logs == [
    LOG0 |-> Takes(2, 0), LOG1 |-> Takes(3, 0), LOG2 |-> Takes(4, 0), LOG3 |-> Takes(5, 0)]

LogAndEofData == [
    LOG4 |-> Takes(6, 0), RJUMP |-> WithData(2, Takes(0, 0)), DATALOAD |-> Takes(1, 1),
    DATALOADN |-> WithData(2, Takes(0, 1))]

RelativeJumps == [
    DATASIZE |-> Takes(0, 1), DATACOPY |-> Takes(3, 0), RJUMPI |-> WithData(2, Takes(1, 0)),
    RJUMPV |-> WithData(1, Takes(1, 0))]

EofStack == [
    CALLF |-> WithData(2, Takes(0, 0)), RETF |-> Ends(0), JUMPF |-> WithData(2, Ends(0)),
    DUPN |-> WithData(1, Takes(0, 1))]

EofCreation == [
    SWAPN |-> WithData(1, Takes(0, 0)), EXCHANGE |-> WithData(1, Takes(0, 0)),
    EOFCREATE |-> WithData(1, Takes(4, 1)), TXCREATE |-> Takes(5, 1)]

Calls == [
    RETURNCODE |-> WithData(1, Ends(2)), CREATE |-> Takes(3, 1), CALL |-> Takes(7, 1)]

Returns == [
    CALLCODE |-> Takes(7, 1), RETURN |-> Ends(2), DELEGATECALL |-> Takes(6, 1)]

EofCalls == [
    CREATE2 |-> Takes(4, 1), EXTCALL |-> Takes(4, 1), EXTDELEGATECALL |-> Takes(3, 1)]

StaticCalls == [
    STATICCALL |-> Takes(6, 1), EXTSTATICCALL |-> Takes(3, 1), RETURNDATALOAD |-> Takes(1, 1)]

Halting == [
    REVERT |-> Ends(2), INVALID |-> Ends(0), SELFDESTRUCT |-> Takes(1, 0)]

\* UndefinedOpcodes: one byte, no effect on the stack.
Undefined == Takes(0, 0)

\* Two parts of the table in one.
f ++ g == [x \in DOMAIN f \union DOMAIN g |-> IF x \in DOMAIN f THEN f[x] ELSE g[x]]

Computing == Arithmetic ++ SignedArithmetic ++ PowersAndOrder ++ Comparison
Surroundings == BitLogic ++ ShiftsAndHash ++ CallerFields ++ OwnCode
Chain == OtherCode ++ BlockFields ++ ChainFields ++ Memory
Control == StorageAndJumps ++ Position ++ Transient
Pushing ==
    (Push1To5 ++ Push6To10 ++ Push11To15 ++ Push16To20)
    ++ (Push21To25 ++ Push26To30 ++ Push31To32)
Copying == Dup1To4 ++ Dup5To8 ++ Dup9To12 ++ Dup13To16
Swapping == Swap1To4 ++ Swap5To8 ++ Swap9To12 ++ Swap13To16
Eof == Logs ++ LogAndEofData ++ RelativeJumps ++ EofStack ++ EofCreation
Calling == Calls ++ Returns ++ EofCalls ++ StaticCalls ++ Halting

Table ==
    (Computing ++ Surroundings ++ Chain)
    ++ (Control ++ Pushing ++ Copying)
    ++ (Swapping ++ Eof ++ Calling)

\* DUPN, SWAPN and EXCHANGE: the byte behind the opcode says how deep it
\* reaches; as for DUP and SWAP nothing counts as popped.
DupN(imm) == WithData(1, Copies(imm + 1))
SwapN(imm) == WithData(1, Swaps(imm + 1))
Exchange(imm) ==
    LET n == (imm \div 16) + 1
        m == (imm % 16) + 1
    IN  WithData(1, Swaps(n + m))

=============================================================================
