------------------------------ MODULE FillConsume ------------------------------
(* What a chain of blocks becomes: `fill` runs its blocks through the          *)
(* transition tool, checks what their author declared and writes a fixture    *)
(* (ethereum_test_specs/blockchain.py, helpers.py); `consume` replays it      *)
(* against a client, by RLP import, by the Engine API, or with a second       *)
(* client that syncs from the first (consume/simulators/simulator_logic).     *)
(*                                                                            *)
(* A block is what its author says of it and what is true of it.  The tool    *)
(* decides about transactions and about blocks as it ran them; what is done   *)
(* to a block afterwards (an RLP modifier, custom requests, a modified access *)
(* list, a check switched off) makes it `altered`, and nobody looks again.    *)
(* A client is right, and then answers by what is true, or answers anything.  *)
(* Bounds: the blocks of a test, the attempts and the seconds.  Left out: the *)
(* post state and the checks of the header, which only make filling fail.     *)
EXTENDS Integers, Sequences, FiniteSets

CONSTANTS Blocks,               \* the blocks tests are made of, as Block records
          Names,                \* the exceptions that have a name
          Codes,                \* the error codes of the Engine API
          MaxBlocks,            \* bound: blocks in a test
          Attempts,             \* to initialize a client: 30, and 3 in sync tests
          Timeout, Interval,    \* of the wait for a sync: 15 and 2 seconds
          Tries                 \* to find the block in the client that synced: 5

Errors == Names \union {"no", "undefined"}   \* undefined: the mapper knows no name

Block == [txs : Seq([want : Names \union {"no"}, got : Errors]),
          says : Names \union {"no"},        \* Block.exception
          finds : Errors,                    \* what the tool says of the block
          altered : BOOLEAN, real : Names \union {"no"},
          code : Codes \union {"no"},        \* Block.engine_api_error_code
          malformed : Codes \union {"no"}]   \* and what is true of the request

ASSUME BlocksAssumption == Blocks \subseteq Block /\ {"no", "undefined"} \intersect Names = {}
ASSUME BoundsAssumption == /\ MaxBlocks \in Nat /\ Attempts \in Nat \ {0} /\ Tries \in Nat \ {0}
                           /\ Timeout \in Nat /\ Interval \in Nat /\ Interval < Timeout

VARIABLES
  format, marker,               \* of the test: the fixture format, exception_test
  reliable, strict,             \* are names compared by fill, by consume?
  right,                        \* is the client right?
  blocks, parents, head,        \* the fixture, the parent of each block, the last valid one
  phase, at, attempts,          \* of the test run: where, at which payload
  taken,                        \* the payloads the client called valid
  synced, waited, tries,        \* the second client
  result

testCase == <<format, marker, reliable, strict, right>>
fixture == <<blocks, parents, head>>
sync == <<synced, waited, tries>>
vars == <<testCase, fixture, phase, at, attempts, taken, sync, result>>

Init == /\ format \in {"rlp", "engine", "sync"} /\ marker \in BOOLEAN
        /\ reliable \in BOOLEAN /\ strict \in BOOLEAN /\ right \in BOOLEAN
        /\ blocks = <<>> /\ parents = <<>> /\ head = 0
        /\ phase = "fill" /\ at = 0 /\ attempts = 0 /\ taken = {0}
        /\ synced = FALSE /\ waited = 0 /\ tries = 0
        /\ result = "running"

Goto(place) == phase' = place /\ UNCHANGED result
End(how) == phase' = "over" /\ result' = how

(*********************************** Fill ************************************)

Verify(want, got) == /\ (want = "no") = (got = "no")
                     /\ got # "undefined"
                     /\ reliable => want = got

Rejected(b) == {i \in DOMAIN b.txs : b.txs[i].got # "no"}

\* Mutant: a rejected transaction says enough of its block.
FillsRejected(b) == /\ \A i \in DOMAIN b.txs : Verify(b.txs[i].want, b.txs[i].got)
                    /\ Rejected(b) = {} /\ ~b.altered => Verify(b.says, b.finds)

\* Transactions first, the block only if none was rejected and it is as the tool
\* ran it; a rejected transaction needs a block that declares some exception.
Fills(b) ==
  /\ (\E i \in DOMAIN b.txs : b.txs[i].want # "no") => b.txs[Len(b.txs)].want # "no"
  /\ \A i \in DOMAIN b.txs : Verify(b.txs[i].want, b.txs[i].got)
  /\ Rejected(b) = {} /\ ~b.altered => Verify(b.says, b.finds)
  /\ Rejected(b) # {} => b.says # "no"

\* Mutant: every block becomes the parent of the next one.
GenerateOn ==
  /\ phase = "fill" /\ Len(blocks) < MaxBlocks
  /\ \E b \in Blocks : /\ Fills(b)
                        /\ blocks' = Append(blocks, b)
                        /\ parents' = Append(parents, head)
                        /\ head' = Len(blocks) + 1
  /\ UNCHANGED <<testCase, phase, at, attempts, taken, sync, result>>

\* A block that declares no exception becomes the parent of the next one.
Generate ==
  /\ phase = "fill" /\ Len(blocks) < MaxBlocks
  /\ \E b \in Blocks :
       IF Fills(b)
       THEN /\ blocks' = Append(blocks, b)
            /\ parents' = Append(parents, head)
            /\ head' = IF b.says = "no" THEN Len(blocks) + 1 ELSE head
            /\ UNCHANGED <<phase, result>>
       ELSE End("unfilled") /\ UNCHANGED fixture
  /\ UNCHANGED <<testCase, at, attempts, taken, sync>>

Invalid == {i \in DOMAIN blocks : blocks[i].says # "no"}

\* What makes no fixture: a marker that is wrong, a hive fixture without a block,
\* a sync fixture without a valid one.
Refused == \/ marker # (Invalid # {})
           \/ format # "rlp" /\ blocks = <<>>
           \/ format = "sync" /\ head = 0

Assemble == /\ phase = "fill"
            /\ IF Refused THEN End("unfilled")
               ELSE Goto(IF format = "rlp" THEN "import" ELSE "genesis")
            /\ at' = 1
            /\ UNCHANGED <<testCase, fixture, attempts, taken, sync>>

(********************************* The client ********************************)

\* The name of what is wrong with a block, or "no".
Truth(b) == IF b.altered THEN b.real
            ELSE IF Rejected(b) # {} THEN b.txs[CHOOSE i \in Rejected(b) : TRUE].got
            ELSE b.finds

Valid == [status |-> "VALID", error |-> "no", code |-> "no"]
Answer == [status : {"VALID", "INVALID", "SYNCING"}, error : Errors, code : {"no"}]
          \union [status : {"ERROR"}, error : {"no"}, code : Codes]

RightAnswer(b, parent) ==
  IF b.malformed # "no" THEN [status |-> "ERROR", error |-> "no", code |-> b.malformed]
  ELSE IF parent \notin taken THEN [status |-> "SYNCING", error |-> "no", code |-> "no"]
  ELSE IF Truth(b) = "no" THEN Valid
  ELSE [status |-> "INVALID", error |-> Truth(b), code |-> "no"]

(*********************************** Engine **********************************)

\* A first forkchoice update to genesis, again as long as the client syncs.
Genesis(here, next) ==
  /\ phase = here
  /\ \/ Goto(next) /\ attempts' = 0
     \/ attempts + 1 < Attempts /\ attempts' = attempts + 1 /\ UNCHANGED <<phase, result>>
     \/ ~right /\ End("fail") /\ UNCHANGED attempts
  /\ UNCHANGED <<testCase, fixture, at, taken, sync>>

\* Mutant: the status of an invalid payload is not compared.
ExpectedLoose(b, answer) ==
  IF answer.code # "no" THEN b.code = answer.code
  ELSE b.code = "no" /\ (b.says = "no" => answer.status = "VALID")

\* What the test takes for the right answer to newPayload.
Expected(b, answer) ==
  IF answer.code # "no" THEN b.code = answer.code
  ELSE /\ b.code = "no"
       /\ answer.status = IF b.says = "no" THEN "VALID" ELSE "INVALID"
       /\ b.says # "no" => /\ answer.error # "no"
                           /\ strict => answer.error = b.says

More == IF at < Len(blocks) THEN Goto("payload")
        ELSE IF format = "sync" THEN Goto("syncPayload")
        ELSE End("pass")

NewPayload ==
  LET b == blocks[at] IN
  /\ phase = "payload"
  /\ \E answer \in IF right THEN {RightAnswer(b, parents[at])} ELSE Answer :
       /\ taken' = IF answer.status = "VALID" THEN taken \union {at} ELSE taken
       /\ IF ~Expected(b, answer) THEN End("fail") /\ UNCHANGED at
          ELSE IF b.says = "no" THEN Goto("forkchoice") /\ UNCHANGED at
          ELSE More /\ at' = at + 1
  /\ UNCHANGED <<testCase, fixture, attempts, sync>>

\* Only to a payload that is declared valid.
Forkchoice == /\ phase = "forkchoice"
              /\ \/ (right => at \in taken) /\ More /\ at' = at + 1
                 \/ (right => at \notin taken) /\ End("fail") /\ UNCHANGED at
              /\ UNCHANGED <<testCase, fixture, attempts, taken, sync>>

(************************************ RLP ************************************)

\* The client imports the blocks one by one when it starts.
Import == /\ phase = "import" /\ at <= Len(blocks)
          /\ \/ /\ right => RightAnswer([blocks[at] EXCEPT !.malformed = "no"], parents[at]) = Valid
                /\ taken' = taken \union {at}
             \/ /\ right => RightAnswer([blocks[at] EXCEPT !.malformed = "no"], parents[at]) # Valid
                /\ UNCHANGED taken
          /\ at' = at + 1
          /\ UNCHANGED <<testCase, fixture, phase, attempts, sync, result>>

LastIs(i) == i \in taken /\ \A j \in taken : j <= i

\* The last block of the client is the last block of the fixture.
Compare == /\ phase = "import" /\ at > Len(blocks)
           /\ End(IF LastIs(head) THEN "pass" ELSE "fail")
           /\ UNCHANGED <<testCase, fixture, at, attempts, taken, sync>>

(*********************************** Sync ************************************)

\* An empty block on top of the last valid one, for both clients to end with.
SyncPayload == /\ phase = "syncPayload"
               /\ \/ Goto("syncGenesis")
                  \/ ~right /\ End("fail")
               /\ UNCHANGED <<testCase, fixture, at, attempts, taken, sync>>

AddPeer == /\ phase = "peer"
           /\ \/ Goto("wait")
              \/ ~right /\ End("fail")
           /\ UNCHANGED <<testCase, fixture, at, attempts, taken, sync>>

\* The second client has the block, whatever the test does.
SyncDone == /\ phase \in {"wait", "verify"} /\ ~synced /\ synced' = TRUE
            /\ UNCHANGED <<testCase, fixture, phase, at, attempts, taken, waited, tries, result>>

\* A second of the wait: from the first interval on a forkchoice update, whose
\* answer, whatever it is, ends the wait; one that is not answered is tried again.
Wait == /\ phase = "wait"
        /\ \/ waited < Timeout /\ (right => waited < Interval)
              /\ waited' = waited + 1 /\ UNCHANGED <<phase, result>>
           \/ waited \in Interval..(Timeout - 1) /\ Goto("verify") /\ UNCHANGED waited
           \/ waited = Timeout /\ End("fail") /\ UNCHANGED waited
        /\ UNCHANGED <<testCase, fixture, at, attempts, taken, synced, tries>>

\* Mutant: the tries are not counted.
VerifySyncAlways == /\ phase = "verify" /\ synced
                    /\ End("pass")
                    /\ UNCHANGED <<testCase, fixture, at, attempts, taken, sync>>

VerifySync == /\ phase = "verify"
              /\ IF synced THEN End("pass") /\ UNCHANGED <<waited, tries>>
                 ELSE IF tries + 1 = Tries THEN End("fail") /\ UNCHANGED <<waited, tries>>
                 ELSE /\ waited' = waited + 1 /\ tries' = tries + 1
                      /\ UNCHANGED <<phase, result>>
              /\ UNCHANGED <<testCase, fixture, at, attempts, taken, synced>>

-------------------------------------------------------------------------------

Step == \/ Generate \/ Assemble
        \/ Genesis("genesis", "payload") \/ NewPayload \/ Forkchoice
        \/ Import \/ Compare
        \/ SyncPayload \/ Genesis("syncGenesis", "peer") \/ AddPeer
        \/ Wait \/ VerifySync

Next == Step \/ SyncDone

\* Fill and consume go on and the client answers; nobody promises that the
\* second client ever syncs.
Spec == Init /\ [][Next]_vars /\ WF_vars(Step)

-------------------------------------------------------------------------------

Phases == {"fill", "genesis", "payload", "forkchoice", "import", "syncPayload", "syncGenesis",
           "peer", "wait", "verify", "over"}

\* The type of every variable.
TypeOK == /\ format \in {"rlp", "engine", "sync"}
          /\ {marker, reliable, strict, right, synced} \subseteq BOOLEAN
          /\ blocks \in Seq(Blocks) /\ parents \in Seq(Nat) /\ Len(parents) = Len(blocks)
          /\ head \in 0..Len(blocks) /\ taken \subseteq Nat /\ at \in Nat
          /\ phase \in Phases /\ attempts \in 0..Attempts /\ tries \in 0..Tries
          /\ waited \in 0..(Timeout + Tries)
          /\ result \in {"running", "unfilled", "pass", "fail"}

\* A declaration nobody compared: of a block that was altered, and of a payload
\* with an error code (which goes with an exception, or the test cannot pass).
Unsure(b) == \/ b.altered /\ (b.says = "no") # (Truth(b) = "no")
             \/ b.code # b.malformed
             \/ b.code # "no" /\ b.says = "no"

\* What a fixture says of a block that was not altered is true, by name when the
\* names of the tool are reliable and no transaction was rejected; and each block
\* stands on the last one before it that was declared valid.
FilledIsTrue ==
  \A i \in DOMAIN blocks :
    /\ ~blocks[i].altered => (blocks[i].says = "no") = (Truth(blocks[i]) = "no")
    /\ ~blocks[i].altered /\ reliable /\ Rejected(blocks[i]) = {}
         => blocks[i].says = Truth(blocks[i])
    /\ parents[i] < i /\ (parents[i] # 0 => blocks[parents[i]].says = "no")
    /\ \A j \in (parents[i] + 1)..(i - 1) : blocks[j].says # "no"

\* A client that passes has taken just the valid blocks, whatever else it is; after
\* an import, its last block at least is the right one.
PassMeansConsensus ==
  result = "pass" /\ (\A i \in DOMAIN blocks : ~Unsure(blocks[i]))
    => LET good == {i \in DOMAIN blocks : Truth(blocks[i]) = "no" /\ blocks[i].malformed = "no"} IN
       /\ format # "rlp" => taken = good \union {0}
       /\ format = "rlp" => LastIs(head)
       /\ format = "sync" => synced

\* A right client fails no test, unless a declaration nobody compared was wrong, or
\* its name is asked for and fill could not have compared it.
RightClientPasses ==
  right /\ result = "fail"
    => \/ \E i \in DOMAIN blocks : Unsure(blocks[i])
       \/ strict /\ \E i \in DOMAIN blocks : blocks[i].says # Truth(blocks[i])
       \/ format = "sync" /\ phase = "over" /\ ~synced

\* A sync test that fails because the second client has not synced has waited for
\* as long as it says: "15 second timeout".
WaitsAsItSays == result = "fail" /\ tries > 0 => waited >= Timeout

\* Every test comes to its end.
Ends == <>(phase = "over")

================================================================================
