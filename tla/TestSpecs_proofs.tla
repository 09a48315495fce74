--------------------------- MODULE TestSpecs_proofs ---------------------------
(* What the specs of tests promise (src/ethereum_test_specs).                 *)
(*                                                                            *)
(* The search for the least gas limit of a state test, for any gas limit and  *)
(* any outcome of the verifications, alone (GasOptimizer) and in a session    *)
(* with a server, for any number of tests and retries (GasSession).           *)
(*                                                                            *)
(* The blocks of a blockchain test (FillConsume), for tests of any length     *)
(* made of any blocks: what a fixture says of a block is true, and a client   *)
(* that passes an Engine API test has taken exactly the valid blocks.         *)
EXTENDS GasSession, FillConsume, FiniteSetTheorems, TLAPS

-------------------------------------------------------------------------------
(* The search.                                                                *)

SearchInv == SearchTypeOK /\ Bracket

LEMMA InitSearchInv == SearchInit => SearchInv
  BY MaxGasLimitAssumption DEF SearchInit, SearchInv, SearchTypeOK, Bracket, None

\* The middle of an interval that is not empty is in it, and not its upper end.
LEMMA MiddleInside ==
  ASSUME minimum \in Nat, maximum \in Nat, minimum < maximum
  PROVE  Middle \in Nat /\ minimum <= Middle /\ Middle < maximum
  BY DEF Middle

\* The types, as the provers need them.
LEMMA Numbers ==
  ASSUME SearchTypeOK
  PROVE  /\ gasLimit \in Nat /\ gasLimit > 0
         /\ wanted \in Nat \/ wanted = None
         /\ same \in SUBSET (0..gasLimit) /\ gasLimit \in same
<1>1. gasLimit \in 1..MaxGasLimit /\ wanted \in 0..MaxGasLimit \union {-1}
  BY DEF SearchTypeOK, None
<1>2. gasLimit \in Nat /\ gasLimit > 0 /\ (wanted \in Nat \/ wanted = -1)
  BY <1>1, MaxGasLimitAssumption
<1> QED
  BY <1>2 DEF SearchTypeOK, None

LEMMA FirstStep == SearchInv /\ First => SearchInv'
<1> SUFFICES ASSUME SearchInv, First PROVE SearchInv'
  OBVIOUS
<1> USE DEF SearchInv, input
<1>1. gasLimit - 1 \in 0..gasLimit /\ 0 \in 0..gasLimit /\ gasLimit \in 0..gasLimit
  BY Numbers
<1>2. CASE Accepted(gasLimit - 1)
  <2>1. /\ pc' = "search" /\ minimum' = 0 /\ maximum' = gasLimit
        /\ current' = None /\ UNCHANGED <<gasLimit, wanted, same, reported>>
    BY <1>2 DEF First, Bracket
  <2>2. SearchTypeOK'
    BY <1>1, <2>1 DEF SearchTypeOK
  <2>3. ~TooMuch(0)
    <3>1. wanted \in Nat \/ wanted = None
      BY Numbers
    <3>2. CASE wanted \in Nat
      BY <3>2 DEF TooMuch
    <3>3. CASE wanted = None
      BY <3>3 DEF TooMuch
    <3> QED
      BY <3>1, <3>2, <3>3
  <2>4. ~TooMuch(minimum)'
    BY <2>1, <2>3 DEF TooMuch
  <2>5. gasLimit \in Nat /\ gasLimit > 0 /\ gasLimit \in same
    BY Numbers
  <2>6. /\ minimum' \in 0..maximum' /\ (maximum \in same)'
        /\ minimum' # maximum' /\ current' = None /\ minimum' = 0 /\ pc' = "search"
    BY <2>1, <2>5
  <2>7. Bracket'
    BY <2>4, <2>6 DEF Bracket
  <2> QED
    BY <2>2, <2>7
<1>3. CASE ~Accepted(gasLimit - 1)
  <2>1. /\ pc' = "impossible"
        /\ UNCHANGED <<gasLimit, wanted, same, minimum, maximum, current, reported>>
    BY <1>3 DEF First
  <2> QED
    BY <2>1 DEF SearchTypeOK, Bracket
<1> QED
  BY <1>2, <1>3

LEMMA LowerStep == SearchInv /\ Lower => SearchInv'
<1> SUFFICES ASSUME SearchInv, Lower PROVE SearchInv'
  OBVIOUS
<1> USE DEF SearchInv, input
<1>1. /\ minimum \in Nat /\ maximum \in Nat /\ minimum < maximum /\ maximum \in 0..gasLimit
      /\ minimum = 0 \/ minimum - 1 \notin same
      /\ ~TooMuch(minimum)
  BY Numbers DEF Lower, Bracket
<1>2. Middle \in Nat /\ minimum <= Middle /\ Middle < maximum
  BY <1>1, MiddleInside
<1>3. /\ UNCHANGED <<gasLimit, wanted, same, pc, minimum, reported>> /\ pc = "search"
      /\ current' = Middle /\ maximum' = Middle /\ Middle \in same
  BY DEF Lower, Accepted
<1>4. Middle \in 0..gasLimit
  BY <1>1, <1>2, Numbers
<1>5. SearchTypeOK'
  BY <1>3, <1>4 DEF SearchTypeOK
<1>6. Bracket'
  BY <1>1, <1>2, <1>3 DEF Bracket, TooMuch
<1> QED
  BY <1>5, <1>6

LEMMA RaiseStep == SearchInv /\ Raise => SearchInv'
<1> SUFFICES ASSUME SearchInv, Raise PROVE SearchInv'
  OBVIOUS
<1> USE DEF SearchInv, input
<1>1. /\ minimum \in Nat /\ maximum \in Nat /\ minimum < maximum /\ maximum \in 0..gasLimit
      /\ maximum \in same
  <2>1. minimum \in 0..maximum /\ maximum \in same /\ minimum < maximum
    BY DEF Raise, Bracket
  <2> QED
    BY <2>1, Numbers
<1>2. Middle \in Nat /\ minimum <= Middle /\ Middle < maximum
  BY <1>1, MiddleInside
<1>3. /\ UNCHANGED <<gasLimit, wanted, same, maximum, reported>>
      /\ current' = Middle /\ minimum' = Middle + 1 /\ Middle \notin same
      /\ pc' = IF TooMuch(Middle + 1) THEN "too much" ELSE "search"
  BY DEF Raise, Accepted
<1>4. Middle \in 0..gasLimit /\ Middle + 1 \in 0..gasLimit
  BY <1>1, <1>2, Numbers
<1>5. SearchTypeOK'
  BY <1>3, <1>4 DEF SearchTypeOK
<1>6. TooMuch(minimum)' <=> TooMuch(Middle + 1)
  BY <1>3 DEF TooMuch
<1>7. (Middle + 1) - 1 = Middle /\ Middle + 1 \in 0..maximum /\ Middle + 1 > 0
  BY <1>1, <1>2
<1>8. Bracket'
  BY <1>1, <1>3, <1>6, <1>7 DEF Bracket
<1> QED
  BY <1>5, <1>8

LEMMA ReportStep == SearchInv /\ Report => SearchInv'
<1> SUFFICES ASSUME SearchInv, Report PROVE SearchInv'
  OBVIOUS
<1> USE DEF SearchInv, input
<1>1. Accepted(minimum)
  BY DEF Report, Bracket, Accepted
<1>2. /\ UNCHANGED <<gasLimit, wanted, same, minimum, maximum, current>>
      /\ pc = "search" /\ pc' = "reported" /\ reported' = current /\ minimum = maximum
  BY <1>1 DEF Report
<1>3. SearchTypeOK'
  BY <1>2 DEF SearchTypeOK
<1>4. Bracket'
  BY <1>2 DEF Bracket, TooMuch
<1> QED
  BY <1>3, <1>4

LEMMA SearchStep == SearchInv /\ [SearchNext]_searchVars => SearchInv'
<1>1. ASSUME SearchInv, UNCHANGED searchVars PROVE SearchInv'
  BY <1>1 DEF searchVars, SearchInv, SearchTypeOK, Bracket, TooMuch
<1> QED
  BY <1>1, FirstStep, LowerStep, RaiseStep, ReportStep DEF SearchNext

\* The types and the bracket hold together in every state of every search.
THEOREM SearchInvariance == SearchSpec => []SearchInv
<1>1. SearchInit => SearchInv
  BY InitSearchInv
<1>2. SearchInv /\ [SearchNext]_searchVars => SearchInv'
  BY SearchStep
<1> QED
  BY <1>1, <1>2, PTL DEF SearchSpec

\* The bounds of the search always bracket an edge of the limits that behave the same.
THEOREM Bracketed == SearchSpec => []Bracket
<1>1. SearchInv => Bracket
  BY DEF SearchInv
<1> QED
  BY <1>1, SearchInvariance, PTL

\* Every variable keeps its type.
THEOREM SearchTypeCorrect == SearchSpec => []SearchTypeOK
<1>1. SearchInv => SearchTypeOK
  BY DEF SearchInv
<1> QED
  BY <1>1, SearchInvariance, PTL

\* The search ends at a limit that keeps the outcome while one less does not; the
\* assertion after the loop never fails.
THEOREM Edge == SearchSpec => []EndsAtEdge
<1>1. SearchInv => EndsAtEdge
  BY DEF SearchInv, Bracket, EndsAtEdge
<1> QED
  BY <1>1, SearchInvariance, PTL

\* When every larger limit keeps the outcome too, it ends at the least limit that does.
THEOREM Least == SearchSpec => []EndsAtLeast
<1>1. SearchInv => EndsAtLeast
  <2> SUFFICES ASSUME SearchInv, pc = "reported", \A g \in same : g..gasLimit \subseteq same,
                      NEW g \in same
               PROVE  minimum <= g
    BY DEF EndsAtLeast
  <2>1. minimum \in 0..gasLimit /\ g \in 0..gasLimit /\ gasLimit \in Nat
    BY Numbers DEF SearchInv, Bracket
  <2>2. minimum = 0 \/ minimum - 1 \notin same
    BY DEF SearchInv, Bracket
  <2>3. ASSUME g < minimum PROVE FALSE
    <3>1. minimum - 1 \in g..gasLimit
      BY <2>1, <2>3
    <3> QED
      BY <2>1, <2>2, <2>3, <3>1
  <2> QED
    BY <2>1, <2>3
<1> QED
  BY <1>1, SearchInvariance, PTL

\* What is reported is that limit or one less.
THEOREM LastProbe == SearchSpec => []ReportsLastProbe
<1>1. SearchInv => ReportsLastProbe
  BY Numbers DEF SearchInv, Bracket, ReportsLastProbe
<1> QED
  BY <1>1, SearchInvariance, PTL

\* The limit wanted by --optimize-gas-max-gas-limit is kept.
THEOREM Wanted == SearchSpec => []WantedKept
<1>1. SearchInv => WantedKept
  <2> SUFFICES ASSUME SearchInv
               PROVE  WantedKept
    OBVIOUS
  <2>1. pc = "reported" => ~TooMuch(minimum)
    BY DEF SearchInv, Bracket
  <2>2. ASSUME pc = "too much"
        PROVE  minimum - 1 \notin same /\ minimum - 1 >= wanted
    <3>1. /\ minimum \in 0..maximum /\ maximum \in same /\ minimum > 0
          /\ minimum = 0 \/ minimum - 1 \notin same
          /\ TooMuch(minimum)
      BY <2>2 DEF SearchInv, Bracket
    <3>2. minimum \in Nat /\ wanted \in Nat /\ minimum > wanted
      BY <3>1, Numbers DEF SearchInv, TooMuch
    <3> QED
      BY <3>1, <3>2
  <2> QED
    BY <2>1, <2>2 DEF WantedKept
<1> QED
  BY <1>1, SearchInvariance, PTL

\* verify_modified_gas_limit compares the keys of the modified allocation with themselves;
\* the other two conditions make up for it: allocations that agree have the same accounts
\* with the same nonces.
THEOREM AgreeIsEqual ==
  ASSUME NEW A, NEW B, IsFiniteSet(A), IsFiniteSet(B), NEW V,
         NEW base \in [A -> V], NEW modified \in [B -> V]
  PROVE  AllocsAgree(base, modified) <=> base = modified
<1>1. ASSUME AllocsAgree(base, modified) PROVE base = modified
  <2>1. A \in SUBSET B /\ Cardinality(A) = Cardinality(B)
    BY <1>1 DEF AllocsAgree
  <2>2. A = B
    BY <2>1, FS_Subset
  <2> QED
    BY <1>1, <2>2 DEF AllocsAgree
<1>2. ASSUME base = modified PROVE AllocsAgree(base, modified)
  BY <1>2 DEF AllocsAgree
<1> QED
  BY <1>1, <1>2
------------------------------------------------------------------------------
(* The session: the search through a server that may fail.                    *)

\* What OneServer needs to be kept: the process is running only where it is held, and is
\* not when another one is about to be started.
ServerInv ==
  /\ process \in {"none", "running", "signalled"}
  /\ left = 0
  /\ serverUrl = "none" => process = "none"
  /\ stage = "first start" => process = "none"
  /\ stage = "restart" => process # "running"
  /\ health = "unanswered" => stage \in {"shutdown", "restart"}
  /\ SearchOver => stage = "idle"
  /\ test \in Nat
  /\ SessionOver => process # "running" /\ stage \in {"idle", "raised"}

LEMMA InitServerInv == SessionInit => ServerInv
  BY TestsAssumption DEF SessionInit, SearchInit, ServerInit, ServerInv, SessionOver, SearchOver

\* The server takes steps only while a request is out.
LEMMA ServeInv == ServerInv /\ Serve => ServerInv'
<1> SUFFICES ASSUME ServerInv, Serve PROVE ServerInv'
  OBVIOUS
<1> USE DEF ServerInv, settings, server, SessionOver, SearchOver, searchVars, Serve
<1>1. CASE RunStream \/ RunFiles
  BY <1>1 DEF RunStream, RunFiles
<1>2. CASE FirstStart
  <2>1. PICK up \in BOOLEAN : StartServer(up) /\ stage' = IF up THEN "post" ELSE "raised"
    BY <1>2 DEF FirstStart
  <2> QED
    BY <1>2, <2>1 DEF FirstStart, StartServer
<1>3. CASE Post
  BY <1>3 DEF Post
<1>4. CASE NoAnswer
  BY <1>4 DEF NoAnswer
<1>5. CASE ShutdownToRestart
  BY <1>5 DEF ShutdownToRestart, Shutdown
<1>6. CASE Restart
  <2>1. PICK up \in BOOLEAN : /\ StartServer(up)
                             /\ stage' \in {"raised", "post"}
    BY <1>6 DEF Restart
  <2> QED
    BY <1>6, <2>1 DEF Restart, StartServer
<1> QED
  BY <1>1, <1>2, <1>3, <1>4, <1>5, <1>6 DEF ServerStep

LEMMA AskInv == ServerInv /\ Ask => ServerInv'
  BY DEF ServerInv, Ask, Evaluate, settings, server, searchVars, SessionOver, TestOver, SearchOver

LEMMA CompareOwnInv == ServerInv /\ CompareOwn => ServerInv'
  BY DEF ServerInv, CompareOwn, settings, server, searchVars, SessionOver, SearchOver

LEMMA ProbeInv == ServerInv /\ Probe => ServerInv'
  BY DEF ServerInv, Probe, settings, server, SessionOver

LEMMA NextTestInv == ServerInv /\ NextTest => ServerInv'
<1> SUFFICES ASSUME ServerInv, NextTest PROVE ServerInv'
  OBVIOUS
<1>1. stage \in {"idle", "raised"} /\ test \in Nat /\ test < Tests
  BY DEF NextTest, TestOver, ServerInv
<1>2. /\ test' = test + 1 /\ stage' = "idle" /\ pc' = "first"
      /\ UNCHANGED <<serverUrl, process, left, health>>
  BY DEF NextTest, server
<1>3. test' \in Nat /\ ~SessionOver'
  BY <1>1, <1>2, TestsAssumption DEF SessionOver
<1>4. process \in {"none", "running", "signalled"} /\ left = 0 /\ health # "unanswered"
  BY <1>1 DEF ServerInv
<1>5. serverUrl = "none" => process = "none"
  BY DEF ServerInv
<1> QED
  BY <1>2, <1>3, <1>4, <1>5 DEF ServerInv

LEMMA EndSessionInv == ServerInv /\ EndSession => ServerInv'
<1> SUFFICES ASSUME ServerInv, EndSession PROVE ServerInv'
  OBVIOUS
<1>1. stage \in {"idle", "raised"}
  BY DEF EndSession, TestOver, ServerInv
<1>2. /\ process' = IF process = "running" THEN "signalled" ELSE process
      /\ test' = Tests + 1
      /\ UNCHANGED <<serverUrl, left, health, stage, pc>>
  BY DEF EndSession, Shutdown, settings, searchVars
<1>3. process' # "running" /\ process' \in {"none", "running", "signalled"}
  BY <1>2 DEF ServerInv
<1>4. test' \in Nat
  BY <1>2, TestsAssumption
<1>5. /\ left = 0 /\ health # "unanswered"
      /\ serverUrl = "none" => process = "none"
      /\ SearchOver => stage = "idle"
  BY <1>1 DEF ServerInv
<1>6. serverUrl = "none" => process' = "none"
  BY <1>2, <1>5
<1>7. SearchOver' <=> SearchOver
  BY <1>2 DEF SearchOver
<1> QED
  BY <1>1, <1>2, <1>3, <1>4, <1>5, <1>6, <1>7 DEF ServerInv

\* However many tests are filled and however their requests end: no daemon is forgotten
\* while it runs, and none that left a request unanswered gets another one.
THEOREM ServerKept == SessionSpec => []OneServer
<1>1. SessionInit => ServerInv
  BY InitServerInv
<1>2. ServerInv /\ [SessionNext]_sessionVars => ServerInv'
  <2>1. ASSUME ServerInv, UNCHANGED sessionVars PROVE ServerInv'
    BY <2>1 DEF ServerInv, sessionVars, serverVars, searchVars, SessionOver, SearchOver
  <2> QED
    BY <2>1, AskInv, ServeInv, CompareOwnInv, ProbeInv, NextTestInv, EndSessionInv DEF SessionNext
<1>3. ServerInv => OneServer
  BY DEF ServerInv, OneServer
<1> QED
  BY <1>1, <1>2, <1>3, PTL DEF SessionSpec

LEMMA NextTestBracket == SearchInv /\ NextTest => SearchInv'
<1> SUFFICES ASSUME SearchInv, NextTest PROVE SearchInv'
  OBVIOUS
<1>1. /\ gasLimit' \in 1..MaxGasLimit /\ wanted' = wanted
      /\ same' \in SUBSET (0..gasLimit') /\ gasLimit' \in same'
      /\ pc' = "first" /\ minimum' = None /\ maximum' = None
      /\ current' = None /\ reported' = None
  BY DEF NextTest
<1> QED
  BY <1>1 DEF SearchInv, SearchTypeOK, Bracket

\* A probe that is repeated, or answered by another server, does not mislead the search:
\* in every test of every session it ends at an edge.
THEOREM SessionEdge == SessionSpec => []EndsAtEdge
<1>1. SessionInit => SearchInv
  BY InitSearchInv DEF SessionInit
<1>2. SearchInv /\ [SessionNext]_sessionVars => SearchInv'
  <2>1. ASSUME SearchInv, [SessionNext]_sessionVars, ~NextTest PROVE [SearchNext]_searchVars
    BY <2>1 DEF SessionNext, sessionVars, Ask, Serve, CompareOwn, Probe, EndSession
  <2> QED
    BY <2>1, SearchStep, NextTestBracket
<1>3. SearchInv => EndsAtEdge
  BY DEF SearchInv, Bracket, EndsAtEdge
<1> QED
  BY <1>1, <1>2, <1>3, PTL DEF SessionSpec

-------------------------------------------------------------------------------
(* Blocks that are filled and consumed.                                       *)

(********************************* One block *********************************)

LEMMA NoIsNoName == "no" \in Errors /\ "no" \notin Names
BY BlocksAssumption DEF Errors

\* What passes the checks of fill is declared valid if and only if it is.
LEMMA FillsTrue ==
  ASSUME NEW b, Fills(b), ~b.altered
  PROVE  /\ (b.says = "no") = (Truth(b) = "no")
         /\ reliable /\ Rejected(b) = {} => b.says = Truth(b)
<1>1. CASE Rejected(b) = {}
  BY <1>1 DEF Fills, Verify, Truth
<1>2. CASE Rejected(b) # {}
  <2>1. (CHOOSE i \in Rejected(b) : TRUE) \in Rejected(b) BY <1>2
  <2>2. Truth(b) # "no" BY <1>2, <2>1 DEF Truth, Rejected
  <2>3. b.says # "no" BY <1>2 DEF Fills
  <2> QED BY <1>2, <2>2, <2>3
<1> QED BY <1>1, <1>2

(********************************* The fixture *******************************)

Shape == /\ blocks \in Seq(Blocks) /\ parents \in Seq(Nat) /\ Len(parents) = Len(blocks)
         /\ head \in 0..Len(blocks)

\* The head is the last block that is declared valid.
HeadInv == /\ head # 0 => blocks[head].says = "no"
           /\ \A j \in (head + 1)..Len(blocks) : blocks[j].says # "no"

FillInv == Shape /\ HeadInv /\ FilledIsTrue

LEMMA ElementType ==
  ASSUME NEW S, NEW q \in Seq(S), NEW i \in 1..Len(q)
  PROVE  q[i] \in S
OBVIOUS

LEMMA AppendFacts ==
  ASSUME NEW S, NEW q \in Seq(S), NEW e \in S
  PROVE  /\ Append(q, e) \in Seq(S) /\ Len(Append(q, e)) = Len(q) + 1 /\ Len(q) \in Nat
         /\ Append(q, e)[Len(q) + 1] = e
         /\ \A i \in 1..Len(q) : Append(q, e)[i] = q[i]
         /\ DOMAIN q = 1..Len(q) /\ DOMAIN Append(q, e) = 1..(Len(q) + 1)
OBVIOUS

LEMMA FillInit == Init => FillInv
<1> SUFFICES ASSUME Init PROVE FillInv OBVIOUS
<1>1. blocks = <<>> /\ parents = <<>> /\ head = 0 BY DEF Init
<1>2. Len(<<>>) = 0 /\ DOMAIN <<>> = {} /\ <<>> \in Seq(Blocks) /\ <<>> \in Seq(Nat) OBVIOUS
<1>3. Shape BY <1>1, <1>2 DEF Shape
<1>4. HeadInv BY <1>1, <1>2 DEF HeadInv
<1>5. FilledIsTrue BY <1>1, <1>2 DEF FilledIsTrue
<1> QED BY <1>3, <1>4, <1>5 DEF FillInv

LEMMA FillKept == FillInv /\ UNCHANGED <<fixture, reliable>> => FillInv'
BY DEF FillInv, Shape, HeadInv, FilledIsTrue, fixture

LEMMA FillGenerate == FillInv /\ Generate => FillInv'
<1> SUFFICES ASSUME FillInv, Generate PROVE FillInv' OBVIOUS
<1>1. reliable' = reliable BY DEF Generate, testCase
<1>2. PICK b \in Blocks :
        IF Fills(b)
        THEN /\ blocks' = Append(blocks, b)
             /\ parents' = Append(parents, head)
             /\ head' = IF b.says = "no" THEN Len(blocks) + 1 ELSE head
        ELSE UNCHANGED fixture
  BY DEF Generate
<1>3. CASE ~Fills(b) BY <1>1, <1>2, <1>3, FillKept
<1>4. CASE Fills(b)
  <2> DEFINE n == Len(blocks) + 1
  <2>1. blocks \in Seq(Blocks) /\ parents \in Seq(Nat) /\ Len(parents) = Len(blocks)
        /\ head \in 0..Len(blocks) /\ head \in Nat /\ Len(blocks) \in Nat
    BY DEF FillInv, Shape
  <2>0. b \in Blocks /\ blocks' = Append(blocks, b) /\ parents' = Append(parents, head)
    BY <1>2, <1>4
  <2>2. /\ blocks' \in Seq(Blocks) /\ Len(blocks') = n /\ DOMAIN blocks' = 1..n
        /\ blocks'[n] = b /\ \A i \in 1..Len(blocks) : blocks'[i] = blocks[i]
        /\ DOMAIN blocks = 1..Len(blocks)
    BY <2>0, <2>1, AppendFacts
  <2>3. /\ parents' \in Seq(Nat) /\ Len(parents') = n
        /\ parents'[n] = head /\ \A i \in 1..Len(blocks) : parents'[i] = parents[i]
    BY <2>0, <2>1, AppendFacts
  <2>4. head' = (IF b.says = "no" THEN n ELSE head) BY <1>2, <1>4
  <2> HIDE DEF n
  <2>5. n = Len(blocks) + 1 BY DEF n
  <2>6. Shape' BY <2>1, <2>2, <2>3, <2>4, <2>5 DEF Shape
  <2>7. HeadInv'
    <3>1. CASE b.says = "no" BY <2>1, <2>2, <2>4, <2>5, <3>1 DEF HeadInv
    <3>2. CASE b.says # "no"
      <4>1. head' = head BY <2>4, <3>2
      <4>2. head # 0 => blocks'[head].says = "no"
        BY <2>1, <2>2 DEF FillInv, HeadInv
      <4>3. ASSUME NEW j \in (head + 1)..n PROVE blocks'[j].says # "no"
        <5>1. CASE j = n BY <2>2, <3>2, <5>1
        <5>2. CASE j # n
          <6>1. j \in (head + 1)..Len(blocks) /\ j \in 1..Len(blocks) BY <2>1, <2>5, <5>2
          <6> QED BY <2>2, <6>1 DEF FillInv, HeadInv
        <5> QED BY <5>1, <5>2
      <4> QED BY <2>2, <4>1, <4>2, <4>3 DEF HeadInv
    <3> QED BY <3>1, <3>2
  <2>8. FilledIsTrue'
    <3> SUFFICES ASSUME NEW i \in 1..n
                 PROVE  /\ ~blocks'[i].altered => (blocks'[i].says = "no") = (Truth(blocks'[i]) = "no")
                        /\ ~blocks'[i].altered /\ reliable /\ Rejected(blocks'[i]) = {}
                             => blocks'[i].says = Truth(blocks'[i])
                        /\ parents'[i] < i /\ (parents'[i] # 0 => blocks'[parents'[i]].says = "no")
                        /\ \A j \in (parents'[i] + 1)..(i - 1) : blocks'[j].says # "no"
      BY <1>1, <2>2 DEF FilledIsTrue, Truth, Rejected
    <3>1. CASE i = n
      <4>1. blocks'[i] = b /\ parents'[i] = head BY <2>2, <2>3, <3>1
      <4>2. head < i /\ (head # 0 => blocks'[head].says = "no")
        BY <2>1, <2>2, <2>5, <3>1 DEF FillInv, HeadInv
      <4>3. \A j \in (head + 1)..(i - 1) : blocks'[j].says # "no"
        <5>1. \A j \in (head + 1)..(i - 1) : j \in (head + 1)..Len(blocks) /\ j \in 1..Len(blocks)
          BY <2>1, <2>5, <3>1
        <5> QED BY <2>2, <5>1 DEF FillInv, HeadInv
      <4> QED BY <1>4, <4>1, <4>2, <4>3, FillsTrue
    <3>2. CASE i # n
      <4>1. i \in 1..Len(blocks) BY <2>1, <2>5, <3>2
      <4>2. blocks'[i] = blocks[i] /\ parents'[i] = parents[i] BY <2>2, <2>3, <4>1
      <4>3. parents[i] \in Nat BY <2>1, <4>1, ElementType
      <4>4. parents[i] < i /\ (parents[i] # 0 => blocks[parents[i]].says = "no")
            /\ \A j \in (parents[i] + 1)..(i - 1) : blocks[j].says # "no"
        BY <2>2, <4>1 DEF FillInv, FilledIsTrue
      <4>5. parents[i] # 0 => parents[i] \in 1..Len(blocks) BY <2>1, <4>1, <4>3, <4>4
      <4>6. \A j \in (parents[i] + 1)..(i - 1) : j \in 1..Len(blocks) BY <2>1, <4>1, <4>3
      <4>7. /\ ~blocks[i].altered => (blocks[i].says = "no") = (Truth(blocks[i]) = "no")
            /\ ~blocks[i].altered /\ reliable /\ Rejected(blocks[i]) = {}
                 => blocks[i].says = Truth(blocks[i])
        BY <2>2, <4>1 DEF FillInv, FilledIsTrue
      <4> QED BY <2>2, <4>2, <4>4, <4>5, <4>6, <4>7
    <3> QED BY <3>1, <3>2
  <2> QED BY <2>6, <2>7, <2>8 DEF FillInv
<1> QED BY <1>3, <1>4

LEMMA FillStep == FillInv /\ [Next]_vars => FillInv'
<1> SUFFICES ASSUME FillInv, [Next]_vars PROVE FillInv' OBVIOUS
<1>1. CASE Generate BY <1>1, FillGenerate
<1>2. CASE UNCHANGED <<fixture, reliable>> BY <1>2, FillKept
<1> QED
  BY <1>1, <1>2 DEF Next, Step, vars, testCase, Assemble, Genesis, NewPayload, Forkchoice, Import,
     Compare, SyncPayload, AddPeer, SyncDone, Wait, VerifySync

(******************************* The payloads ********************************)

Sure == \A i \in DOMAIN blocks : ~Unsure(blocks[i])
Good(n) == {0} \union {j \in 1..n : blocks[j].says = "no"}

\* What is taken at each place of an Engine API test.
PlaceInv ==
  /\ phase \in {"fill", "genesis"} => taken = Good(0)
  /\ phase \in {"payload", "forkchoice"} => at \in 1..Len(blocks)
  /\ phase = "genesis" => at = 1 /\ Len(blocks) > 0
  /\ phase = "payload" => taken = Good(at - 1)
  /\ phase = "forkchoice" => taken = Good(at) /\ blocks[at].says = "no"
  /\ phase \in {"syncPayload", "syncGenesis", "peer", "wait", "verify"} \/ result = "pass"
       => taken = Good(Len(blocks))
TakenInv == /\ phase # "over" => result = "running"
            /\ phase = "import" => format = "rlp"
            /\ phase \notin {"fill", "import", "over"} => format # "rlp"
            /\ format # "rlp" /\ Sure => PlaceInv

PassInv == result = "pass" => /\ phase = "over"
                              /\ format = "rlp" => LastIs(head)
                              /\ format = "sync" => synced

IInv == FillInv /\ TakenInv /\ PassInv

LEMMA GoodNext ==
  ASSUME NEW n \in Nat, n > 0
  PROVE  /\ blocks[n].says = "no" => Good(n) = Good(n - 1) \union {n}
         /\ blocks[n].says # "no" => Good(n) = Good(n - 1)
BY DEF Good

\* An answer that is taken for the right one to a sure block calls it valid
\* exactly if it is declared so.
LEMMA ExpectedStatus ==
  ASSUME NEW b, ~Unsure(b), NEW parent,
         NEW answer \in IF right THEN {RightAnswer(b, parent)} ELSE Answer,
         Expected(b, answer)
  PROVE  answer.status = "VALID" <=> b.says = "no"
<1>1. answer.code # "no" => answer.status # "VALID"
  BY DEF RightAnswer, Answer, Valid
<1>2. CASE answer.code # "no"
  BY <1>1, <1>2 DEF Expected, Unsure
<1>3. CASE answer.code = "no"
  BY <1>3 DEF Expected
<1> QED BY <1>2, <1>3

LEMMA TakenInit == Init => TakenInv
BY DEF Init, TakenInv, PlaceInv, Good

LEMMA TakenStep == IInv /\ [Next]_vars => TakenInv'
<1> SUFFICES ASSUME FillInv, TakenInv, [Next]_vars PROVE TakenInv' BY DEF IInv
<1>0. Len(blocks) \in Nat /\ DOMAIN blocks = 1..Len(blocks) BY DEF FillInv, Shape
<1>1. CASE Generate
  <2>1. taken' = taken /\ phase = "fill" /\ UNCHANGED <<at, format>>
        /\ (UNCHANGED <<phase, result>> \/ End("unfilled"))
    BY <1>1 DEF Generate, testCase
  <2>2. taken = {0} \/ format = "rlp" \/ ~Sure BY <2>1 DEF TakenInv, PlaceInv, Good
  <2>3. PICK b \in Blocks : blocks' = Append(blocks, b) \/ blocks' = blocks
    BY <1>1 DEF Generate, fixture
  <2>4. Sure' => Sure
    <3>1. CASE blocks' = blocks BY <3>1 DEF Sure, Unsure, Truth, Rejected
    <3>2. CASE blocks' = Append(blocks, b)
      <4>1. \A i \in DOMAIN blocks : i \in DOMAIN blocks' /\ blocks'[i] = blocks[i]
        BY <3>2, <1>0, AppendFacts DEF FillInv, Shape
      <4> QED BY <4>1 DEF Sure, Unsure, Truth, Rejected
    <3> QED BY <2>3, <3>1, <3>2
  <2> QED BY <2>1, <2>2, <2>4 DEF TakenInv, PlaceInv, Good, End
<1>2. CASE Assemble
  <2>1. UNCHANGED <<taken, blocks, format>> /\ phase = "fill" /\ at' = 1 BY <1>2 DEF Assemble, testCase, fixture
  <2>2. End("unfilled") \/ (~Refused /\ Goto(IF format = "rlp" THEN "import" ELSE "genesis"))
    BY <1>2 DEF Assemble
  <2>3. ~Refused /\ format # "rlp" => Len(blocks) > 0
    BY <1>0 DEF Refused, FillInv, Shape
  <2>4. Sure' = Sure BY <2>1 DEF Sure, Unsure, Truth, Rejected
  <2> QED BY <2>1, <2>2, <2>3, <2>4 DEF TakenInv, PlaceInv, Good, End, Goto
<1>3. CASE Genesis("genesis", "payload")
  <2>1. UNCHANGED <<taken, blocks, format, at>> /\ phase = "genesis" BY <1>3 DEF Genesis, testCase, fixture
  <2>2. Goto("payload") \/ UNCHANGED <<phase, result>> \/ End("fail") BY <1>3 DEF Genesis
  <2>3. Sure' = Sure BY <2>1 DEF Sure, Unsure, Truth, Rejected
  <2> QED BY <1>0, <2>1, <2>2, <2>3 DEF TakenInv, PlaceInv, Good, End, Goto
<1>4. CASE NewPayload
  <2>1. UNCHANGED <<blocks, format>> /\ phase = "payload" BY <1>4 DEF NewPayload, testCase, fixture
  <2>2. Sure' = Sure BY <2>1 DEF Sure, Unsure, Truth, Rejected
  <2>3. CASE ~Sure \/ format = "rlp"
    <3>1. phase' # "over" => result' = "running" /\ phase' # "import"
      BY <1>4, <2>1 DEF NewPayload, More, Goto, End, TakenInv
    <3>2. format # "rlp" BY <2>1 DEF TakenInv
    <3> QED BY <2>1, <2>2, <2>3, <3>1, <3>2, <1>4 DEF TakenInv, NewPayload, More, Goto, End
  <2>4. CASE Sure /\ format # "rlp"
    <3> DEFINE b == blocks[at]
    <3>1. at \in 1..Len(blocks) /\ taken = Good(at - 1) BY <2>1, <2>4 DEF TakenInv, PlaceInv
    <3>2. ~Unsure(b) BY <1>0, <2>4, <3>1 DEF Sure
    <3>3. PICK answer \in (IF right THEN {RightAnswer(b, parents[at])} ELSE Answer) :
            /\ taken' = IF answer.status = "VALID" THEN taken \union {at} ELSE taken
            /\ IF ~Expected(b, answer) THEN End("fail") /\ UNCHANGED at
               ELSE IF b.says = "no" THEN Goto("forkchoice") /\ UNCHANGED at
               ELSE More /\ at' = at + 1
      BY <1>4 DEF NewPayload
    <3>4. CASE ~Expected(b, answer)
      BY <2>1, <3>3, <3>4 DEF TakenInv, PlaceInv, End
    <3>5. CASE Expected(b, answer)
      <4>1. answer.status = "VALID" <=> b.says = "no" BY <3>2, <3>3, <3>5, ExpectedStatus
      <4>2. taken' = Good(at) BY <3>1, <3>3, <4>1, <1>0, GoodNext
      <4>3. CASE b.says = "no"
        BY <2>1, <2>4, <3>1, <3>3, <3>5, <4>2, <4>3 DEF TakenInv, PlaceInv, Goto, Good
      <4>4. CASE b.says # "no"
        <5>1. More /\ at' = at + 1 BY <3>3, <3>5, <4>4
        <5> QED BY <2>1, <2>4, <3>1, <4>2, <5>1, <1>0 DEF TakenInv, PlaceInv, More, Goto, End, Good
      <4> QED BY <4>3, <4>4
    <3> QED BY <3>4, <3>5
  <2> QED BY <2>3, <2>4
<1>5. CASE Forkchoice
  <2>1. UNCHANGED <<blocks, format, taken>> /\ phase = "forkchoice" BY <1>5 DEF Forkchoice, testCase, fixture
  <2>2. Sure' = Sure BY <2>1 DEF Sure, Unsure, Truth, Rejected
  <2>3. (More /\ at' = at + 1) \/ (End("fail") /\ at' = at) BY <1>5 DEF Forkchoice
  <2> QED BY <2>1, <2>2, <2>3, <1>0 DEF TakenInv, PlaceInv, More, Goto, End, Good
<1>6. CASE Import \/ Compare
  <2>1. phase = "import" /\ UNCHANGED <<format>> /\ phase' \in {"import", "over"}
        /\ (phase' = "import" => result' = result)
    BY <1>6 DEF Import, Compare, testCase, End
  <2> QED BY <2>1 DEF TakenInv
<1>7. CASE SyncPayload \/ Genesis("syncGenesis", "peer") \/ AddPeer \/ SyncDone \/ Wait \/ VerifySync
  <2>1. UNCHANGED <<blocks, format, taken, at>>
    BY <1>7 DEF SyncPayload, Genesis, AddPeer, SyncDone, Wait, VerifySync, testCase, fixture
  <2>2. Sure' = Sure BY <2>1 DEF Sure, Unsure, Truth, Rejected
  <2>3. phase \in {"syncPayload", "syncGenesis", "peer", "wait", "verify"}
    BY <1>7 DEF SyncPayload, Genesis, AddPeer, SyncDone, Wait, VerifySync
  <2>4. \/ phase' \in {"syncPayload", "syncGenesis", "peer", "wait", "verify"} /\ result' = result
        \/ phase' = "over" /\ result' \in {"pass", "fail"}
    BY <1>7 DEF SyncPayload, Genesis, AddPeer, SyncDone, Wait, VerifySync, Goto, End
  <2> QED BY <2>1, <2>2, <2>3, <2>4 DEF TakenInv, PlaceInv, Good
<1>8. CASE UNCHANGED vars
  BY <1>8 DEF vars, testCase, fixture, TakenInv, PlaceInv, Good, Sure, Unsure, Truth, Rejected
<1> QED BY <1>1, <1>2, <1>3, <1>4, <1>5, <1>6, <1>7, <1>8 DEF Next, Step

LEMMA PassStep == IInv /\ [Next]_vars => PassInv'
<1> SUFFICES ASSUME TakenInv, PassInv, [Next]_vars PROVE PassInv' BY DEF IInv
<1>1. CASE UNCHANGED vars
  BY <1>1 DEF vars, testCase, fixture, sync, PassInv, LastIs
<1>2. CASE Next
  <2>1. phase # "over" /\ result = "running"
    BY <1>2 DEF TakenInv, Next, Step, Generate, Assemble, Genesis, NewPayload, Forkchoice, Import,
       Compare, SyncPayload, AddPeer, SyncDone, Wait, VerifySync
  <2>2. CASE NewPayload
    <3>1. format # "rlp" /\ format' = format BY <2>2 DEF TakenInv, NewPayload, testCase
    <3>2. result' = "pass" => phase' = "over" /\ format # "sync"
      BY <2>1, <2>2 DEF NewPayload, More, Goto, End
    <3> QED BY <3>1, <3>2 DEF PassInv
  <2>3. CASE Forkchoice
    <3>1. format # "rlp" /\ format' = format BY <2>3 DEF TakenInv, Forkchoice, testCase
    <3>2. result' = "pass" => phase' = "over" /\ format # "sync"
      BY <2>1, <2>3 DEF Forkchoice, More, Goto, End
    <3> QED BY <3>1, <3>2 DEF PassInv
  <2>4. CASE Compare
    <3>1. result' = "pass" => phase' = "over" /\ LastIs(head) BY <2>4 DEF Compare, End
    <3>2. format = "rlp" /\ UNCHANGED <<format, taken, head>>
      BY <2>4 DEF TakenInv, Compare, testCase, fixture
    <3> QED BY <3>1, <3>2 DEF PassInv, LastIs
  <2>5. CASE VerifySync
    <3>1. result' = "pass" => phase' = "over" /\ synced /\ phase = "verify"
      BY <2>1, <2>5 DEF VerifySync, End
    <3>2. UNCHANGED <<format, synced>> BY <2>5 DEF VerifySync, testCase
    <3>3. phase = "verify" => format # "rlp" BY DEF TakenInv
    <3> QED BY <3>1, <3>2, <3>3 DEF PassInv
  <2>6. CASE ~(NewPayload \/ Forkchoice \/ Compare \/ VerifySync)
    BY <1>2, <2>1, <2>6 DEF Next, Step, Generate, Assemble, Genesis, Import, SyncPayload, AddPeer,
       SyncDone, Wait, Goto, End, PassInv
  <2> QED BY <2>2, <2>3, <2>4, <2>5, <2>6
<1> QED BY <1>1, <1>2

(********************************* The results *******************************)

\* All of the above is an invariant.
THEOREM Invariance == Spec => []IInv
<1>1. Init => IInv BY FillInit, TakenInit DEF IInv, PassInv, Init
<1>2. IInv /\ [Next]_vars => IInv' BY FillStep, TakenStep, PassStep DEF IInv
<1> QED BY <1>1, <1>2, PTL DEF Spec

\* What a fixture says of a block that was not altered is true.
THEOREM Truthful == Spec => []FilledIsTrue
<1>1. IInv => FilledIsTrue BY DEF IInv, FillInv
<1> QED BY <1>1, Invariance, PTL

\* A client that passes has taken just the valid blocks.
THEOREM Consensus == Spec => []PassMeansConsensus
<1>1. IInv => PassMeansConsensus
  <2> SUFFICES ASSUME IInv, result = "pass", \A i \in DOMAIN blocks : ~Unsure(blocks[i])
               PROVE  LET good == {i \in DOMAIN blocks : /\ Truth(blocks[i]) = "no"
                                                         /\ blocks[i].malformed = "no"} IN
                      /\ format # "rlp" => taken = good \union {0}
                      /\ format = "rlp" => LastIs(head)
                      /\ format = "sync" => synced
    BY DEF PassMeansConsensus
  <2>1. DOMAIN blocks = 1..Len(blocks) BY DEF IInv, FillInv, Shape
  <2>2. \A i \in DOMAIN blocks :
          blocks[i].says = "no" <=> Truth(blocks[i]) = "no" /\ blocks[i].malformed = "no"
    <3> SUFFICES ASSUME NEW i \in DOMAIN blocks
                 PROVE blocks[i].says = "no" <=> Truth(blocks[i]) = "no" /\ blocks[i].malformed = "no"
      OBVIOUS
    <3>1. ~Unsure(blocks[i]) OBVIOUS
    <3>2. (blocks[i].says = "no") = (Truth(blocks[i]) = "no")
      <4>1. CASE blocks[i].altered BY <3>1, <4>1 DEF Unsure
      <4>2. CASE ~blocks[i].altered BY <4>2 DEF IInv, FillInv, FilledIsTrue
      <4> QED BY <4>1, <4>2
    <3>3. blocks[i].says = "no" => blocks[i].malformed = "no" BY <3>1 DEF Unsure
    <3> QED BY <3>2, <3>3
  <2>3. format # "rlp" => taken = Good(Len(blocks)) BY DEF IInv, TakenInv, PlaceInv, Sure
  <2>4. (format = "rlp" => LastIs(head)) /\ (format = "sync" => synced) BY DEF IInv, PassInv
  <2> QED BY <2>1, <2>2, <2>3, <2>4 DEF Good
<1> QED BY <1>1, Invariance, PTL

(******************************* A right client ******************************)

Named == strict => \A i \in DOMAIN blocks : blocks[i].says = Truth(blocks[i])

\* A right client has imported, block by block, what is declared valid, answers a
\* forkchoice update at once, and fails only where the second client is late.
RightInv ==
  /\ result = "fail" /\ right /\ Sure /\ Named => format = "sync" /\ phase = "over" /\ ~synced
  /\ format = "rlp" /\ right /\ Sure =>
       /\ phase = "fill" => taken = Good(0)
       /\ phase = "import" => at \in 1..(Len(blocks) + 1) /\ taken = Good(at - 1)
  /\ phase \in {"syncPayload", "syncGenesis", "peer", "wait", "verify"} => format = "sync"
  /\ phase \notin {"wait", "verify", "over"} => waited = 0
  /\ right /\ phase = "wait" => waited \in 0..Interval

LEMMA RightInit == Init => RightInv
BY DEF Init, RightInv, Good

LEMMA SureStays ==
  ASSUME UNCHANGED blocks
  PROVE  Sure' <=> Sure
BY DEF Sure, Unsure, Truth, Rejected

\* Of a sure block it is true that it is valid if it is declared so.
LEMMA SureTrue ==
  ASSUME IInv, Sure, NEW i \in DOMAIN blocks
  PROVE  /\ blocks[i].says = "no" <=> Truth(blocks[i]) = "no"
         /\ blocks[i].code = blocks[i].malformed
         /\ blocks[i].malformed # "no" => blocks[i].says # "no"
<1>1. ~Unsure(blocks[i]) BY DEF Sure
<1>2. CASE blocks[i].altered BY <1>1, <1>2 DEF Unsure
<1>3. CASE ~blocks[i].altered BY <1>1, <1>3 DEF Unsure, IInv, FillInv, FilledIsTrue
<1> QED BY <1>2, <1>3

\* The parent of a block is genesis or a valid block before it.
LEMMA ParentGood ==
  ASSUME IInv, NEW i \in 1..Len(blocks)
  PROVE  i \in DOMAIN blocks /\ parents[i] \in Good(i - 1)
<1>1. /\ blocks \in Seq(Blocks) /\ parents \in Seq(Nat) /\ Len(parents) = Len(blocks)
      /\ DOMAIN blocks = 1..Len(blocks)
  BY DEF IInv, FillInv, Shape
<1>2. parents[i] < i /\ (parents[i] # 0 => blocks[parents[i]].says = "no")
  BY <1>1 DEF IInv, FillInv, FilledIsTrue
<1>3. parents[i] \in Nat BY <1>1, ElementType
<1>4. parents[i] # 0 => parents[i] \in 1..(i - 1) BY <1>1, <1>2, <1>3
<1> QED BY <1>1, <1>2, <1>4 DEF Good

\* What the test expects of newPayload is the answer of a right client.
LEMMA RightExpected ==
  ASSUME NEW b, NEW parent, parent \in taken, b.says = "no" <=> Truth(b) = "no",
         b.code = b.malformed, strict => b.says = Truth(b)
  PROVE  Expected(b, RightAnswer(b, parent))
<1>1. ASSUME NEW answer, answer = RightAnswer(b, parent) PROVE Expected(b, answer)
  <2>1. CASE b.malformed # "no"
    <3>1. answer = [status |-> "ERROR", error |-> "no", code |-> b.malformed]
      BY <1>1, <2>1 DEF RightAnswer
    <3>2. answer.code = b.code BY <3>1
    <3> QED BY <2>1, <3>2 DEF Expected
  <2>2. CASE b.malformed = "no" /\ Truth(b) = "no"
    <3>1. answer = [status |-> "VALID", error |-> "no", code |-> "no"]
      BY <1>1, <2>2 DEF RightAnswer, Valid
    <3>2. answer.status = "VALID" /\ answer.code = "no" BY <3>1
    <3> QED BY <2>2, <3>2 DEF Expected
  <2>3. CASE b.malformed = "no" /\ Truth(b) # "no"
    <3>1. answer = [status |-> "INVALID", error |-> Truth(b), code |-> "no"]
      BY <1>1, <2>3 DEF RightAnswer
    <3>2. answer.status = "INVALID" /\ answer.error = Truth(b) /\ answer.code = "no" BY <3>1
    <3> QED BY <2>3, <3>2 DEF Expected
  <2> QED BY <2>1, <2>2, <2>3
<1> QED BY <1>1

LEMMA RightIsExpected ==
  ASSUME IInv, Sure, Named, NEW i \in 1..Len(blocks), taken = Good(i - 1)
  PROVE  Expected(blocks[i], RightAnswer(blocks[i], parents[i]))
<1>1. i \in DOMAIN blocks /\ parents[i] \in taken BY ParentGood
<1>2. /\ blocks[i].says = "no" <=> Truth(blocks[i]) = "no"
      /\ blocks[i].code = blocks[i].malformed
      /\ strict => blocks[i].says = Truth(blocks[i])
  BY <1>1, SureTrue DEF Named
<1> QED BY <1>1, <1>2, RightExpected

\* And it imports a block exactly if it is declared valid.
LEMMA RightImports ==
  ASSUME IInv, Sure, NEW i \in 1..Len(blocks), taken = Good(i - 1)
  PROVE  RightAnswer([blocks[i] EXCEPT !.malformed = "no"], parents[i]) = Valid
           <=> blocks[i].says = "no"
<1> DEFINE b == blocks[i]
           c == [b EXCEPT !.malformed = "no"]
<1>1. i \in DOMAIN blocks /\ parents[i] \in taken BY ParentGood
<1>2. b.says = "no" <=> Truth(b) = "no" BY <1>1, SureTrue
<1>3. b \in Block
  <2>1. blocks \in Seq(Blocks) BY DEF IInv, FillInv, Shape
  <2> QED BY <2>1, ElementType, BlocksAssumption
<1> HIDE DEF b
<1>4. c.malformed = "no" /\ c.altered = b.altered /\ c.real = b.real /\ c.txs = b.txs
      /\ c.finds = b.finds
  BY <1>3 DEF Block
<1> HIDE DEF c
<1>5. Truth(c) = Truth(b)
  <2>1. Rejected(c) = Rejected(b) BY <1>4 DEF Rejected
  <2> QED BY <1>4, <2>1 DEF Truth
<1>6. RightAnswer(c, parents[i]) = Valid <=> Truth(b) = "no"
  BY <1>1, <1>4, <1>5 DEF RightAnswer, Valid
<1> QED BY <1>2, <1>6 DEF b, c

\* The last block a client has that took what is declared valid.
LEMMA HeadIsLast ==
  ASSUME IInv, taken = Good(Len(blocks))
  PROVE  LastIs(head)
<1>1. head \in 0..Len(blocks) /\ Len(blocks) \in Nat BY DEF IInv, FillInv, Shape
<1>2. head \in taken BY <1>1 DEF IInv, FillInv, HeadInv, Good
<1>3. ASSUME NEW j \in taken PROVE j <= head
  <2>1. j = 0 \/ (j \in 1..Len(blocks) /\ blocks[j].says = "no") BY <1>3 DEF Good
  <2>2. j \in (head + 1)..Len(blocks) => blocks[j].says # "no" BY DEF IInv, FillInv, HeadInv
  <2> QED BY <1>1, <2>1, <2>2
<1> QED BY <1>2, <1>3 DEF LastIs

LEMMA FailsOnlyLate ==
  ASSUME IInv, RightInv, Next, result' = "fail", right, Sure, Named
  PROVE  format = "sync" /\ phase' = "over" /\ ~synced'
<1>0. phase # "over" /\ result = "running"
  BY DEF IInv, TakenInv, Next, Step, Generate, Assemble, Genesis, NewPayload, Forkchoice, Import,
     Compare, SyncPayload, AddPeer, SyncDone, Wait, VerifySync
<1>1. CASE Generate \/ Assemble \/ Import \/ SyncDone
  BY <1>0, <1>1 DEF Generate, Assemble, Import, SyncDone, Goto, End
<1>2. CASE Genesis("genesis", "payload") \/ Genesis("syncGenesis", "peer")
           \/ SyncPayload \/ AddPeer
  BY <1>0, <1>2 DEF Genesis, SyncPayload, AddPeer, Goto, End
<1>3. CASE NewPayload
  <2>1. phase = "payload" /\ format # "rlp" BY <1>3 DEF NewPayload, IInv, TakenInv
  <2>2. at \in 1..Len(blocks) /\ taken = Good(at - 1) BY <2>1 DEF IInv, TakenInv, PlaceInv
  <2>3. Expected(blocks[at], RightAnswer(blocks[at], parents[at])) BY <2>2, RightIsExpected
  <2> QED BY <1>0, <1>3, <2>3 DEF NewPayload, More, Goto, End
<1>4. CASE Forkchoice
  <2>1. phase = "forkchoice" /\ format # "rlp" BY <1>4 DEF Forkchoice, IInv, TakenInv
  <2>2. at \in 1..Len(blocks) /\ taken = Good(at) /\ blocks[at].says = "no"
    BY <2>1 DEF IInv, TakenInv, PlaceInv
  <2>3. at \in taken BY <2>2 DEF Good
  <2> QED BY <1>0, <1>4, <2>3 DEF Forkchoice, More, Goto, End
<1>5. CASE Compare
  <2>1. phase = "import" /\ format = "rlp" /\ at > Len(blocks)
    BY <1>5 DEF Compare, IInv, TakenInv
  <2>2. at \in 1..(Len(blocks) + 1) /\ taken = Good(at - 1) BY <2>1 DEF RightInv
  <2>3. Len(blocks) \in Nat BY DEF IInv, FillInv, Shape
  <2>4. at - 1 = Len(blocks) BY <2>1, <2>2, <2>3
  <2>5. LastIs(head) BY <2>2, <2>4, HeadIsLast
  <2> QED BY <1>5, <2>5 DEF Compare, End
<1>6. CASE Wait
  <2>1. waited \in 0..Interval /\ waited # Timeout
    BY <1>6, BoundsAssumption DEF Wait, RightInv
  <2> QED BY <1>0, <1>6, <2>1 DEF Wait, Goto, End
<1>7. CASE VerifySync
  <2>1. phase = "verify" /\ format = "sync" BY <1>7 DEF VerifySync, RightInv
  <2> QED BY <1>0, <1>7, <2>1 DEF VerifySync, End
<1> QED BY <1>1, <1>2, <1>3, <1>4, <1>5, <1>6, <1>7 DEF Next, Step

\* Only Generate touches the blocks, and it lets a doubt stay a doubt.
LEMMA SureBefore ==
  ASSUME IInv, [Next]_vars
  PROVE  /\ Sure' => Sure /\ UNCHANGED <<format, right, strict>>
         /\ UNCHANGED blocks \/ (phase = "fill" /\ result' = result /\ taken' = taken /\ phase' = phase)
<1>1. CASE UNCHANGED <<blocks, format, right, strict>>
  BY <1>1, SureStays
<1>2. CASE Generate
  <2>1. PICK b \in Blocks : blocks' = Append(blocks, b) \/ blocks' = blocks
    BY <1>2 DEF Generate, fixture
  <2>2. CASE blocks' = blocks BY <1>2, <2>2, SureStays DEF Generate, testCase
  <2>3. CASE blocks' = Append(blocks, b) /\ blocks' # blocks
    <3>1. \A i \in DOMAIN blocks : i \in DOMAIN blocks' /\ blocks'[i] = blocks[i]
      BY <2>3, AppendFacts DEF IInv, FillInv, Shape
    <3>2. Sure' => Sure BY <3>1 DEF Sure, Unsure, Truth, Rejected
    <3> QED BY <1>2, <2>3, <3>2 DEF Generate, testCase, fixture
  <2> QED BY <2>1, <2>2, <2>3
<1> QED BY <1>1, <1>2 DEF Next, Step, vars, testCase, fixture, Assemble, Genesis, NewPayload,
       Forkchoice, Import, Compare, SyncPayload, AddPeer, SyncDone, Wait, VerifySync

LEMMA RightStep == IInv /\ RightInv /\ [Next]_vars => RightInv'
<1> SUFFICES ASSUME IInv, RightInv, [Next]_vars PROVE RightInv' OBVIOUS
<1>0. /\ Sure' => Sure
      /\ UNCHANGED <<format, right, strict>>
      /\ UNCHANGED blocks \/ (phase = "fill" /\ result' = result /\ taken' = taken /\ phase' = phase)
  <2>1. UNCHANGED <<format, right, strict>>
    BY DEF Next, Step, vars, testCase, Generate, Assemble, Genesis, NewPayload,
       Forkchoice, Import, Compare, SyncPayload, AddPeer, SyncDone, Wait, VerifySync
  <2> QED BY <2>1, SureBefore
<1>a. CASE UNCHANGED vars
  BY <1>a, <1>0 DEF vars, testCase, fixture, sync, RightInv, Named, Truth, Rejected, Good
<1>b. CASE Next
  <2>0. phase # "over" /\ result = "running"
    BY <1>b DEF IInv, TakenInv, Next, Step, Generate, Assemble, Genesis, NewPayload, Forkchoice,
       Import, Compare, SyncPayload, AddPeer, SyncDone, Wait, VerifySync
  <2>1. ASSUME result' = "fail", right', Sure', Named'
        PROVE  format' = "sync" /\ phase' = "over" /\ ~synced'
    <3>1. UNCHANGED blocks BY <1>0, <2>0, <2>1
    <3>2. right /\ Sure /\ Named BY <1>0, <2>1, <3>1 DEF Named, Truth, Rejected
    <3> QED BY <1>0, <1>b, <2>1, <3>2, FailsOnlyLate
  <2>2. ASSUME format' = "rlp", right', Sure'
        PROVE  /\ phase' = "fill" => taken' = Good(0)'
               /\ phase' = "import" => at' \in 1..(Len(blocks') + 1) /\ taken' = Good(at - 1)'
    <3>0. format = "rlp" /\ right /\ Sure BY <1>0, <2>2
    <3>1. CASE Generate
      <4>1. taken' = taken /\ phase = "fill" /\ phase' \in {"fill", "over"}
        BY <3>1 DEF Generate, End
      <4> QED BY <3>0, <4>1 DEF RightInv, Good
    <3>2. CASE Assemble
      <4>1. phase = "fill" /\ at' = 1 /\ phase' \in {"over", "import", "genesis"}
            /\ UNCHANGED <<taken, blocks>>
        BY <3>2 DEF Assemble, Goto, End, fixture
      <4>2. Len(blocks) \in Nat BY DEF IInv, FillInv, Shape
      <4> QED BY <3>0, <4>1, <4>2 DEF RightInv, Good
    <3>3. CASE Import
      <4>1. /\ phase = "import" /\ at <= Len(blocks) /\ phase' = phase /\ at' = at + 1
            /\ blocks' = blocks
        BY <3>3 DEF Import, fixture
      <4>2. at \in 1..(Len(blocks) + 1) /\ taken = Good(at - 1) BY <3>0, <4>1 DEF RightInv
      <4>3. Len(blocks) \in Nat BY DEF IInv, FillInv, Shape
      <4>4. at \in 1..Len(blocks) /\ at \in Nat /\ at > 0 /\ at' - 1 = at
            /\ at' \in 1..(Len(blocks) + 1)
        BY <4>1, <4>2, <4>3
      <4>5. taken' = IF blocks[at].says = "no" THEN taken \union {at} ELSE taken
        BY <3>0, <3>3, <4>2, <4>4, RightImports DEF Import
      <4>6. taken' = Good(at) BY <4>2, <4>4, <4>5, GoodNext
      <4> QED BY <4>1, <4>4, <4>6 DEF Good
    <3>4. CASE ~(Generate \/ Assemble \/ Import)
      <4>1. phase' \notin {"fill", "import"}
        BY <1>b, <3>4, <2>0 DEF Next, Step, Genesis, NewPayload, Forkchoice, Compare, SyncPayload,
           AddPeer, SyncDone, Wait, VerifySync, More, Goto, End
      <4> QED BY <4>1
    <3> QED BY <3>1, <3>2, <3>3, <3>4
  <2>3. phase' \in {"syncPayload", "syncGenesis", "peer", "wait", "verify"} => format' = "sync"
    BY <1>0, <1>b DEF RightInv, Next, Step, Generate, Assemble, Genesis, NewPayload, Forkchoice,
       Import, Compare, SyncPayload, AddPeer, SyncDone, Wait, VerifySync, More, Goto, End
  <2>4. phase' \notin {"wait", "verify", "over"} => waited' = 0
    BY <1>b DEF RightInv, Next, Step, Generate, Assemble, Genesis, NewPayload, Forkchoice,
       Import, Compare, SyncPayload, AddPeer, SyncDone, Wait, VerifySync, More, Goto, End, sync
  <2>5. ASSUME right', phase' = "wait" PROVE waited' \in 0..Interval
    <3>1. CASE Wait
      <4>1. phase = "wait" /\ right BY <1>0, <2>5, <3>1 DEF Wait
      <4>2. waited \in 0..Interval BY <4>1 DEF RightInv
      <4>3. waited' = waited \/ (waited < Interval /\ waited' = waited + 1)
        BY <3>1, <4>1 DEF Wait
      <4> QED BY <4>2, <4>3, BoundsAssumption
    <3>2. CASE ~Wait
      <4>1. waited' = waited /\ (phase = "wait" \/ phase = "peer")
        BY <1>b, <2>5, <3>2 DEF Next, Step, Generate, Assemble, Genesis, NewPayload, Forkchoice,
           Import, Compare, SyncPayload, AddPeer, SyncDone, VerifySync, More, Goto, End, sync
      <4> QED BY <1>0, <2>5, <4>1, BoundsAssumption DEF RightInv
    <3> QED BY <3>1, <3>2
  <2> QED BY <2>1, <2>2, <2>3, <2>4, <2>5 DEF RightInv
<1> QED BY <1>a, <1>b

\* A right client fails no test, unless a declaration nobody compared was wrong, or its name
\* is asked for and could not have been compared, or the second client is late.
THEOREM RightClient == Spec => []RightClientPasses
<1>1. Init => RightInv BY RightInit
<1>2. IInv /\ RightInv /\ [Next]_vars => RightInv' BY RightStep
<1>3. RightInv => RightClientPasses BY DEF RightInv, RightClientPasses, Sure, Named
<1> QED BY <1>1, <1>2, <1>3, Invariance, PTL DEF Spec
===============================================================================
