------------------------- MODULE ExecuteSession_proofs -------------------------
(* For any number of workers, replacements and faults: the count of the       *)
(* session folder is right, so is the nonce that the workers hand on, and a   *)
(* worker that dies between two sections stops no other one.                  *)
EXTENDS ExecuteSession, FiniteSetTheorems, TLAPS

Section == {"openNonce", "writeNonce"}

\* At most one worker is between its funding transaction and the end of the
\* file that tells of it, and it holds the nonce to write.
Alone == \A v, w \in All : pc[v] \in Section /\ pc[w] \in Section => v = w
Handed == \A w \in All : ~lost /\ pc[w] \in Section => nonce[w] = Len(funded)

\* A nonce read from the latest block is not beyond the transactions taken.
NotBeyond == \A w \in All : pc[w] \in {"share", "writeShare", "fund"} => nonce[w] <= Len(funded)

NonceInv == Alone /\ Handed /\ NotBeyond /\ NonceAgrees

IInv == TypeOK /\ CountRight /\ NonceInv

LEMMA Finite == IsFiniteSet(All) /\ Cardinality(All) \in Nat
<1>1. IsFiniteSet(All)
  BY WorkersAssumption, FS_Union DEF All
<1> QED BY <1>1, FS_CardinalityType

LEMMA PresentFinite == IsFiniteSet(Present) /\ Cardinality(Present) \in 0..Cardinality(All)
<1>1. Present \subseteq All BY DEF Present
<1>2. IsFiniteSet(Present) BY <1>1, Finite, FS_Subset
<1>3. Cardinality(Present) <= Cardinality(All) BY <1>1, Finite, FS_Subset
<1> QED BY <1>2, <1>3, Finite, FS_CardinalityType

Gone == {"out", "done", "failed"}

\* Who moves from one place of the session to another leaves the present as they are.
LEMMA PresentSame ==
  ASSUME pc \in [All -> Places], NEW w \in All, NEW x,
         Goto(w, x), pc[w] \notin Gone, x \notin Gone
  PROVE  Present' = Present
BY DEF Goto, Present, Gone

LEMMA InitOK == Init => IInv
<1> SUFFICES ASSUME Init PROVE IInv OBVIOUS
<1>1. Present = {} BY DEF Init, Present
<1>2. CountRight BY <1>1, FS_EmptySet DEF Init, CountRight, TornCount
<1>3. TypeOK
  <2>1. users \in -1..Cardinality(All) BY Finite DEF Init
  <2>2. funded \in Seq([to : All, value : Nat]) /\ mined \in 0..Len(funded) BY DEF Init
  <2>3. seed \in Int /\ owed \in Int BY AmountsAssumption DEF Init
  <2>4. faults \in 0..MaxFaults BY BoundsAssumption DEF Init
  <2>5. shareFile \in File /\ nonceFile \in File BY DEF Init, Absent, File
  <2>6. key \in [All -> Nat] /\ share \in [All -> Int] /\ nonce \in [All -> Int] BY DEF Init
  <2>7. pc \in [All -> Places] /\ why \in [All -> Reasons] BY DEF Init, Places, Reasons
  <2> QED BY <2>1, <2>2, <2>3, <2>4, <2>5, <2>6, <2>7 DEF Init, TypeOK
<1>4. NonceInv
  BY DEF Init, NonceInv, Alone, Handed, NotBeyond, NonceAgrees, Section, Absent
<1> QED BY <1>2, <1>3, <1>4 DEF IInv

-------------------------------------------------------------------------------
(* The count.                                                                 *)

LEMMA CountStep == TypeOK /\ CountRight /\ [Next]_vars => CountRight'
<1> SUFFICES ASSUME TypeOK, CountRight, [Next]_vars PROVE CountRight' OBVIOUS
<1> USE DEF TypeOK
<1>a. ASSUME NEW w \in All, NEW x, Goto(w, x), pc[w] \notin Gone, x \notin Gone, users' = users
      PROVE  CountRight'
  BY <1>a, PresentSame DEF CountRight, TornCount
<1>1. ASSUME NEW w \in All, Join(w) PROVE CountRight'
  <2>1. CASE users = TornCount BY <1>1, <2>1 DEF Join, CountRight, TornCount, bounds
  <2>2. CASE users # TornCount
    <3>1. Present' = Present \union {w} /\ w \notin Present
      BY <1>1, <2>2 DEF Join, Goto, Present
    <3>2. Cardinality(Present') = Cardinality(Present) + 1
      BY <3>1, PresentFinite, FS_AddElement
    <3> QED BY <1>1, <2>2, <3>2 DEF Join, CountRight
  <2> QED BY <2>1, <2>2
<1>2. ASSUME NEW w \in All, Leave(w) PROVE CountRight'
  <2>1. CASE users = TornCount BY <1>2, <2>1 DEF Leave, CountRight, TornCount
  <2>2. CASE users # TornCount
    <3>1. Present' = Present \ {w} /\ w \in Present
      BY <1>2, <2>2 DEF Leave, Goto, Present
    <3>2. Cardinality(Present') = Cardinality(Present) - 1
      BY <3>1, PresentFinite, FS_RemoveElement
    <3> QED BY <1>2, <2>2, <3>2 DEF Leave, CountRight
  <2> QED BY <2>1, <2>2
<1>3. ASSUME NEW w \in All, Connect(w) PROVE CountRight'
  BY <1>3, <1>a DEF Connect, Fail, Gone
<1>4. ASSUME NEW w \in All, Update(w) PROVE CountRight'
  BY <1>4, <1>a DEF Update, Fail, Gone
<1>5. ASSUME NEW w \in All, SeedSender(w) PROVE CountRight'
  BY <1>5, <1>a DEF SeedSender, Gone, folder
<1>6. ASSUME NEW w \in All, InitialBalance(w) PROVE CountRight'
  BY <1>6, <1>a DEF InitialBalance, Fail, Gone
<1>7. ASSUME NEW w \in All, WriteShare(w) PROVE CountRight'
  BY <1>7, <1>a DEF WriteShare, Gone
<1>8. ASSUME NEW w \in All, Fund(w) PROVE CountRight'
  <2>1. pc[w] = "fund" /\ users' = users BY <1>8 DEF Fund, folder
  <2>2. Goto(w, "leave") \/ Goto(w, "openNonce") BY <1>8 DEF Fund, Fail
  <2> QED BY <2>1, <2>2, <1>a DEF Gone
<1>9. ASSUME NEW w \in All, OpenNonce(w) PROVE CountRight'
  BY <1>9, <1>a DEF OpenNonce, Gone
<1>10. ASSUME NEW w \in All, WriteNonce(w) PROVE CountRight'
  BY <1>10, <1>a DEF WriteNonce, Gone
<1>11. ASSUME NEW w \in All, Wait(w) PROVE CountRight'
  BY <1>11, <1>a DEF Wait, Fail, Gone, folder
<1>12. ASSUME NEW w \in All, Tests(w) PROVE CountRight'
  BY <1>12, <1>a DEF Tests, Gone, folder
<1>13. ASSUME NEW w \in All, Refund(w) PROVE CountRight'
  BY <1>13, <1>a DEF Refund, Gone, folder
<1>14. ASSUME NEW w \in All, Kill(w) PROVE CountRight'
  BY <1>14, <1>a DEF Kill, Gone, Over, folder
<1>15. ASSUME NEW w \in All, KillCounting(w) PROVE CountRight'
  BY <1>15 DEF KillCounting, CountRight
<1>16. CASE Mine
  BY <1>16 DEF Mine, CountRight, TornCount, Present, folder, worker
<1>17. CASE UNCHANGED vars
  BY <1>17 DEF vars, CountRight, TornCount, Present, folder, worker
<1> QED
  BY <1>1, <1>2, <1>3, <1>4, <1>5, <1>6, <1>7, <1>8, <1>9, <1>10, <1>11, <1>12, <1>13, <1>14,
     <1>15, <1>16, <1>17 DEF Next, Step

-------------------------------------------------------------------------------
(* The types, in three parts.                                                 *)

FolderType == /\ users \in -1..Cardinality(All)
              /\ forkchoice \in {"none", "error", "sent"}
              /\ shareFile \in File /\ nonceFile \in File
NodeType == /\ seed \in Int /\ owed \in Int /\ key \in [All -> Nat]
            /\ funded \in Seq([to : All, value : Nat]) /\ mined \in 0..Len(funded)
WorkerType == /\ pc \in [All -> Places] /\ why \in [All -> Reasons]
              /\ share \in [All -> Int] /\ nonce \in [All -> Int]
BoundsType == faults \in 0..MaxFaults /\ lost \in BOOLEAN

LEMMA TypeParts == FolderType' /\ NodeType' /\ WorkerType' /\ BoundsType' => TypeOK'
BY DEF TypeOK, FolderType, NodeType, WorkerType, BoundsType

LEMMA FolderStep == TypeOK /\ CountRight /\ CountRight' /\ [Next]_vars => FolderType'
<1> SUFFICES ASSUME TypeOK, CountRight, CountRight', [Next]_vars PROVE FolderType' OBVIOUS
<1>1. users' \in -1..Cardinality(All)
  <2>1. users' = TornCount \/ users' = Cardinality(Present') BY DEF CountRight
  <2>2. Present' \subseteq All BY DEF Present
  <2>3. Cardinality(Present') \in 0..Cardinality(All)
    <3>1. IsFiniteSet(Present') BY <2>2, Finite, FS_Subset
    <3>2. Cardinality(Present') <= Cardinality(All) BY <2>2, Finite, FS_Subset
    <3> QED BY <3>1, <3>2, Finite, FS_CardinalityType
  <2> QED BY <2>1, <2>3, Finite DEF TornCount
<1>2. forkchoice' \in {"none", "error", "sent"}
  BY ZenonT(60) DEF TypeOK, Next, Step, vars, folder, Join, Leave, Connect, Update, SeedSender, InitialBalance,
     WriteShare, Fund, OpenNonce, WriteNonce, Wait, Tests, Refund, Mine, Kill, KillCounting
<1>3. \A i \in Int : Whole(i) \in File /\ Torn \in File /\ Absent \in File
  BY DEF Whole, Torn, Absent, File
<1>4. shareFile' \in {shareFile, Absent, Torn} \union {Whole(share[w]) : w \in All}
  BY DEF Next, Step, vars, folder, Join, Leave, Connect, Update, SeedSender, InitialBalance,
     WriteShare, Fund, OpenNonce, WriteNonce, Wait, Tests, Refund, Mine, Kill, KillCounting
<1>5. nonceFile' \in {nonceFile, Absent, Torn} \union {Whole(nonce[w]) : w \in All}
  BY DEF Next, Step, vars, folder, Join, Leave, Connect, Update, SeedSender, InitialBalance,
     WriteShare, Fund, OpenNonce, WriteNonce, Wait, Tests, Refund, Mine, Kill, KillCounting
<1>6. shareFile' \in File
  <2>1. \A w \in All : share[w] \in Int BY DEF TypeOK
  <2> QED BY <1>3, <1>4, <2>1 DEF TypeOK
<1>7. nonceFile' \in File
  <2>1. \A w \in All : nonce[w] \in Int BY DEF TypeOK
  <2> QED BY <1>3, <1>5, <2>1 DEF TypeOK
<1> QED BY <1>1, <1>2, <1>6, <1>7 DEF FolderType

LEMMA ElementType ==
  ASSUME NEW S, NEW q \in Seq(S), NEW i \in 1..Len(q)
  PROVE  q[i] \in S
OBVIOUS

LEMMA NodeStep == TypeOK /\ [Next]_vars => NodeType'
<1> SUFFICES ASSUME TypeOK, [Next]_vars PROVE NodeType' OBVIOUS
<1>1. CASE Mine
  <2>0. funded \in Seq([to : All, value : Nat]) /\ Len(funded) \in Nat BY DEF TypeOK
  <2>7. mined \in 0..Len(funded) BY DEF TypeOK
  <2>8. mined < Len(funded) BY <1>1 DEF Mine
  <2>1. mined + 1 \in 1..Len(funded) BY <2>0, <2>7, <2>8
  <2>2. funded[mined + 1] \in [to : All, value : Nat] BY <2>0, <2>1, ElementType
  <2>6. funded[mined + 1].value \in Int /\ TransferCost \in Int /\ seed \in Int /\ owed \in Int
    BY <2>2, AmountsAssumption DEF TypeOK
  <2>3. seed' \in Int /\ owed' \in Int BY SMTT(30), <1>1, <2>6 DEF Mine
  <2>4. key' \in [All -> Nat]
    <3> DEFINE tx == funded[mined + 1]
    <3>1. key[tx.to] + tx.value \in Nat BY SMTT(30), <2>2 DEF TypeOK
    <3>2. key' = [key EXCEPT ![tx.to] = key[tx.to] + tx.value] BY <1>1 DEF Mine
    <3> QED BY <3>1, <3>2 DEF TypeOK
  <2>9. mined' = mined + 1 /\ funded' = funded BY <1>1 DEF Mine, folder, worker, bounds
  <2>5. mined' \in 0..Len(funded) /\ funded' = funded BY <2>0, <2>1, <2>9
  <2> QED BY <2>0, <2>3, <2>4, <2>5 DEF NodeType
<1>2. ASSUME NEW w \in All, Fund(w) PROVE NodeType'
  <2>1. CASE funded' = funded BY <1>2, <2>1 DEF Fund, TypeOK, NodeType
  <2>2. CASE funded' = Append(funded, [to |-> w, value |-> share[w]]) /\ share[w] >= 0
    <3>1. share[w] \in Nat BY <2>2 DEF TypeOK
    <3>2. [to |-> w, value |-> share[w]] \in [to : All, value : Nat] BY <3>1
    <3>3. funded' \in Seq([to : All, value : Nat]) /\ Len(funded') = Len(funded) + 1
      BY <2>2, <3>2 DEF TypeOK
    <3>4. mined' \in 0..Len(funded') BY <1>2, <3>3 DEF Fund, TypeOK
    <3>5. UNCHANGED <<seed, key>> /\ owed' = owed + share[w] + TransferCost
      BY <1>2, <2>2, <3>3 DEF Fund, TypeOK
    <3>6. owed' \in Int BY <3>1, <3>5, AmountsAssumption DEF TypeOK
    <3> QED BY <3>3, <3>4, <3>5, <3>6 DEF TypeOK, NodeType
  <2>3. share[w] \in Int BY DEF TypeOK
  <2> QED BY <1>2, <2>1, <2>2, <2>3 DEF Fund
<1>3. ASSUME NEW w \in All, Tests(w) PROVE NodeType'
  <2>1. PICK s \in Spending : key' = [key EXCEPT ![w] = IF s > @ THEN 0 ELSE @ - s]
    BY <1>3 DEF Tests
  <2>2. s \in Nat /\ key[w] \in Nat BY AmountsAssumption DEF TypeOK
  <2>3. key' \in [All -> Nat] BY <2>1, <2>2 DEF TypeOK
  <2> QED BY <1>3, <2>3 DEF Tests, TypeOK, NodeType
<1>4. ASSUME NEW w \in All, Refund(w) PROVE NodeType'
  <2>1. key[w] \in Nat /\ RefundCost \in Int BY AmountsAssumption DEF TypeOK, RefundCost
  <2>2. seed' \in Int BY <1>4, <2>1 DEF Refund, TypeOK
  <2>3. key' \in [All -> Nat]
    <3>1. key' = key \/ key' = [key EXCEPT ![w] = 1] BY <1>4 DEF Refund
    <3>2. key \in [All -> Nat] /\ 1 \in Nat BY DEF TypeOK
    <3> QED BY <3>1, <3>2
  <2> QED BY <1>4, <2>2, <2>3 DEF Refund, TypeOK, NodeType
<1>5. CASE UNCHANGED node BY <1>5 DEF node, TypeOK, NodeType
<1> QED
  BY <1>1, <1>2, <1>3, <1>4, <1>5 DEF Next, Step, vars, Join, Leave, Connect, Update, SeedSender,
     InitialBalance, WriteShare, OpenNonce, WriteNonce, Wait, Kill, KillCounting

LEMMA WorkerStep == TypeOK /\ [Next]_vars => WorkerType'
<1> SUFFICES ASSUME TypeOK, [Next]_vars PROVE WorkerType' OBVIOUS
<1>0. \A w \in All, x \in Places : Goto(w, x) => pc' \in [All -> Places]
  BY DEF Goto, TypeOK
<1>1. pc' \in [All -> Places]
  <2>1. UNCHANGED pc \/ \E w \in All, x \in Places : Goto(w, x)
    BY DEF Next, Step, Fail, vars, worker, Places, Join, Leave, Connect, Update, SeedSender,
       InitialBalance, WriteShare, Fund, OpenNonce, WriteNonce, Wait, Tests, Refund, Mine, Kill,
       KillCounting
  <2> QED BY <1>0, <2>1 DEF TypeOK
<1>2. why' \in [All -> Reasons]
  BY ZenonT(60) DEF TypeOK, Next, Step, Fail, vars, worker, Reasons, Answer, Join, Leave, Connect, Update, SeedSender, InitialBalance,
     WriteShare, Fund, OpenNonce, WriteNonce, Wait, Tests, Refund, Mine, Kill, KillCounting
<1>3. share' \in [All -> Int]
  <2>1. ASSUME NEW w \in All, InitialBalance(w) PROVE share' \in [All -> Int]
    <3>1. shareFile.n \in Int BY DEF TypeOK, File
    <3>2. Cardinality(Workers) \in Nat \ {0}
      BY WorkersAssumption, FS_CardinalityType, FS_EmptySet
    <3>5. seed \in Int BY DEF TypeOK
    <3>3. PerWorker \in Int BY <3>2, <3>5 DEF PerWorker
    <3>4. PerWorker - TransferCost \in Int BY <3>3, AmountsAssumption
    <3> QED BY <2>1, <3>1, <3>4 DEF InitialBalance, TypeOK
  <2> QED
    BY <2>1 DEF TypeOK, Next, Step, vars, worker, Join, Leave, Connect, Update, SeedSender,
       WriteShare, Fund, OpenNonce, WriteNonce, Wait, Tests, Refund, Mine, Kill, KillCounting
<1>4. nonce' \in [All -> Int]
  <2>1. nonce \in [All -> Int] /\ mined \in Int /\ nonceFile.n \in Int BY DEF TypeOK, File
  <2>2. ASSUME NEW w \in All, SeedSender(w) PROVE nonce' \in [All -> Int]
    <3>1. nonce' = [nonce EXCEPT ![w] = mined] BY <2>2 DEF SeedSender
    <3> QED BY <2>1, <3>1
  <2>3. ASSUME NEW w \in All, Fund(w) PROVE nonce' \in [All -> Int]
    <3> DEFINE n == IF nonceFile.is = "whole" THEN nonceFile.n ELSE nonce[w]
    <3>1. n + 1 \in Int BY <2>1
    <3>2. nonce' = nonce \/ nonce' = [nonce EXCEPT ![w] = n + 1] BY <2>3 DEF Fund
    <3> QED BY <2>1, <3>1, <3>2
  <2> QED
    BY <2>1, <2>2, <2>3 DEF Next, Step, vars, worker, Join, Leave, Connect, Update,
       InitialBalance, WriteShare, OpenNonce, WriteNonce, Wait, Tests, Refund, Mine, Kill,
       KillCounting
<1> QED BY <1>1, <1>2, <1>3, <1>4 DEF WorkerType

LEMMA BoundsStep == TypeOK /\ [Next]_vars => BoundsType'
<1> SUFFICES ASSUME TypeOK, [Next]_vars PROVE BoundsType' OBVIOUS
<1>1. lost' \in BOOLEAN
  BY ZenonT(60) DEF TypeOK, Next, Step, vars, bounds, Join, Leave, Connect, Update, SeedSender,
     InitialBalance, WriteShare, Fund, OpenNonce, WriteNonce, Wait, Tests, Refund, Mine, Kill,
     KillCounting
<1>2. faults' = faults \/ (faults < MaxFaults /\ faults' = faults + 1)
  BY ZenonT(60) DEF Next, Step, Fault, vars, bounds, Join, Leave, Connect, Update, SeedSender,
     InitialBalance, WriteShare, Fund, OpenNonce, WriteNonce, Wait, Tests, Refund, Mine, Kill,
     KillCounting
<1>3. faults' \in 0..MaxFaults BY <1>2, BoundsAssumption DEF TypeOK
<1> QED BY <1>1, <1>3 DEF BoundsType

-------------------------------------------------------------------------------
(* The nonce.                                                                 *)

\* A step that keeps the file, the transactions and every nonce, and takes no
\* worker to where it counts, keeps the invariant.
LEMMA NonceKept ==
  ASSUME TypeOK, NonceInv, NEW w \in All, NEW x,
         Goto(w, x), UNCHANGED <<nonceFile, funded, nonce>>,
         x \notin Section, x \in {"share", "writeShare", "fund"} => nonce[w] <= Len(funded),
         pc[w] \in Section => lost', lost => lost'
  PROVE  NonceInv'
BY DEF TypeOK, NonceInv, Alone, Handed, NotBeyond, NonceAgrees, Goto, Section, Free

LEMMA NonceStep == TypeOK /\ NonceInv /\ [Next]_vars => NonceInv'
<1> SUFFICES ASSUME TypeOK, NonceInv, [Next]_vars PROVE NonceInv' OBVIOUS
<1>1. ASSUME NEW w \in All, Join(w) PROVE NonceInv'
  <2>1. Goto(w, "connect") \/ Goto(w, "failed") BY <1>1 DEF Join
  <2> QED BY <1>1, <2>1, NonceKept DEF Join, Section, node, bounds
<1>2. ASSUME NEW w \in All, Leave(w) PROVE NonceInv'
  <2>1. nonceFile' = nonceFile \/ nonceFile' = Absent BY <1>2 DEF Leave
  <2>2. UNCHANGED <<funded, nonce, lost>> BY <1>2 DEF Leave, node, bounds
  <2>3. pc[w] = "leave" /\ (Goto(w, "done") \/ Goto(w, "failed")) BY <1>2 DEF Leave
  <2>4. CASE nonceFile' = nonceFile BY <2>2, <2>3, <2>4, NonceKept DEF Section
  <2>5. CASE nonceFile' = Absent
    <3>1. Alone' BY <2>3 DEF TypeOK, NonceInv, Alone, Goto, Section
    <3>2. Handed' BY <2>2, <2>3 DEF TypeOK, NonceInv, Handed, Goto, Section
    <3>3. NotBeyond' BY <2>2, <2>3 DEF TypeOK, NonceInv, NotBeyond, Goto
    <3>4. NonceAgrees' BY <2>5 DEF NonceAgrees, Absent
    <3> QED BY <3>1, <3>2, <3>3, <3>4 DEF NonceInv
  <2> QED BY <2>1, <2>4, <2>5
<1>3. ASSUME NEW w \in All, Connect(w) PROVE NonceInv'
  <2>1. pc[w] = "connect" /\ (\E x \in {"leave", "nonce", "update"} : Goto(w, x))
    BY <1>3 DEF Connect, Fail
  <2>2. UNCHANGED <<nonceFile, funded, nonce, lost>> BY <1>3 DEF Connect, node, bounds
  <2> QED BY <2>1, <2>2, NonceKept DEF Section
<1>4. ASSUME NEW w \in All, Update(w) PROVE NonceInv'
  <2>1. pc[w] = "update" /\ (\E x \in {"leave", "nonce"} : Goto(w, x))
    BY <1>4 DEF Update, Fail
  <2>2. UNCHANGED <<nonceFile, funded, nonce, lost>> BY <1>4 DEF Update, node
  <2> QED BY <2>1, <2>2, NonceKept DEF Section
<1>5. ASSUME NEW w \in All, SeedSender(w) PROVE NonceInv'
  <2>1. pc[w] = "nonce" /\ Goto(w, "share") /\ nonce' = [nonce EXCEPT ![w] = mined]
    BY <1>5 DEF SeedSender
  <2>2. UNCHANGED <<nonceFile, funded, lost>> BY <1>5 DEF SeedSender, folder, node, bounds
  <2>3. mined <= Len(funded) BY DEF TypeOK
  <2> QED
    BY <2>1, <2>2, <2>3
    DEF TypeOK, NonceInv, Alone, Handed, NotBeyond, NonceAgrees, Goto, Section, Free
<1>6. ASSUME NEW w \in All, InitialBalance(w) PROVE NonceInv'
  <2>1. pc[w] = "share" /\ (\E x \in {"leave", "fund", "writeShare"} : Goto(w, x))
    BY <1>6 DEF InitialBalance, Fail
  <2>2. UNCHANGED <<nonceFile, funded, nonce, lost>> BY <1>6 DEF InitialBalance, node, bounds
  <2>3. nonce[w] <= Len(funded) BY <2>1 DEF NonceInv, NotBeyond
  <2> QED BY <2>1, <2>2, <2>3, NonceKept DEF Section
<1>7. ASSUME NEW w \in All, WriteShare(w) PROVE NonceInv'
  <2>1. pc[w] = "writeShare" /\ Goto(w, "fund") BY <1>7 DEF WriteShare
  <2>2. UNCHANGED <<nonceFile, funded, nonce, lost>> BY <1>7 DEF WriteShare, node, bounds
  <2>3. nonce[w] <= Len(funded) BY <2>1 DEF NonceInv, NotBeyond
  <2> QED BY <2>1, <2>2, <2>3, NonceKept DEF Section
<1>8. ASSUME NEW w \in All, Fund(w) PROVE NonceInv'
  <2> DEFINE n == IF nonceFile.is = "whole" THEN nonceFile.n ELSE nonce[w]
  <2>1. pc[w] = "fund" /\ (\A v \in All : pc[v] \notin Section) /\ nonceFile' = nonceFile
    BY <1>8 DEF Fund, Free, Section, folder
  <2>2. nonce[w] <= Len(funded) BY <2>1 DEF NonceInv, NotBeyond
  <2>3. CASE UNCHANGED <<funded, nonce, lost>> /\ Goto(w, "leave")
    BY <2>1, <2>3, NonceKept DEF Section
  <2> DEFINE tx == [to |-> w, value |-> share[w]]
  <2>4. CASE /\ funded' = Append(funded, tx) /\ n >= Len(funded)
             /\ UNCHANGED nonce /\ lost' /\ Goto(w, "leave")
    <3>1. Len(funded') = Len(funded) + 1 /\ Len(funded) \in Nat BY <2>4 DEF TypeOK
    <3>2. Alone' BY <2>1, <2>4 DEF TypeOK, Alone, Goto, Section
    <3>3. Handed' /\ NonceAgrees' BY <2>4 DEF Handed, NonceAgrees
    <3>4. NotBeyond' BY <2>1, <2>4, <3>1 DEF TypeOK, NonceInv, NotBeyond, Goto
    <3> QED BY <3>2, <3>3, <3>4 DEF NonceInv
  <2>5. CASE /\ funded' = Append(funded, tx) /\ n >= Len(funded)
             /\ nonce' = [nonce EXCEPT ![w] = n + 1] /\ UNCHANGED lost /\ Goto(w, "openNonce")
    <3>1. Len(funded') = Len(funded) + 1 /\ Len(funded) \in Nat BY <2>5 DEF TypeOK
    <3>2. ~lost => n = Len(funded)
      BY <2>1, <2>2, <2>5, <3>1 DEF TypeOK, File, NonceInv, NonceAgrees, Free, Section
    <3>3. Alone' BY <2>1, <2>5 DEF TypeOK, Alone, Goto, Section
    <3>4. Handed' BY <2>1, <2>5, <3>1, <3>2 DEF TypeOK, Handed, Goto, Section
    <3>5. NotBeyond' BY <2>1, <2>5, <3>1 DEF TypeOK, NonceInv, NotBeyond, Goto
    <3>6. NonceAgrees' BY <2>1, <2>5 DEF TypeOK, NonceAgrees, Free, Goto
    <3> QED BY <3>3, <3>4, <3>5, <3>6 DEF NonceInv
  <2>6. Answer(n, share[w]) = "taken" => ~(n < Len(funded)) BY DEF Answer
  <2>7. n \in Int /\ Len(funded) \in Nat BY DEF TypeOK, File
  <2> QED BY <1>8, <2>3, <2>4, <2>5, <2>6, <2>7 DEF Fund, Fail, bounds
<1>9. ASSUME NEW w \in All, OpenNonce(w) PROVE NonceInv'
  <2>1. pc[w] = "openNonce" /\ Goto(w, "writeNonce") /\ nonceFile' = Torn
    BY <1>9 DEF OpenNonce
  <2>2. UNCHANGED <<funded, nonce, lost>> BY <1>9 DEF OpenNonce, node, bounds
  <2> QED
    BY <2>1, <2>2
    DEF TypeOK, NonceInv, Alone, Handed, NotBeyond, NonceAgrees, Goto, Section, Free, Torn
<1>10. ASSUME NEW w \in All, WriteNonce(w) PROVE NonceInv'
  <2>1. pc[w] = "writeNonce" /\ Goto(w, "wait") /\ nonceFile' = Whole(nonce[w])
    BY <1>10 DEF WriteNonce
  <2>2. UNCHANGED <<funded, nonce, lost>> BY <1>10 DEF WriteNonce, node, bounds
  <2>3. ~lost => nonce[w] = Len(funded) BY <2>1 DEF NonceInv, Handed, Section
  <2> QED
    BY <2>1, <2>2, <2>3
    DEF TypeOK, NonceInv, Alone, Handed, NotBeyond, NonceAgrees, Goto, Section, Free, Whole
<1>11. ASSUME NEW w \in All, Wait(w) PROVE NonceInv'
  <2>1. pc[w] = "wait" /\ (\E x \in {"tests", "leave"} : Goto(w, x)) BY <1>11 DEF Wait, Fail
  <2>2. UNCHANGED <<nonceFile, funded, nonce, lost>> BY <1>11 DEF Wait, folder, node
  <2> QED BY <2>1, <2>2, NonceKept DEF Section
<1>12. ASSUME NEW w \in All, Tests(w) PROVE NonceInv'
  BY <1>12, NonceKept DEF Tests, Section, folder, bounds
<1>13. ASSUME NEW w \in All, Refund(w) PROVE NonceInv'
  BY <1>13, NonceKept DEF Refund, Section, folder, bounds
<1>14. ASSUME NEW w \in All, Kill(w) PROVE NonceInv'
  <2>1. Goto(w, "killed") /\ lost' = (lost \/ pc[w] \in Midway) BY <1>14 DEF Kill
  <2>2. UNCHANGED <<nonceFile, funded, nonce>> BY <1>14 DEF Kill, folder, node
  <2> QED BY <2>1, <2>2, NonceKept DEF Section, Midway
<1>15. ASSUME NEW w \in All, KillCounting(w) PROVE NonceInv'
  <2>1. Goto(w, "killed") /\ lost' = TRUE BY <1>15 DEF KillCounting
  <2>2. UNCHANGED <<nonceFile, funded, nonce>> BY <1>15 DEF KillCounting, node
  <2> QED BY <2>1, <2>2, NonceKept DEF Section
<1>16. CASE Mine
  BY <1>16 DEF Mine, NonceInv, Alone, Handed, NotBeyond, NonceAgrees, Free, folder, worker, bounds
<1>17. CASE UNCHANGED vars
  BY <1>17
  DEF vars, NonceInv, Alone, Handed, NotBeyond, NonceAgrees, Free, folder, node, worker, bounds
<1> QED
  BY <1>1, <1>2, <1>3, <1>4, <1>5, <1>6, <1>7, <1>8, <1>9, <1>10, <1>11, <1>12, <1>13, <1>14,
     <1>15, <1>16, <1>17 DEF Next, Step

-------------------------------------------------------------------------------
(* What a worker that dies leaves to the others.                              *)

Before == {"out", "connect", "update", "nonce", "share", "writeShare", "fund"}
Sharing == {"share", "writeShare", "fund"}
Ended == {"leave", "done", "failed", "killed"}
Quiet == ~lost /\ \A v \in All : why[v] # "timeout"

\* Who is stopped ends, and the answer of the node is lost only together with `lost`.
WhyInv == \A w \in All : /\ why[w] # "nothing" => pc[w] \in Ended
                         /\ why[w] = "send" => lost

\* A file is torn only while somebody writes it.
TornInv == ~lost => /\ users # TornCount
                    /\ shareFile.is = "torn" => ~Free({"writeShare"})
                    /\ nonceFile.is = "torn" => ~Free({"writeNonce"})

\* No more workers are started than were killed.
SparesInv == Cardinality(Replaced) <= Cardinality(Killed)

\* A worker funds its key once, and waits for that until it gives up.
Waiting(v) == pc[v] \in {"openNonce", "writeNonce", "wait", "killed"}
OnceInv ==
  /\ \A i, j \in 1..Len(funded) : funded[i].to = funded[j].to => i = j
  /\ \A w \in All, i \in 1..Len(funded) : pc[w] \in Before => funded[i].to # w
  /\ Quiet => \A i \in (mined + 1)..Len(funded) : Waiting(funded[i].to)

\* A folder that was made again begins with nothing to wait for: who reads the nonce
\* from the node reads the right one.
FreshInv ==
  Quiet /\ nonceFile.is = "absent" /\ Free(Section) =>
    /\ mined = Len(funded)
    /\ \A w \in All : pc[w] \in Sharing => nonce[w] = Len(funded)

\* All of the folder fund their keys with the same share.
Cost(n) == n + TransferCost
ShareInv ==
  Quiet =>
    /\ \A w \in All : pc[w] = "fund" => shareFile.is = "whole" /\ share[w] = shareFile.n
    /\ \A w \in All : pc[w] = "writeShare" =>
         shareFile.is = "torn" /\ \A v \in All : pc[v] = "writeShare" => v = w
    /\ shareFile.is # "whole" => nonceFile.is = "absent" /\ Free(Section) /\ owed = 0
    /\ shareFile.is = "whole" =>
         /\ \A i \in (mined + 1)..Len(funded) : funded[i].value = shareFile.n
         /\ owed = (Len(funded) - mined) * Cost(shareFile.n)

\* And there is a share left for each that has not funded its key yet.
Unfunded == {w \in Workers : pc[w] \in Before}
Enough(n) == Cost(n) > 0 /\ owed + Cardinality(Unfunded) * Cost(n) <= seed
MoneyInv ==
  Quiet /\ Killed = {} =>
    /\ shareFile.is = "whole" => Enough(shareFile.n)
    /\ \A w \in All : pc[w] = "writeShare" => Enough(share[w])

\* What stops a worker when no call was lost: the client, or the money.
LocalInv ==
  Quiet => \A w \in All : why[w] \in {"nothing", "forkchoice", "poor", "negative"}
                                   \union IF Killed = {} THEN {} ELSE {"funds"}

KillInv == /\ WhyInv /\ TornInv /\ SparesInv /\ OnceInv /\ FreshInv /\ ShareInv /\ MoneyInv
           /\ LocalInv

\* In one step a worker goes on, is stopped, or stays: nobody comes back.
LEMMA WhyStep == TypeOK /\ WhyInv /\ [Next]_vars => WhyInv'
<1> SUFFICES ASSUME TypeOK, WhyInv, [Next]_vars PROVE WhyInv' OBVIOUS
<1> USE DEF TypeOK, WhyInv, Goto, Fail, Ended
<1>1. ASSUME NEW w \in All, Join(w) PROVE WhyInv' BY <1>1 DEF Join, bounds
<1>2. ASSUME NEW w \in All, Leave(w) PROVE WhyInv' BY <1>2 DEF Leave, bounds
<1>3. ASSUME NEW w \in All, Connect(w) PROVE WhyInv' BY <1>3 DEF Connect, bounds
<1>4. ASSUME NEW w \in All, Update(w) PROVE WhyInv' BY <1>4 DEF Update, bounds
<1>5. ASSUME NEW w \in All, SeedSender(w) PROVE WhyInv' BY <1>5 DEF SeedSender, bounds
<1>6. ASSUME NEW w \in All, InitialBalance(w) PROVE WhyInv' BY <1>6 DEF InitialBalance, bounds
<1>7. ASSUME NEW w \in All, WriteShare(w) PROVE WhyInv' BY <1>7 DEF WriteShare, bounds
<1>8. ASSUME NEW w \in All, Fund(w) PROVE WhyInv'
  <2>1. pc[w] = "fund" /\ (lost => lost') BY <1>8 DEF Fund, bounds
  <2>2. why[w] = "nothing" BY <2>1
  <2>3. \/ \E r \in {"torn", "negative", "nonce", "funds"} : Fail(w, r) /\ UNCHANGED lost
        \/ Goto(w, "openNonce") /\ UNCHANGED <<why, lost>>
        \/ lost' = TRUE /\ Fail(w, "send")
    BY <1>8 DEF Fund, Answer, bounds
  <2> QED BY <2>1, <2>2, <2>3
<1>9. ASSUME NEW w \in All, OpenNonce(w) PROVE WhyInv' BY <1>9 DEF OpenNonce, bounds
<1>10. ASSUME NEW w \in All, WriteNonce(w) PROVE WhyInv' BY <1>10 DEF WriteNonce, bounds
<1>11. ASSUME NEW w \in All, Wait(w) PROVE WhyInv' BY <1>11 DEF Wait, bounds
<1>12. ASSUME NEW w \in All, Tests(w) PROVE WhyInv' BY <1>12 DEF Tests, bounds
<1>13. ASSUME NEW w \in All, Refund(w) PROVE WhyInv' BY <1>13 DEF Refund, bounds
<1>14. ASSUME NEW w \in All, Kill(w) PROVE WhyInv' BY <1>14 DEF Kill, bounds
<1>15. ASSUME NEW w \in All, KillCounting(w) PROVE WhyInv' BY <1>15 DEF KillCounting
<1>16. CASE Mine BY <1>16 DEF Mine, worker, bounds
<1>17. CASE UNCHANGED vars BY <1>17 DEF vars, worker, bounds
<1> QED
  BY <1>1, <1>2, <1>3, <1>4, <1>5, <1>6, <1>7, <1>8, <1>9, <1>10, <1>11, <1>12, <1>13, <1>14,
     <1>15, <1>16, <1>17 DEF Next, Step

\* Once somebody gave up or a call was lost, it stays so.
LEMMA QuietBefore == TypeOK /\ WhyInv /\ [Next]_vars /\ Quiet' => Quiet
<1> SUFFICES ASSUME TypeOK, WhyInv, [Next]_vars, Quiet' PROVE Quiet OBVIOUS
<1>1. lost => lost'
  BY DEF TypeOK, Next, Step, vars, bounds, Join, Leave, Connect, Update, SeedSender,
     InitialBalance, WriteShare, Fund, OpenNonce, WriteNonce, Wait, Tests, Refund, Mine, Kill,
     KillCounting
<1>2. ASSUME NEW v \in All, why[v] = "timeout" PROVE why'[v] = "timeout"
  <2>1. pc[v] \in Ended BY <1>2 DEF WhyInv
  <2>2. \/ UNCHANGED why
        \/ \E w \in All, r \in Reasons : pc[w] \notin Ended /\ why' = [why EXCEPT ![w] = r]
    BY ZenonT(60) DEF Next, Step, Fail, vars, worker, bounds, Reasons, Ended, Answer, Join, Leave, Connect, Update,
       SeedSender, InitialBalance, WriteShare, Fund, OpenNonce, WriteNonce, Wait, Tests, Refund,
       Mine, Kill, KillCounting
  <2> QED BY <1>2, <2>1, <2>2 DEF TypeOK
<1> QED BY <1>1, <1>2 DEF Quiet

\* The killed stay killed, and only a worker that was there to start with is killed
\* while it writes the count.
LEMMA KilledBefore ==
  TypeOK /\ [Next]_vars => /\ Killed \subseteq Killed'
                           /\ \A w \in Spares : pc'[w] # "out" /\ pc[w] = "out" => Join(w)
<1> SUFFICES ASSUME TypeOK, [Next]_vars
             PROVE  /\ Killed \subseteq Killed'
                    /\ \A w \in Spares : pc'[w] # "out" /\ pc[w] = "out" => Join(w)
  OBVIOUS
<1>1. ASSUME NEW w \in All, NEW x, pc[w] \notin {"out", "killed"}, Goto(w, x)
      PROVE  Killed \subseteq Killed' /\ \A v \in All : pc[v] = "out" => pc'[v] = "out"
  BY <1>1 DEF TypeOK, Goto, Killed
<1>2. ASSUME NEW w \in All, Join(w)
      PROVE  Killed \subseteq Killed' /\ \A v \in All \ {w} : pc'[v] = pc[v]
  BY <1>2 DEF Join, TypeOK, Goto, Killed
<1>3. ASSUME NEW w \in All, KillCounting(w)
      PROVE  Killed \subseteq Killed' /\ \A v \in All \ {w} : pc'[v] = pc[v]
  BY <1>3 DEF KillCounting, TypeOK, Goto, Killed
<1>4. \A w \in All : KillCounting(w) => w \notin Spares
  BY WorkersAssumption DEF KillCounting
<1>5. \/ \E w \in All : Join(w) \/ KillCounting(w)
      \/ \E w \in All : \E x \in Places : pc[w] \notin {"out", "killed"} /\ Goto(w, x)
      \/ UNCHANGED pc
  BY ZenonT(60) DEF Next, Step, Fail, vars, worker, Over, Places, Leave, Connect, Update, SeedSender,
     InitialBalance, WriteShare, Fund, OpenNonce, WriteNonce, Wait, Tests, Refund, Mine, Kill
<1>6. CASE UNCHANGED pc BY <1>6 DEF Killed
<1>7. Spares \subseteq All BY DEF All
<1> QED BY <1>1, <1>2, <1>3, <1>4, <1>5, <1>6, <1>7

LEMMA SparesStep == TypeOK /\ SparesInv /\ [Next]_vars => SparesInv'
<1> SUFFICES ASSUME TypeOK, SparesInv, [Next]_vars PROVE SparesInv' OBVIOUS
<1>1. IsFiniteSet(Killed) /\ IsFiniteSet(Killed') /\ IsFiniteSet(Replaced)
  <2>1. Killed \subseteq All /\ Killed' \subseteq All /\ Replaced \subseteq Spares
    BY DEF Killed, Replaced
  <2> QED BY <2>1, Finite, WorkersAssumption, FS_Subset
<1>2. Cardinality(Killed) <= Cardinality(Killed') BY <1>1, KilledBefore, FS_Subset
<1>3. /\ Cardinality(Killed) \in Nat /\ Cardinality(Killed') \in Nat
      /\ Cardinality(Replaced) \in Nat
  BY <1>1, FS_CardinalityType
<1>4. CASE \E w \in Spares : Join(w)
  <2>1. PICK w \in Spares : Join(w) BY <1>4
  <2>2. w \in All BY DEF All
  <2>3. Replaced' = Replaced \union {w} /\ w \notin Replaced
    BY <2>1, <2>2 DEF Join, Goto, Replaced, TypeOK, All
  <2>4. Cardinality(Replaced') = Cardinality(Replaced) + 1 BY <1>1, <2>3, FS_AddElement
  <2>5. Cardinality(Replaced) < Cardinality(Killed) BY <2>1 DEF Join
  <2> QED BY <1>2, <1>3, <2>4, <2>5 DEF SparesInv
<1>5. CASE ~ \E w \in Spares : Join(w)
  <2>1. Replaced' \subseteq Replaced BY <1>5, KilledBefore DEF Replaced
  <2>2. IsFiniteSet(Replaced') /\ Cardinality(Replaced') <= Cardinality(Replaced)
    BY <1>1, <2>1, FS_Subset
  <2>3. Cardinality(Replaced') \in Nat BY <2>2, FS_CardinalityType
  <2> QED BY <1>2, <1>3, <2>2, <2>3 DEF SparesInv
<1> QED BY <1>4, <1>5

\* Without a killed worker all of them are of those the session began with.
LEMMA NoSpares ==
  ASSUME SparesInv, Killed = {}, NEW w \in All, pc[w] # "out"
  PROVE  w \in Workers
<1>1. IsFiniteSet(Replaced)
  <2>1. Replaced \subseteq Spares BY DEF Replaced
  <2> QED BY <2>1, WorkersAssumption, FS_Subset
<1>2. Cardinality(Replaced) = 0
  BY <1>1, FS_CardinalityType, FS_EmptySet DEF SparesInv
<1>3. Replaced = {} BY <1>1, <1>2, FS_EmptySet
<1> QED BY <1>3 DEF Replaced, All

LEMMA TornStep == TypeOK /\ CountRight /\ TornInv /\ [Next]_vars => TornInv'
<1> SUFFICES ASSUME TypeOK, CountRight, TornInv, [Next]_vars PROVE TornInv' OBVIOUS
<1> USE DEF TypeOK, Goto, Fail
\* A step that keeps the files and takes no worker out of the middle of one.
<1>a. ASSUME NEW w \in All, NEW x, Goto(w, x), pc[w] \notin {"writeShare", "writeNonce"} \/ lost',
             lost => lost', users' # TornCount \/ lost' \/ users' = users,
             UNCHANGED <<shareFile, nonceFile>>
      PROVE  TornInv'
  BY <1>a DEF TornInv, Free
<1> USE DEF Midway
<1>1. ASSUME NEW w \in All, Join(w) PROVE TornInv'
  <2>1. users' = users \/ (users # TornCount /\ users' = users + 1) BY <1>1 DEF Join
  <2>2. users' # TornCount \/ users' = users BY <2>1, Finite DEF TornCount
  <2>3. \E x \in {"failed", "connect"} : Goto(w, x) BY <1>1 DEF Join
  <2> QED BY <1>1, <1>a, <2>2, <2>3 DEF Join, bounds
<1>2. ASSUME NEW w \in All, Leave(w) PROVE TornInv'
  <2>1. users # TornCount => users \in Nat /\ users >= 1
    <3>1. w \in Present BY <1>2 DEF Leave, Present
    <3>2. Cardinality(Present) # 0 BY <3>1, PresentFinite, FS_EmptySet
    <3> QED BY <1>2, <3>2, PresentFinite DEF CountRight
  <2>2. users' # TornCount \/ users' = users BY <1>2, <2>1 DEF Leave, TornCount
  <2>3. pc[w] = "leave" /\ \E x \in {"done", "failed"} : Goto(w, x) BY <1>2 DEF Leave
  <2>4. lost' = lost BY <1>2 DEF Leave, bounds
  <2>5. \/ UNCHANGED <<shareFile, nonceFile>>
        \/ shareFile' = Absent /\ nonceFile' = Absent /\ users # TornCount
    BY <1>2 DEF Leave, TornCount
  <2>6. CASE UNCHANGED <<shareFile, nonceFile>> BY <1>a, <2>2, <2>3, <2>4, <2>6
  <2>7. CASE shareFile' = Absent /\ nonceFile' = Absent /\ users # TornCount
    <3>1. users' # TornCount BY <1>2, <2>1, <2>7 DEF Leave, TornCount
    <3> QED BY <3>1, <2>7 DEF TornInv, Absent
  <2> QED BY <2>5, <2>6, <2>7
<1>3. ASSUME NEW w \in All, Connect(w) PROVE TornInv'
  <2>1. pc[w] = "connect" /\ \E x \in {"leave", "nonce", "update"} : Goto(w, x)
    BY <1>3 DEF Connect
  <2> QED BY <1>3, <1>a, <2>1 DEF Connect, bounds
<1>4. ASSUME NEW w \in All, Update(w) PROVE TornInv'
  <2>1. pc[w] = "update" /\ \E x \in {"leave", "nonce"} : Goto(w, x) BY <1>4 DEF Update
  <2> QED BY <1>4, <1>a, <2>1 DEF Update
<1>5. ASSUME NEW w \in All, SeedSender(w) PROVE TornInv'
  BY <1>5, <1>a DEF SeedSender, folder, bounds
<1>6. ASSUME NEW w \in All, InitialBalance(w) PROVE TornInv'
  <2>1. pc[w] = "share" /\ UNCHANGED <<users, nonceFile, lost>>
    BY <1>6 DEF InitialBalance, bounds
  <2>2. CASE shareFile' = shareFile /\ \E x \in {"leave", "fund"} : Goto(w, x)
    BY <1>a, <2>1, <2>2
  <2>3. CASE shareFile' = Torn /\ Goto(w, "writeShare")
    BY <2>1, <2>3 DEF TornInv, Free
  <2> QED BY <1>6, <2>2, <2>3 DEF InitialBalance
<1>7. ASSUME NEW w \in All, WriteShare(w) PROVE TornInv'
  BY <1>7 DEF WriteShare, TornInv, Free, Whole, bounds
<1>8. ASSUME NEW w \in All, Fund(w) PROVE TornInv'
  <2>1. pc[w] = "fund" /\ (lost => lost') BY <1>8 DEF Fund, bounds
  <2>2. \E x \in {"leave", "openNonce"} : Goto(w, x) BY <1>8 DEF Fund
  <2> QED BY <1>8, <1>a, <2>1, <2>2 DEF Fund, folder
<1>9. ASSUME NEW w \in All, OpenNonce(w) PROVE TornInv'
  BY <1>9 DEF OpenNonce, TornInv, Free, Torn, bounds
<1>10. ASSUME NEW w \in All, WriteNonce(w) PROVE TornInv'
  BY <1>10 DEF WriteNonce, TornInv, Free, Whole, bounds
<1>11. ASSUME NEW w \in All, Wait(w) PROVE TornInv'
  <2>1. pc[w] = "wait" /\ \E x \in {"leave", "tests"} : Goto(w, x) BY <1>11 DEF Wait
  <2> QED BY <1>11, <1>a, <2>1 DEF Wait, folder
<1>12. ASSUME NEW w \in All, Tests(w) PROVE TornInv'
  BY <1>12, <1>a DEF Tests, folder, bounds
<1>13. ASSUME NEW w \in All, Refund(w) PROVE TornInv'
  BY <1>13, <1>a DEF Refund, folder, bounds
<1>14. ASSUME NEW w \in All, Kill(w) PROVE TornInv' BY <1>14, <1>a DEF Kill, folder
<1>15. ASSUME NEW w \in All, KillCounting(w) PROVE TornInv' BY <1>15, <1>a DEF KillCounting
<1>16. CASE Mine BY <1>16 DEF Mine, TornInv, Free, folder, worker, bounds
<1>17. CASE UNCHANGED vars BY <1>17 DEF vars, TornInv, Free, folder, worker, bounds
<1> QED
  BY <1>1, <1>2, <1>3, <1>4, <1>5, <1>6, <1>7, <1>8, <1>9, <1>10, <1>11, <1>12, <1>13, <1>14,
     <1>15, <1>16, <1>17 DEF Next, Step

LEMMA FundedTypes ==
  TypeOK => \A i \in 1..Len(funded) : funded[i].to \in All /\ funded[i].value \in Nat
<1> SUFFICES ASSUME TypeOK, NEW i \in 1..Len(funded)
             PROVE  funded[i].to \in All /\ funded[i].value \in Nat
  OBVIOUS
<1>1. funded \in Seq([to : All, value : Nat]) BY DEF TypeOK
<1>2. funded[i] \in [to : All, value : Nat] BY <1>1, ElementType
<1> QED BY <1>2

WaitPlaces == {"openNonce", "writeNonce", "wait", "killed"}

\* A step of a worker that is not waiting, and funds no key.
LEMMA OnceKept ==
  ASSUME TypeOK, OnceInv, Quiet' => Quiet, NEW w \in All, NEW x, Goto(w, x),
         UNCHANGED <<funded, mined>>, x \in Before => pc[w] \in Before,
         pc[w] \in WaitPlaces => x \in WaitPlaces
  PROVE  OnceInv'
<1>1. \A i \in 1..Len(funded) : funded[i].to \in All BY FundedTypes
<1>2. (\A i, j \in 1..Len(funded) : funded[i].to = funded[j].to => i = j)' BY DEF OnceInv
<1>3. (\A v \in All, i \in 1..Len(funded) : pc[v] \in Before => funded[i].to # v)'
  BY DEF OnceInv, TypeOK, Goto
<1>4. (Quiet => \A i \in (mined + 1)..Len(funded) : Waiting(funded[i].to))'
  <2> SUFFICES ASSUME Quiet', NEW i \in (mined + 1)..Len(funded)
               PROVE  pc'[funded[i].to] \in WaitPlaces
    BY DEF Waiting, WaitPlaces
  <2>1. mined \in Nat /\ Len(funded) \in Nat BY DEF TypeOK
  <2>2. funded[i].to \in All BY <1>1, <2>1
  <2>3. pc[funded[i].to] \in WaitPlaces BY DEF OnceInv, Waiting, WaitPlaces
  <2> QED BY <2>2, <2>3 DEF TypeOK, Goto
<1> QED BY <1>2, <1>3, <1>4 DEF OnceInv

\* What Fund appends.
LEMMA Appended ==
  ASSUME NEW S, NEW q \in Seq(S), NEW e \in S
  PROVE  /\ Len(q) \in Nat /\ Len(Append(q, e)) = Len(q) + 1
         /\ \A i \in 1..Len(q) : Append(q, e)[i] = q[i]
         /\ Append(q, e)[Len(q) + 1] = e
OBVIOUS

\* A funding transaction that the node took, and whose answer is not lost.
Funds(w) == /\ pc[w] = "fund" /\ Free(Section) /\ Goto(w, "openNonce")
            /\ share[w] >= 0 /\ nonceFile.is # "torn"
            /\ funded' = Append(funded, [to |-> w, value |-> share[w]])
            /\ owed' = owed + share[w] + TransferCost
            /\ UNCHANGED <<folder, seed, key, mined, share, why, bounds>>

\* What Fund does: nothing to the node, a transaction, or a transaction of which the
\* worker hears nothing.
LEMMA FundCases ==
  ASSUME TypeOK, NEW w \in All, Fund(w)
  PROVE  \/ Goto(w, "leave") /\ UNCHANGED <<folder, node, share, nonce, bounds>>
         \/ Funds(w)
         \/ lost'
<1> DEFINE n == IF nonceFile.is = "whole" THEN nonceFile.n ELSE nonce[w]
           answer == IF share[w] < 0 THEN "negative" ELSE Answer(n, share[w])
<1>1. pc[w] = "fund" /\ Free(Section) /\ UNCHANGED <<folder, seed, key, mined, share>>
  BY DEF Fund, Section
<1>2. CASE Goto(w, "leave") /\ UNCHANGED <<funded, owed, nonce, bounds>>
  BY <1>1, <1>2 DEF node
<1>3. CASE nonceFile.is # "torn" /\ answer = "taken" /\ Goto(w, "openNonce")
           /\ funded' = Append(funded, [to |-> w, value |-> share[w]])
           /\ owed' = owed + share[w] + TransferCost /\ UNCHANGED <<why, bounds>>
  <2>1. ~(share[w] < 0) BY <1>3
  <2>2. share[w] >= 0 BY <2>1 DEF TypeOK
  <2> QED BY <1>1, <1>3, <2>2 DEF Funds
<1> QED BY <1>2, <1>3 DEF Fund, Fail

LEMMA OnceStep ==
  TypeOK /\ WhyInv /\ OnceInv /\ [Next]_vars => OnceInv'
<1> SUFFICES ASSUME TypeOK, WhyInv, OnceInv, [Next]_vars PROVE OnceInv' OBVIOUS
<1>0. Quiet' => Quiet BY QuietBefore
<1>b. funded \in Seq([to : All, value : Nat]) /\ Len(funded) \in Nat /\ mined \in 0..Len(funded)
  BY DEF TypeOK
<1>c. \A i \in 1..Len(funded) : funded[i].to \in All BY FundedTypes
<1>a. ASSUME NEW w \in All, NEW x, Goto(w, x), UNCHANGED <<funded, mined>>,
             x \in Before => pc[w] \in Before, pc[w] \in WaitPlaces => x \in WaitPlaces
      PROVE  OnceInv'
  BY <1>0, <1>a, OnceKept
<1> USE DEF Before, WaitPlaces
<1>1. ASSUME NEW w \in All, Join(w) PROVE OnceInv'
  <2>1. pc[w] = "out" /\ \E x \in {"failed", "connect"} : Goto(w, x) BY <1>1 DEF Join
  <2> QED BY <1>1, <1>a, <2>1 DEF Join, node
<1>2. ASSUME NEW w \in All, Leave(w) PROVE OnceInv'
  <2>1. pc[w] = "leave" /\ \E x \in {"done", "failed"} : Goto(w, x) BY <1>2 DEF Leave
  <2> QED BY <1>2, <1>a, <2>1 DEF Leave, node
<1>3. ASSUME NEW w \in All, Connect(w) PROVE OnceInv'
  <2>1. pc[w] = "connect" /\ \E x \in {"leave", "nonce", "update"} : Goto(w, x)
    BY <1>3 DEF Connect, Fail
  <2> QED BY <1>3, <1>a, <2>1 DEF Connect, node
<1>4. ASSUME NEW w \in All, Update(w) PROVE OnceInv'
  <2>1. pc[w] = "update" /\ \E x \in {"leave", "nonce"} : Goto(w, x) BY <1>4 DEF Update, Fail
  <2> QED BY <1>4, <1>a, <2>1 DEF Update, node
<1>5. ASSUME NEW w \in All, SeedSender(w) PROVE OnceInv' BY <1>5, <1>a DEF SeedSender, node
<1>6. ASSUME NEW w \in All, InitialBalance(w) PROVE OnceInv'
  <2>1. pc[w] = "share" /\ \E x \in {"leave", "fund", "writeShare"} : Goto(w, x)
    BY <1>6 DEF InitialBalance, Fail
  <2> QED BY <1>6, <1>a, <2>1 DEF InitialBalance, node
<1>7. ASSUME NEW w \in All, WriteShare(w) PROVE OnceInv' BY <1>7, <1>a DEF WriteShare, node
<1>8. ASSUME NEW w \in All, Fund(w) PROVE OnceInv'
  <2>0. pc[w] = "fund" /\ mined' = mined BY <1>8 DEF Fund
  <2>2. CASE funded' = funded
    <3>1. \E x \in {"leave", "openNonce"} : Goto(w, x) BY <1>8 DEF Fund, Fail
    <3> QED BY <1>a, <2>0, <2>2, <3>1
  <2>3. CASE funded' = Append(funded, [to |-> w, value |-> share[w]]) /\ share[w] >= 0
    <3> DEFINE n == Len(funded)
    <3>1. [to |-> w, value |-> share[w]] \in [to : All, value : Nat] BY <2>3 DEF TypeOK
    <3>2. /\ Len(funded') = n + 1 /\ \A i \in 1..n : funded'[i] = funded[i]
          /\ funded'[n + 1].to = w
      BY <1>b, <2>3, <3>1, Appended
    <3>3. \A i \in 1..n : funded[i].to # w BY <2>0 DEF OnceInv
    <3>4. \A i \in 1..(n + 1) : i \in 1..n \/ i = n + 1 BY <1>b
    <3>5. \A i, j \in 1..(n + 1) : funded'[i].to = funded'[j].to => i = j
      BY <3>2, <3>3, <3>4 DEF OnceInv
    <3>6. \E x \in {"leave", "openNonce"} : Goto(w, x) BY <1>8 DEF Fund, Fail
    <3>7. \A v \in All, i \in 1..(n + 1) : pc'[v] \in Before => funded'[i].to # v
      <4> SUFFICES ASSUME NEW v \in All, NEW i \in 1..(n + 1), pc'[v] \in Before
                   PROVE  funded'[i].to # v
        OBVIOUS
      <4>1. v # w /\ pc[v] \in Before BY <3>6 DEF Goto, TypeOK
      <4> QED BY <3>2, <3>4, <4>1 DEF OnceInv
    <3>8. ASSUME Quiet', NEW i \in (mined + 1)..(n + 1) PROVE pc'[funded'[i].to] \in WaitPlaces
      <4>0. ~lost' BY <3>8 DEF Quiet
      <4>1. Goto(w, "openNonce")
        <5>1. UNCHANGED funded \/ Goto(w, "openNonce") \/ lost' = TRUE BY <1>8 DEF Fund
        <5>2. Len(funded') # Len(funded) BY <1>b, <3>2
        <5> QED BY <4>0, <5>1, <5>2
      <4>2. CASE i = n + 1 BY <3>2, <4>1, <4>2 DEF Goto, TypeOK
      <4>3. CASE i \in (mined + 1)..n
        <5>1. i \in 1..n BY <1>b, <4>3
        <5>2. funded'[i] = funded[i] /\ funded[i].to \in All BY <1>c, <3>2, <5>1
        <5>3. pc[funded[i].to] \in WaitPlaces BY <1>0, <3>8, <4>3 DEF OnceInv, Waiting
        <5> QED BY <4>1, <5>2, <5>3 DEF Goto, TypeOK
      <4>4. i = n + 1 \/ i \in (mined + 1)..n BY <1>b
      <4> QED BY <4>2, <4>3, <4>4
    <3> QED BY <2>0, <3>2, <3>5, <3>7, <3>8 DEF OnceInv, Waiting
  <2>4. funded' = funded \/ (funded' = Append(funded, [to |-> w, value |-> share[w]]) /\ ~(share[w] < 0))
    BY <1>8 DEF Fund
  <2>5. share[w] \in Int BY DEF TypeOK
  <2> QED BY <2>2, <2>3, <2>4, <2>5
<1>9. ASSUME NEW w \in All, OpenNonce(w) PROVE OnceInv' BY <1>9, <1>a DEF OpenNonce, node
<1>10. ASSUME NEW w \in All, WriteNonce(w) PROVE OnceInv' BY <1>10, <1>a DEF WriteNonce, node
<1>11. ASSUME NEW w \in All, Wait(w) PROVE OnceInv'
  <2>1. pc[w] = "wait" /\ UNCHANGED <<funded, mined>> BY <1>11 DEF Wait, node
  <2>2. CASE Included(w) /\ Goto(w, "tests") /\ UNCHANGED why
    <3>1. PICK k \in 1..mined : funded[k].to = w BY <2>2 DEF Included
    <3>2. (\A i, j \in 1..Len(funded) : funded[i].to = funded[j].to => i = j)'
      BY <2>1 DEF OnceInv
    <3>3. (\A v \in All, i \in 1..Len(funded) : pc[v] \in Before => funded[i].to # v)'
      BY <2>1, <2>2 DEF OnceInv, TypeOK, Goto
    <3>4. ASSUME Quiet', NEW i \in (mined + 1)..Len(funded)
          PROVE  pc'[funded[i].to] \in WaitPlaces
      <4>1. i \in 1..Len(funded) /\ k \in 1..Len(funded) /\ i # k BY <1>b
      <4>2. funded[i].to # w BY <3>1, <4>1 DEF OnceInv
      <4>3. pc[funded[i].to] \in WaitPlaces BY <1>0, <3>4 DEF OnceInv, Waiting
      <4>4. funded[i].to \in All BY <1>c, <4>1
      <4> QED BY <2>2, <4>2, <4>3, <4>4 DEF Goto, TypeOK
    <3> QED BY <2>1, <3>2, <3>3, <3>4 DEF OnceInv, Waiting
  <2>3. CASE Fail(w, "timeout")
    <3>1. why'[w] = "timeout" BY <2>3 DEF Fail, TypeOK
    <3>2. ~Quiet' BY <3>1 DEF Quiet
    <3> QED BY <2>1, <2>3, <3>2 DEF OnceInv, Fail, Goto, TypeOK
  <2> QED BY <1>11, <2>2, <2>3 DEF Wait
<1>12. ASSUME NEW w \in All, Tests(w) PROVE OnceInv' BY <1>12, <1>a DEF Tests
<1>13. ASSUME NEW w \in All, Refund(w) PROVE OnceInv' BY <1>13, <1>a DEF Refund
<1>14. ASSUME NEW w \in All, Kill(w) PROVE OnceInv' BY <1>14, <1>a DEF Kill, node
<1>15. ASSUME NEW w \in All, KillCounting(w) PROVE OnceInv' BY <1>15, <1>a DEF KillCounting, node
<1>16. CASE Mine
  <2>1. mined' = mined + 1 /\ UNCHANGED <<funded, pc>> BY <1>16 DEF Mine, worker
  <2>2. \A i : i \in (mined' + 1)..Len(funded) => i \in (mined + 1)..Len(funded)
    BY <1>b, <2>1
  <2> QED BY <1>0, <2>1, <2>2 DEF OnceInv, Waiting
<1>17. CASE UNCHANGED vars
  BY <1>0, <1>17 DEF vars, OnceInv, Waiting, node, worker
<1> QED
  BY <1>1, <1>2, <1>3, <1>4, <1>5, <1>6, <1>7, <1>8, <1>9, <1>10, <1>11, <1>12, <1>13, <1>14,
     <1>15, <1>16, <1>17 DEF Next, Step

\* The last user of a folder finds nobody there and no transaction that is not mined.
LEMMA LastLeaves ==
  ASSUME TypeOK, CountRight, OnceInv, Quiet, NEW w \in All, Leave(w), users = 1
  PROVE  mined = Len(funded) /\ \A v \in All : v # w => pc[v] \in Gone
<1>1. w \in Present BY DEF Leave, Present
<1>2. Cardinality(Present) = 1 BY DEF CountRight, TornCount
<1>3. Present = {w}
  <2>1. Cardinality(Present \ {w}) = 0 BY <1>1, <1>2, PresentFinite, FS_RemoveElement
  <2>2. IsFiniteSet(Present \ {w}) BY PresentFinite, FS_Subset
  <2>3. Present \ {w} = {} BY <2>1, <2>2, FS_EmptySet
  <2> QED BY <1>1, <2>3
<1>4. \A v \in All : v # w => pc[v] \in Gone BY <1>3 DEF Present, Gone
<1>5. \A i \in (mined + 1)..Len(funded) : FALSE
  <2> SUFFICES ASSUME NEW i \in (mined + 1)..Len(funded) PROVE FALSE OBVIOUS
  <2>1. mined \in Nat /\ Len(funded) \in Nat BY DEF TypeOK
  <2>2. funded[i].to \in All BY <2>1, FundedTypes
  <2>3. Waiting(funded[i].to) BY DEF OnceInv
  <2> QED BY <1>4, <2>2, <2>3 DEF Waiting, Gone, Leave
<1>6. mined \in 0..Len(funded) /\ Len(funded) \in Nat BY DEF TypeOK
<1>7. mined < Len(funded) => Len(funded) \in (mined + 1)..Len(funded) BY <1>6
<1> QED BY <1>4, <1>5, <1>6, <1>7

LEMMA FreshKept ==
  ASSUME TypeOK, Quiet, FreshInv, NEW w \in All, NEW x, Goto(w, x),
         UNCHANGED <<nonceFile, funded, mined, nonce>>,
         x \in Sharing => pc[w] \in Sharing, pc[w] \in Section => x \in Section
  PROVE  FreshInv'
BY DEF TypeOK, FreshInv, Goto, Free

LEMMA FreshStep ==
  TypeOK /\ CountRight /\ WhyInv /\ OnceInv /\ FreshInv /\ [Next]_vars => FreshInv'
<1> SUFFICES ASSUME TypeOK, CountRight, WhyInv, OnceInv, FreshInv, [Next]_vars, Quiet'
             PROVE  FreshInv'
  BY DEF FreshInv
<1>0. Quiet /\ ~lost' BY QuietBefore DEF Quiet
<1>a. ASSUME NEW w \in All, NEW x, Goto(w, x), UNCHANGED <<nonceFile, funded, mined, nonce>>,
             x \in Sharing => pc[w] \in Sharing, pc[w] \in Section => x \in Section
      PROVE  FreshInv'
  BY <1>0, <1>a, FreshKept
<1> USE DEF Sharing, Section
<1>1. ASSUME NEW w \in All, Join(w) PROVE FreshInv'
  <2>1. pc[w] = "out" /\ \E x \in {"failed", "connect"} : Goto(w, x) BY <1>1 DEF Join
  <2> QED BY <1>1, <1>a, <2>1 DEF Join, node
<1>2. ASSUME NEW w \in All, Leave(w) PROVE FreshInv'
  <2>1. pc[w] = "leave" /\ (\E x \in {"done", "failed"} : Goto(w, x))
        /\ UNCHANGED <<funded, mined, nonce>>
    BY <1>2 DEF Leave, node
  <2>2. CASE users = 1
    <3>1. mined = Len(funded) /\ \A v \in All : v # w => pc[v] \in Gone
      BY <1>0, <1>2, <2>2, LastLeaves
    <3>2. \A v \in All : pc'[v] \notin Sharing BY <2>1, <3>1 DEF Gone, Goto, TypeOK
    <3> QED BY <2>1, <3>1, <3>2 DEF FreshInv
  <2>3. CASE users # 1 BY <1>2, <1>a, <2>1, <2>3 DEF Leave
  <2> QED BY <2>2, <2>3
<1>3. ASSUME NEW w \in All, Connect(w) PROVE FreshInv'
  <2>1. pc[w] = "connect" /\ \E x \in {"leave", "nonce", "update"} : Goto(w, x)
    BY <1>3 DEF Connect, Fail
  <2> QED BY <1>3, <1>a, <2>1 DEF Connect, node
<1>4. ASSUME NEW w \in All, Update(w) PROVE FreshInv'
  <2>1. pc[w] = "update" /\ \E x \in {"leave", "nonce"} : Goto(w, x) BY <1>4 DEF Update, Fail
  <2> QED BY <1>4, <1>a, <2>1 DEF Update, node
<1>5. ASSUME NEW w \in All, SeedSender(w) PROVE FreshInv'
  <2>1. /\ pc[w] = "nonce" /\ Goto(w, "share") /\ nonce' = [nonce EXCEPT ![w] = mined]
        /\ UNCHANGED <<nonceFile, funded, mined>>
    BY <1>5 DEF SeedSender, folder, node
  <2> QED BY <1>0, <2>1 DEF TypeOK, FreshInv, Goto, Free
<1>6. ASSUME NEW w \in All, InitialBalance(w) PROVE FreshInv'
  <2>1. pc[w] = "share" /\ \E x \in {"leave", "fund", "writeShare"} : Goto(w, x)
    BY <1>6 DEF InitialBalance, Fail
  <2> QED BY <1>6, <1>a, <2>1 DEF InitialBalance, node
<1>7. ASSUME NEW w \in All, WriteShare(w) PROVE FreshInv'
  BY <1>7, <1>a DEF WriteShare, node
<1>8. ASSUME NEW w \in All, Fund(w) PROVE FreshInv'
  <2>1. pc[w] = "fund" BY <1>8 DEF Fund
  <2>2. CASE Goto(w, "leave") /\ UNCHANGED <<folder, node, share, nonce, bounds>>
    BY <1>a, <2>1, <2>2 DEF folder, node
  <2>3. CASE Funds(w)
    <3>1. pc'[w] \in Section BY <2>3 DEF Funds, Goto, TypeOK
    <3> QED BY <3>1 DEF FreshInv, Free
  <2> QED BY <1>0, <1>8, <2>2, <2>3, FundCases
<1>9. ASSUME NEW w \in All, OpenNonce(w) PROVE FreshInv'
  BY <1>9 DEF OpenNonce, FreshInv, Torn
<1>10. ASSUME NEW w \in All, WriteNonce(w) PROVE FreshInv'
  BY <1>10 DEF WriteNonce, FreshInv, Whole
<1>11. ASSUME NEW w \in All, Wait(w) PROVE FreshInv'
  <2>1. pc[w] = "wait" /\ \E x \in {"leave", "tests"} : Goto(w, x) BY <1>11 DEF Wait, Fail
  <2> QED BY <1>11, <1>a, <2>1 DEF Wait, folder, node
<1>12. ASSUME NEW w \in All, Tests(w) PROVE FreshInv' BY <1>12, <1>a DEF Tests, folder
<1>13. ASSUME NEW w \in All, Refund(w) PROVE FreshInv' BY <1>13, <1>a DEF Refund, folder
<1>14. ASSUME NEW w \in All, Kill(w) PROVE FreshInv'
  <2>1. pc[w] \notin Section BY <1>0, <1>14 DEF Kill, Midway
  <2> QED BY <1>14, <1>a, <2>1 DEF Kill, folder, node
<1>15. ASSUME NEW w \in All, KillCounting(w) PROVE FreshInv' BY <1>0, <1>15 DEF KillCounting
<1>16. CASE Mine
  <2>1. mined < Len(funded) /\ UNCHANGED <<nonceFile, pc>>
    BY <1>16 DEF Mine, folder, worker
  <2>2. mined # Len(funded) BY <2>1 DEF TypeOK
  <2>3. ~(nonceFile.is = "absent" /\ Free(Section)) BY <1>0, <2>2 DEF FreshInv
  <2> QED BY <2>1, <2>3 DEF FreshInv, Free
<1>17. CASE UNCHANGED vars
  BY <1>0, <1>17 DEF vars, FreshInv, Free, folder, node, worker
<1> QED
  BY <1>1, <1>2, <1>3, <1>4, <1>5, <1>6, <1>7, <1>8, <1>9, <1>10, <1>11, <1>12, <1>13, <1>14,
     <1>15, <1>16, <1>17 DEF Next, Step

LEMMA Times ==
  ASSUME NEW a \in Int, NEW c \in Int
  PROVE  (a + 1) * c = a * c + c /\ (a - 1) * c = a * c - c /\ 0 * c = 0 /\ a * c \in Int
OBVIOUS

LEMMA ShareKept ==
  ASSUME TypeOK, Quiet, ShareInv, NEW w \in All, NEW x, Goto(w, x),
         UNCHANGED <<shareFile, nonceFile, funded, mined, owed, share>>,
         x \notin {"fund", "writeShare"}, x \notin Section
  PROVE  ShareInv'
<1>1. \A v \in All : pc'[v] \in {"fund", "writeShare"} \union Section => pc'[v] = pc[v]
  BY DEF TypeOK, Goto
<1>2. Free(Section) => Free(Section)' BY <1>1 DEF Free
<1> QED BY <1>1, <1>2 DEF ShareInv, Cost

LEMMA ShareStep ==
  TypeOK /\ CountRight /\ WhyInv /\ OnceInv /\ FreshInv /\ ShareInv /\ [Next]_vars => ShareInv'
<1> SUFFICES ASSUME TypeOK, CountRight, WhyInv, OnceInv, FreshInv, ShareInv, [Next]_vars, Quiet'
             PROVE  ShareInv'
  BY DEF ShareInv
<1>0. Quiet /\ ~lost' BY QuietBefore DEF Quiet
<1>t. /\ Len(funded) \in Nat /\ mined \in 0..Len(funded) /\ TransferCost \in Int /\ owed \in Int
      /\ shareFile.n \in Int /\ \A v \in All : share[v] \in Int
  BY AmountsAssumption DEF TypeOK, File
<1>a. ASSUME NEW w \in All, NEW x, Goto(w, x),
             UNCHANGED <<shareFile, nonceFile, funded, mined, owed, share>>,
             x \notin {"fund", "writeShare"}, x \notin Section
      PROVE  ShareInv'
  BY <1>0, <1>a, ShareKept
<1> USE DEF Section
<1>1. ASSUME NEW w \in All, Join(w) PROVE ShareInv'
  <2>1. \E x \in {"failed", "connect"} : Goto(w, x) BY <1>1 DEF Join
  <2> QED BY <1>1, <1>a, <2>1 DEF Join, node
<1>2. ASSUME NEW w \in All, Leave(w) PROVE ShareInv'
  <2>1. pc[w] = "leave" /\ (\E x \in {"done", "failed"} : Goto(w, x))
        /\ UNCHANGED <<funded, mined, owed, share>>
    BY <1>2 DEF Leave, node
  <2>2. CASE users = 1
    <3>1. mined = Len(funded) /\ \A v \in All : v # w => pc[v] \in Gone
      BY <1>0, <1>2, <2>2, LastLeaves
    <3>2. \A v \in All : pc'[v] \notin {"fund", "writeShare"} \union Section
      BY <2>1, <3>1 DEF Gone, Goto, TypeOK
    <3>3. owed = 0
      <4>1. CASE shareFile.is = "whole"
        <5>1. owed = (Len(funded) - mined) * Cost(shareFile.n) BY <1>0, <4>1 DEF ShareInv
        <5>2. Cost(shareFile.n) \in Int /\ Len(funded) - mined = 0 BY <1>t, <3>1 DEF Cost
        <5> QED BY <5>1, <5>2
      <4>2. CASE shareFile.is # "whole" BY <1>0, <4>2 DEF ShareInv
      <4> QED BY <4>1, <4>2
    <3>4. shareFile' = Absent /\ nonceFile' = Absent BY <1>2, <2>2 DEF Leave
    <3> QED BY <2>1, <3>2, <3>3, <3>4 DEF ShareInv, Free, Absent
  <2>3. CASE users # 1 BY <1>2, <1>a, <2>1, <2>3 DEF Leave
  <2> QED BY <2>2, <2>3
<1>3. ASSUME NEW w \in All, Connect(w) PROVE ShareInv'
  <2>1. \E x \in {"leave", "nonce", "update"} : Goto(w, x) BY <1>3 DEF Connect, Fail
  <2> QED BY <1>3, <1>a, <2>1 DEF Connect, node
<1>4. ASSUME NEW w \in All, Update(w) PROVE ShareInv'
  <2>1. \E x \in {"leave", "nonce"} : Goto(w, x) BY <1>4 DEF Update, Fail
  <2> QED BY <1>4, <1>a, <2>1 DEF Update, node
<1>5. ASSUME NEW w \in All, SeedSender(w) PROVE ShareInv'
  BY <1>5, <1>a DEF SeedSender, folder, node
<1>6. ASSUME NEW w \in All, InitialBalance(w) PROVE ShareInv'
  <2>1. pc[w] = "share" /\ Free({"writeShare"}) /\ UNCHANGED <<nonceFile, funded, mined, owed>>
    BY <1>6 DEF InitialBalance, node
  <2>2. CASE Goto(w, "leave") /\ UNCHANGED <<shareFile, share>> BY <1>a, <2>1, <2>2
  <2>3. CASE /\ shareFile.is = "whole" /\ share' = [share EXCEPT ![w] = shareFile.n]
             /\ Goto(w, "fund") /\ UNCHANGED shareFile
    BY <1>0, <2>1, <2>3 DEF ShareInv, Cost, Free, Goto, TypeOK
  <2>4. CASE shareFile.is = "absent" /\ shareFile' = Torn /\ Goto(w, "writeShare")
    <3>1. nonceFile.is = "absent" /\ Free(Section) /\ owed = 0 BY <1>0, <2>4 DEF ShareInv
    <3>2. \A v \in All : pc[v] # "fund" BY <1>0, <2>4 DEF ShareInv
    <3> QED BY <2>1, <2>4, <3>1, <3>2 DEF ShareInv, Free, Goto, TypeOK, Torn
  <2> QED BY <1>6, <2>2, <2>3, <2>4 DEF InitialBalance, Fail
<1>7. ASSUME NEW w \in All, WriteShare(w) PROVE ShareInv'
  <2>1. /\ pc[w] = "writeShare" /\ Goto(w, "fund") /\ shareFile' = Whole(share[w])
        /\ UNCHANGED <<nonceFile, funded, mined, owed, share>>
    BY <1>7 DEF WriteShare, node
  <2>2. shareFile.is = "torn" /\ \A v \in All : pc[v] = "writeShare" => v = w
    BY <1>0, <2>1 DEF ShareInv
  <2>3. nonceFile.is = "absent" /\ Free(Section) /\ owed = 0 BY <1>0, <2>2 DEF ShareInv
  <2>4. mined = Len(funded) BY <1>0, <2>3 DEF FreshInv
  <2>5. \A v \in All : pc[v] # "fund" BY <1>0, <2>2 DEF ShareInv
  <2>6. shareFile'.is = "whole" /\ shareFile'.n = share[w] BY <2>1 DEF Whole
  <2>7. Len(funded) - mined = 0 /\ Cost(share[w]) \in Int BY <1>t, <2>4 DEF Cost
  <2>8. 0 * Cost(share[w]) = 0 BY <2>7
  <2>9. \A i \in (mined + 1)..Len(funded) : FALSE BY <1>t, <2>4
  <2>10. \A v \in All : pc'[v] = "fund" => v = w BY <2>1, <2>5 DEF Goto, TypeOK
  <2>11. \A v \in All : pc'[v] # "writeShare" BY <2>1, <2>2 DEF Goto, TypeOK
  <2>12. owed = (Len(funded) - mined) * Cost(share[w]) BY <2>3, <2>7, <2>8
  <2> QED BY <2>1, <2>6, <2>9, <2>10, <2>11, <2>12 DEF ShareInv, Cost
<1>8. ASSUME NEW w \in All, Fund(w) PROVE ShareInv'
  <2>2. CASE Goto(w, "leave") /\ UNCHANGED <<folder, node, share, nonce, bounds>>
    BY <1>a, <2>2 DEF folder, node
  <2>3. CASE Funds(w)
    <3> DEFINE c == Cost(shareFile.n)
    <3>1. /\ pc[w] = "fund" /\ Goto(w, "openNonce")
          /\ UNCHANGED <<shareFile, nonceFile, mined, share>>
      BY <2>3 DEF Funds, folder
    <3>2. shareFile.is = "whole" /\ share[w] = shareFile.n BY <1>0, <3>1 DEF ShareInv
    <3>3. [to |-> w, value |-> share[w]] \in [to : All, value : Nat]
      BY <1>t, <2>3 DEF Funds
    <3>4. /\ Len(funded') = Len(funded) + 1
          /\ \A i \in 1..Len(funded) : funded'[i] = funded[i]
          /\ funded'[Len(funded) + 1].value = shareFile.n
      <4>1. funded \in Seq([to : All, value : Nat]) BY DEF TypeOK
      <4>2. funded' = Append(funded, [to |-> w, value |-> share[w]]) BY <2>3 DEF Funds
      <4> QED BY <3>2, <3>3, <4>1, <4>2, Appended
    <3>5. \A i \in (mined + 1)..Len(funded') : funded'[i].value = shareFile.n
      <4> SUFFICES ASSUME NEW i \in (mined + 1)..Len(funded') PROVE funded'[i].value = shareFile.n
        OBVIOUS
      <4>1. i = Len(funded) + 1 \/ (i \in (mined + 1)..Len(funded) /\ i \in 1..Len(funded))
        BY <1>t, <3>4
      <4>2. \A j \in (mined + 1)..Len(funded) : funded[j].value = shareFile.n
        BY <1>0, <3>2 DEF ShareInv
      <4> QED BY <3>4, <4>1, <4>2
    <3>6. owed' = (Len(funded') - mined) * c
      <4>1. owed = (Len(funded) - mined) * c BY <1>0, <3>2 DEF ShareInv
      <4>2. c \in Int /\ owed' = owed + c BY <1>t, <2>3, <3>2 DEF Funds, Cost
      <4>3. Len(funded) - mined \in Int /\ Len(funded') - mined = (Len(funded) - mined) + 1
        BY <1>t, <3>4
      <4>4. ((Len(funded) - mined) + 1) * c = (Len(funded) - mined) * c + c
        BY <4>2, <4>3, Times
      <4> QED BY <4>1, <4>2, <4>3, <4>4
    <3>7. \A v \in All : pc'[v] \in {"fund", "writeShare"} => pc'[v] = pc[v]
      BY <3>1 DEF Goto, TypeOK
    <3> QED BY <1>0, <3>1, <3>2, <3>5, <3>6, <3>7 DEF ShareInv, Cost
  <2> QED BY <1>0, <1>8, <2>2, <2>3, FundCases
<1>b. ASSUME NEW w \in All, NEW x, pc[w] \in Section, Goto(w, x), x \notin {"fund", "writeShare"},
             UNCHANGED <<shareFile, funded, mined, owed, share>>
      PROVE  ShareInv'
  <2>1. shareFile.is = "whole" BY <1>0, <1>b DEF ShareInv, Free
  <2>2. \A v \in All : pc'[v] \in {"fund", "writeShare"} => pc'[v] = pc[v]
    BY <1>b DEF Goto, TypeOK
  <2> QED BY <1>0, <1>b, <2>1, <2>2 DEF ShareInv, Cost
<1>9. ASSUME NEW w \in All, OpenNonce(w) PROVE ShareInv' BY <1>9, <1>b DEF OpenNonce, node
<1>10. ASSUME NEW w \in All, WriteNonce(w) PROVE ShareInv' BY <1>10, <1>b DEF WriteNonce, node
<1>11. ASSUME NEW w \in All, Wait(w) PROVE ShareInv'
  <2>1. \E x \in {"leave", "tests"} : Goto(w, x) BY <1>11 DEF Wait, Fail
  <2> QED BY <1>11, <1>a, <2>1 DEF Wait, folder, node
<1>12. ASSUME NEW w \in All, Tests(w) PROVE ShareInv' BY <1>12, <1>a DEF Tests, folder
<1>13. ASSUME NEW w \in All, Refund(w) PROVE ShareInv' BY <1>13, <1>a DEF Refund, folder
<1>14. ASSUME NEW w \in All, Kill(w) PROVE ShareInv' BY <1>14, <1>a DEF Kill, folder, node
<1>15. ASSUME NEW w \in All, KillCounting(w) PROVE ShareInv' BY <1>0, <1>15 DEF KillCounting
<1>16. CASE Mine
  <2> DEFINE c == Cost(shareFile.n)
  <2>1. /\ mined < Len(funded) /\ mined' = mined + 1
        /\ owed' = owed - funded[mined + 1].value - TransferCost
        /\ UNCHANGED <<shareFile, nonceFile, funded, pc, share>>
    BY <1>16 DEF Mine, folder, worker
  <2>2. mined # Len(funded) BY <1>t, <2>1
  <2>3. shareFile.is = "whole" BY <1>0, <2>2 DEF ShareInv, FreshInv
  <2>4. mined + 1 \in (mined + 1)..Len(funded) BY <1>t, <2>1
  <2>5. funded[mined + 1].value = shareFile.n BY <1>0, <2>3, <2>4 DEF ShareInv
  <2>6. owed' = (Len(funded) - mined') * c
    <3>1. owed = (Len(funded) - mined) * c BY <1>0, <2>3 DEF ShareInv
    <3>2. c \in Int /\ owed' = owed - c BY <1>t, <2>1, <2>5 DEF Cost
    <3>3. Len(funded) - mined \in Int /\ Len(funded) - mined' = (Len(funded) - mined) - 1
      BY <1>t, <2>1
    <3>4. ((Len(funded) - mined) - 1) * c = (Len(funded) - mined) * c - c
      BY <3>2, <3>3, Times
    <3> QED BY <3>1, <3>2, <3>3, <3>4
  <2>7. \A i : i \in (mined' + 1)..Len(funded) => i \in (mined + 1)..Len(funded)
    BY <1>t, <2>1
  <2> QED BY <1>0, <2>1, <2>3, <2>6, <2>7 DEF ShareInv, Cost
<1>17. CASE UNCHANGED vars
  BY <1>0, <1>17 DEF vars, ShareInv, Free, Cost, folder, node, worker
<1> QED
  BY <1>1, <1>2, <1>3, <1>4, <1>5, <1>6, <1>7, <1>8, <1>9, <1>10, <1>11, <1>12, <1>13, <1>14,
     <1>15, <1>16, <1>17 DEF Next, Step

LEMMA TimesMore ==
  ASSUME NEW a \in Nat, NEW b \in Nat, a <= b, NEW c \in Nat
  PROVE  a * c <= b * c
<1>1. b * c = a * c + (b - a) * c OBVIOUS
<1>2. b - a \in Nat OBVIOUS
<1>3. (b - a) * c >= 0 BY <1>2
<1>4. a * c \in Int /\ b * c \in Int /\ (b - a) * c \in Int OBVIOUS
<1> QED BY <1>1, <1>3, <1>4

LEMMA Division ==
  ASSUME NEW a \in Int, NEW n \in Nat \ {0}
  PROVE  a \div n \in Int /\ n * (a \div n) <= a
OBVIOUS

LEMMA UnfundedSize ==
  /\ Unfunded \subseteq Workers /\ IsFiniteSet(Unfunded)
  /\ Cardinality(Unfunded) \in Nat /\ Cardinality(Unfunded) <= Cardinality(Workers)
<1>1. Unfunded \subseteq Workers BY DEF Unfunded
<1>2. IsFiniteSet(Unfunded) /\ Cardinality(Unfunded) <= Cardinality(Workers)
  BY <1>1, WorkersAssumption, FS_Subset
<1> QED BY <1>1, <1>2, FS_CardinalityType

LEMMA LinearAmounts ==
  ASSUME NEW a \in Int, NEW b \in Int, NEW o1 \in Int, NEW o2 \in Int, NEW s1 \in Int,
         NEW s2 \in Int, o1 + a <= s1, b <= a, o2 - s2 <= o1 - s1
  PROVE  o2 + b <= s2
OBVIOUS

\* Fewer who need a share, and not more owed beside what there is.
LEMMA EnoughKept ==
  ASSUME TypeOK, NEW n \in Int, Enough(n), Unfunded' \subseteq Unfunded,
         owed' \in Int, seed' \in Int, owed' - seed' <= owed - seed
  PROVE  Cost(n) > 0 /\ owed' + Cardinality(Unfunded') * Cost(n) <= seed'
<1>1. IsFiniteSet(Unfunded') /\ Cardinality(Unfunded') <= Cardinality(Unfunded)
  BY UnfundedSize, FS_Subset
<1>2. Cardinality(Unfunded') \in Nat /\ Cardinality(Unfunded) \in Nat
  BY <1>1, UnfundedSize, FS_CardinalityType
<1>3. Cost(n) > 0 /\ Cost(n) \in Nat BY AmountsAssumption DEF Enough, Cost
<1>4. Cardinality(Unfunded') * Cost(n) <= Cardinality(Unfunded) * Cost(n)
  BY <1>1, <1>2, <1>3, TimesMore
<1>5. Cardinality(Unfunded') * Cost(n) \in Int /\ Cardinality(Unfunded) * Cost(n) \in Int
  BY <1>2, <1>3
<1>6. owed + Cardinality(Unfunded) * Cost(n) <= seed BY DEF Enough
<1>7. owed \in Int /\ seed \in Int BY DEF TypeOK
<1>8. owed' + Cardinality(Unfunded') * Cost(n) <= seed'
  BY <1>4, <1>5, <1>6, <1>7, LinearAmounts
<1> QED BY <1>3, <1>8

LEMMA MoneyKept ==
  ASSUME TypeOK, Quiet, Killed = {}, MoneyInv, NEW w \in All, NEW x, Goto(w, x),
         x \in Before => pc[w] \in Before, x # "writeShare",
         UNCHANGED <<shareFile, share>>,
         owed' \in Int, seed' \in Int, owed' - seed' <= owed - seed
  PROVE  MoneyInv'
<1>1. Unfunded' \subseteq Unfunded BY DEF Unfunded, Goto, TypeOK
<1>2. shareFile.n \in Int /\ \A v \in All : share[v] \in Int BY DEF TypeOK, File
<1>3. ASSUME NEW v \in All, pc'[v] = "writeShare" PROVE Enough(share[v])
  <2>1. pc[v] = "writeShare" BY <1>3 DEF Goto, TypeOK
  <2> QED BY <2>1 DEF MoneyInv
<1>4. shareFile.is = "whole" => Enough(shareFile.n) BY DEF MoneyInv
<1>5. shareFile.is = "whole"
        => Cost(shareFile.n) > 0
           /\ owed' + Cardinality(Unfunded') * Cost(shareFile.n) <= seed'
  BY <1>1, <1>2, <1>4, EnoughKept
<1>6. \A v \in All : pc'[v] = "writeShare"
        => Cost(share[v]) > 0 /\ owed' + Cardinality(Unfunded') * Cost(share[v]) <= seed'
  BY <1>1, <1>2, <1>3, EnoughKept
<1> QED BY <1>5, <1>6 DEF MoneyInv, Enough, Cost

LEMMA MoneyStep ==
  TypeOK /\ CountRight /\ WhyInv /\ SparesInv /\ ShareInv /\ MoneyInv /\ [Next]_vars => MoneyInv'
<1> SUFFICES ASSUME TypeOK, CountRight, WhyInv, SparesInv, ShareInv, MoneyInv, [Next]_vars,
                    Quiet', Killed' = {}
             PROVE  MoneyInv'
  BY DEF MoneyInv
<1>0. Quiet /\ ~lost' BY QuietBefore DEF Quiet
<1>k. Killed = {} BY KilledBefore
<1>t. /\ TransferCost \in Int /\ owed \in Int /\ seed \in Int
      /\ shareFile.n \in Int /\ \A v \in All : share[v] \in Int
  BY AmountsAssumption DEF TypeOK, File
<1>a. ASSUME NEW w \in All, NEW x, Goto(w, x), x \in Before => pc[w] \in Before,
             x # "writeShare", UNCHANGED <<shareFile, share, owed, seed>>
      PROVE  MoneyInv'
  BY <1>0, <1>k, <1>t, <1>a, MoneyKept
<1> USE DEF Before
<1>1. ASSUME NEW w \in All, Join(w) PROVE MoneyInv'
  <2>1. pc[w] = "out" /\ \E x \in {"failed", "connect"} : Goto(w, x) BY <1>1 DEF Join
  <2> QED BY <1>1, <1>a, <2>1 DEF Join, node
<1>2. ASSUME NEW w \in All, Leave(w) PROVE MoneyInv'
  <2>1. pc[w] = "leave" /\ (\E x \in {"done", "failed"} : Goto(w, x))
        /\ UNCHANGED <<owed, seed, share>>
    BY <1>2 DEF Leave, node
  <2>2. CASE UNCHANGED shareFile BY <1>a, <2>1, <2>2
  <2>3. CASE shareFile' = Absent /\ \A v \in All : pc'[v] # "writeShare"
    BY <2>3 DEF MoneyInv, Absent
  <2>4. CASE users = 1
    <3>1. shareFile' = Absent BY <1>2, <2>4 DEF Leave
    <3>2. \A v \in All : v # w => pc[v] \in Gone
      <4>1. w \in Present BY <2>1 DEF Present
      <4>2. Cardinality(Present) = 1 BY <2>4 DEF CountRight, TornCount
      <4>3. Cardinality(Present \ {w}) = 0 BY <4>1, <4>2, PresentFinite, FS_RemoveElement
      <4>4. Present \ {w} = {} BY <4>3, PresentFinite, FS_Subset, FS_EmptySet
      <4> QED BY <4>4 DEF Present, Gone
    <3>3. \A v \in All : pc'[v] # "writeShare" BY <2>1, <3>2 DEF Gone, Goto, TypeOK
    <3> QED BY <2>3, <3>1, <3>3
  <2> QED BY <1>2, <2>2, <2>4 DEF Leave
<1>3. ASSUME NEW w \in All, Connect(w) PROVE MoneyInv'
  <2>1. pc[w] = "connect" /\ \E x \in {"leave", "nonce", "update"} : Goto(w, x)
    BY <1>3 DEF Connect, Fail
  <2> QED BY <1>3, <1>a, <2>1 DEF Connect, node
<1>4. ASSUME NEW w \in All, Update(w) PROVE MoneyInv'
  <2>1. pc[w] = "update" /\ \E x \in {"leave", "nonce"} : Goto(w, x) BY <1>4 DEF Update, Fail
  <2> QED BY <1>4, <1>a, <2>1 DEF Update, node
<1>5. ASSUME NEW w \in All, SeedSender(w) PROVE MoneyInv'
  BY <1>5, <1>a DEF SeedSender, folder, node
<1>6. ASSUME NEW w \in All, InitialBalance(w) PROVE MoneyInv'
  <2>1. pc[w] = "share" /\ Free({"writeShare"}) /\ UNCHANGED <<owed, seed>>
    BY <1>6 DEF InitialBalance, node
  <2>2. CASE Goto(w, "leave") /\ UNCHANGED <<shareFile, share>> BY <1>a, <2>1, <2>2
  <2>3. CASE /\ shareFile.is = "whole" /\ share' = [share EXCEPT ![w] = shareFile.n]
             /\ Goto(w, "fund") /\ UNCHANGED shareFile
    <3>1. \A v \in All : pc'[v] # "writeShare" BY <2>1, <2>3 DEF Free, Goto, TypeOK
    <3>2. Unfunded' \subseteq Unfunded BY <2>1, <2>3 DEF Unfunded, Goto, TypeOK
    <3>3. Enough(shareFile.n) BY <1>0, <1>k, <2>3 DEF MoneyInv
    <3>4. Cost(shareFile.n) > 0 /\ owed' + Cardinality(Unfunded') * Cost(shareFile.n) <= seed'
      BY <1>t, <2>1, <3>2, <3>3, EnoughKept
    <3> QED BY <2>3, <3>1, <3>4 DEF MoneyInv, Enough, Cost
  <2>4. CASE /\ shareFile.is = "absent" /\ PerWorker > LeastShare
             /\ share' = [share EXCEPT ![w] = PerWorker - TransferCost]
             /\ shareFile' = Torn /\ Goto(w, "writeShare")
    <3> DEFINE N == Cardinality(Workers)
    <3>1. owed = 0 BY <1>0, <2>4 DEF ShareInv
    <3>2. N \in Nat \ {0} BY WorkersAssumption, FS_CardinalityType, FS_EmptySet
    <3>3. PerWorker \in Int /\ N * PerWorker <= seed BY <1>t, <3>2, Division DEF PerWorker
    <3>4. PerWorker > 0 /\ PerWorker \in Nat BY <2>4, <3>3, AmountsAssumption
    <3>5. Cardinality(Unfunded') \in Nat /\ Cardinality(Unfunded') <= N
      <4>1. Unfunded' \subseteq Workers BY DEF Unfunded
      <4>2. IsFiniteSet(Unfunded') /\ Cardinality(Unfunded') <= N
        BY <4>1, WorkersAssumption, FS_Subset
      <4> QED BY <4>2, FS_CardinalityType
    <3>6. Cardinality(Unfunded') * PerWorker <= N * PerWorker
      BY <3>2, <3>4, <3>5, TimesMore
    <3>7. Cardinality(Unfunded') * PerWorker \in Int /\ N * PerWorker \in Int
      BY <3>2, <3>4, <3>5
    <3>8. Cardinality(Unfunded') * PerWorker <= seed BY <1>t, <3>3, <3>6, <3>7
    <3>9. \A v \in All : pc'[v] = "writeShare" => v = w /\ share'[v] = PerWorker - TransferCost
      BY <2>1, <2>4 DEF Free, Goto, TypeOK
    <3>10. (PerWorker - TransferCost) + TransferCost = PerWorker BY <1>t, <3>3
    <3>11. owed' + Cardinality(Unfunded') * PerWorker <= seed'
      BY <1>t, <2>1, <3>1, <3>7, <3>8
    <3>12. \A v \in All : pc'[v] = "writeShare" => Cost(share'[v]) = PerWorker
      BY <3>9, <3>10 DEF Cost
    <3> HIDE DEF N
    <3>13. shareFile'.is # "whole" BY <2>4 DEF Torn
    <3>14. (\A v \in All : pc[v] = "writeShare" => Enough(share[v]))'
      BY <3>4, <3>11, <3>12 DEF Enough, Cost
    <3> QED BY <3>13, <3>14 DEF MoneyInv
  <2> QED BY <1>6, <2>2, <2>3, <2>4 DEF InitialBalance, Fail
<1>7. ASSUME NEW w \in All, WriteShare(w) PROVE MoneyInv'
  <2>1. /\ pc[w] = "writeShare" /\ Goto(w, "fund") /\ shareFile' = Whole(share[w])
        /\ UNCHANGED <<owed, seed, share>>
    BY <1>7 DEF WriteShare, node
  <2>2. \A v \in All : pc[v] = "writeShare" => v = w BY <1>0, <2>1 DEF ShareInv
  <2>3. \A v \in All : pc'[v] # "writeShare" BY <2>1, <2>2 DEF Goto, TypeOK
  <2>4. Unfunded' \subseteq Unfunded BY <2>1 DEF Unfunded, Goto, TypeOK
  <2>5. Enough(share[w]) BY <1>0, <1>k, <2>1 DEF MoneyInv
  <2>6. Cost(share[w]) > 0 /\ owed' + Cardinality(Unfunded') * Cost(share[w]) <= seed'
    BY <1>t, <2>1, <2>4, <2>5, EnoughKept
  <2>7. shareFile'.n = share[w] BY <2>1 DEF Whole
  <2> QED BY <2>3, <2>6, <2>7 DEF MoneyInv, Enough, Cost
<1>8. ASSUME NEW w \in All, Fund(w) PROVE MoneyInv'
  <2>1. pc[w] = "fund" BY <1>8 DEF Fund
  <2>2. CASE Goto(w, "leave") /\ UNCHANGED <<folder, node, share, nonce, bounds>>
    BY <1>a, <2>2 DEF folder, node
  <2>3. CASE Funds(w)
    <3> DEFINE c == Cost(shareFile.n)
    <3>1. /\ Goto(w, "openNonce") /\ owed' = owed + share[w] + TransferCost
          /\ UNCHANGED <<shareFile, seed, share>>
      BY <2>3 DEF Funds, folder
    <3>2. shareFile.is = "whole" /\ share[w] = shareFile.n BY <1>0, <2>1 DEF ShareInv
    <3>3. Enough(shareFile.n) BY <1>0, <1>k, <3>2 DEF MoneyInv
    <3>4. w \in Workers BY <1>k, <2>1, NoSpares
    <3>5. Unfunded' = Unfunded \ {w} /\ w \in Unfunded
      BY <2>1, <3>1, <3>4 DEF Unfunded, Goto, TypeOK, All
    <3>6. Cardinality(Unfunded') = Cardinality(Unfunded) - 1
      BY <3>5, UnfundedSize, FS_RemoveElement
    <3>7. c \in Int /\ owed' = owed + c BY <1>t, <3>1, <3>2 DEF Cost
    <3>8. Cardinality(Unfunded) \in Int BY UnfundedSize
    <3>9. (Cardinality(Unfunded) - 1) * c = Cardinality(Unfunded) * c - c
      BY <3>7, <3>8, Times
    <3>10. Cardinality(Unfunded) * c \in Int BY <3>7, <3>8
    <3>11. c > 0 /\ owed + Cardinality(Unfunded) * c <= seed BY <3>3 DEF Enough
    <3>12. owed' + Cardinality(Unfunded') * c <= seed'
      BY <1>t, <3>1, <3>6, <3>7, <3>9, <3>10, <3>11
    <3>13. \A v \in All : pc'[v] # "writeShare"
      BY <1>0, <3>1, <3>2 DEF ShareInv, Goto, TypeOK
    <3> QED BY <3>1, <3>11, <3>12, <3>13 DEF MoneyInv, Enough, Cost
  <2> QED BY <1>0, <1>8, <2>2, <2>3, FundCases
<1>9. ASSUME NEW w \in All, OpenNonce(w) PROVE MoneyInv' BY <1>9, <1>a DEF OpenNonce, node
<1>10. ASSUME NEW w \in All, WriteNonce(w) PROVE MoneyInv' BY <1>10, <1>a DEF WriteNonce, node
<1>11. ASSUME NEW w \in All, Wait(w) PROVE MoneyInv'
  <2>1. \E x \in {"leave", "tests"} : Goto(w, x) BY <1>11 DEF Wait, Fail
  <2> QED BY <1>11, <1>a, <2>1 DEF Wait, folder, node
<1>12. ASSUME NEW w \in All, Tests(w) PROVE MoneyInv' BY <1>12, <1>a DEF Tests, folder
<1>13. ASSUME NEW w \in All, Refund(w) PROVE MoneyInv'
  <2>1. Goto(w, "leave") /\ UNCHANGED <<shareFile, share, owed>>
    BY <1>13 DEF Refund, folder
  <2>2. seed' \in Int /\ seed' >= seed
    <3>1. key[w] \in Int /\ RefundCost \in Int BY <1>t DEF TypeOK, RefundCost
    <3> QED BY <1>13, <1>t, <3>1 DEF Refund
  <2>3. owed' = owed BY <2>1
  <2>4. owed \in Int /\ seed \in Int BY <1>t
  <2>5. owed' - seed' <= owed - seed
    <3>1. \A o, s, t \in Int : t >= s => o - t <= o - s OBVIOUS
    <3>2. owed - seed' <= owed - seed BY <2>2, <2>4, <3>1
    <3> QED BY <2>3, <3>2
  <2> QED BY <1>0, <1>k, <1>t, <2>1, <2>2, <2>5, MoneyKept
<1>14. ASSUME NEW w \in All, Kill(w) PROVE MoneyInv'
  <2>1. w \in Killed' BY <1>14 DEF Kill, Killed, Goto, TypeOK
  <2> QED BY <2>1
<1>15. ASSUME NEW w \in All, KillCounting(w) PROVE MoneyInv' BY <1>0, <1>15 DEF KillCounting
<1>16. CASE Mine
  <2> DEFINE v == funded[mined + 1].value
  <2>1. /\ mined < Len(funded) /\ seed' = seed - v - TransferCost
        /\ owed' = owed - v - TransferCost /\ UNCHANGED <<shareFile, pc, share>>
    BY <1>16 DEF Mine, folder, worker
  <2>2. mined + 1 \in 1..Len(funded)
    <3>1. mined \in 0..Len(funded) /\ Len(funded) \in Nat BY <1>t DEF TypeOK
    <3> QED BY ONLY <2>1, <3>1
  <2>3. v \in Int BY <2>2, FundedTypes
  <2>4. owed \in Int /\ seed \in Int /\ TransferCost \in Int BY <1>t
  <2> HIDE DEF v
  <2>5. owed' \in Int /\ seed' \in Int /\ owed' - seed' <= owed - seed BY <2>1, <2>3, <2>4
  <2>6. Unfunded' = Unfunded BY <2>1 DEF Unfunded
  <2>7. \A n \in Int : Enough(n)
          => Cost(n) > 0 /\ owed' + Cardinality(Unfunded') * Cost(n) <= seed'
    BY <2>5, <2>6, EnoughKept
  <2>8. shareFile.is = "whole" => Enough(shareFile.n) BY <1>0, <1>k DEF MoneyInv
  <2>9. \A u \in All : pc[u] = "writeShare" => Enough(share[u]) BY <1>0, <1>k DEF MoneyInv
  <2>10. (shareFile.is = "whole" => Enough(shareFile.n))'
    BY <1>t, <2>1, <2>7, <2>8 DEF Enough, Cost
  <2>11. (\A u \in All : pc[u] = "writeShare" => Enough(share[u]))'
    BY <1>t, <2>1, <2>7, <2>9 DEF Enough, Cost
  <2> QED BY <2>10, <2>11 DEF MoneyInv
<1>17. CASE UNCHANGED vars
  BY <1>0, <1>k, <1>17 DEF vars, MoneyInv, Enough, Unfunded, Cost, folder, node, worker
<1> QED
  BY <1>1, <1>2, <1>3, <1>4, <1>5, <1>6, <1>7, <1>8, <1>9, <1>10, <1>11, <1>12, <1>13, <1>14,
     <1>15, <1>16, <1>17 DEF Next, Step

\* The node refuses no transaction for its nonce, and for the money only after a kill.
LEMMA FundAnswered ==
  ASSUME TypeOK, NonceInv, TornInv, SparesInv, FreshInv, ShareInv, MoneyInv, Quiet,
         NEW w \in All, pc[w] = "fund", Free(Section)
  PROVE  LET n == IF nonceFile.is = "whole" THEN nonceFile.n ELSE nonce[w]
         IN  /\ nonceFile.is # "torn"
             /\ Answer(n, share[w]) # "nonce"
             /\ Killed = {} => Answer(n, share[w]) # "funds"
<1> DEFINE n == IF nonceFile.is = "whole" THEN nonceFile.n ELSE nonce[w]
<1>1. ~lost BY DEF Quiet
<1>2. nonceFile.is # "torn" BY <1>1 DEF TornInv, Free, Section
<1>3. n = Len(funded)
  <2>1. CASE nonceFile.is = "whole" BY <1>1, <2>1 DEF NonceInv, NonceAgrees, Section
  <2>2. CASE nonceFile.is = "absent" BY <2>2 DEF FreshInv, Sharing
  <2> QED BY <1>2, <2>1, <2>2 DEF TypeOK, File
<1>4. Len(funded) \in Nat BY DEF TypeOK
<1>5. ASSUME Killed = {} PROVE ~(owed + share[w] + TransferCost > seed)
  <2> DEFINE c == Cost(shareFile.n)  u == Cardinality(Unfunded)
  <2>1. shareFile.is = "whole" /\ share[w] = shareFile.n BY DEF ShareInv
  <2>2. c > 0 /\ owed + u * c <= seed BY <1>5, <2>1 DEF MoneyInv, Enough
  <2>3. w \in Unfunded BY <1>5, NoSpares DEF Unfunded, Before
  <2>4. u \in Nat /\ u >= 1
    <3>1. u # 0 BY <2>3, UnfundedSize, FS_EmptySet
    <3> QED BY <3>1, UnfundedSize
  <2>5. owed \in Int /\ seed \in Int /\ shareFile.n \in Int /\ TransferCost \in Int
    BY AmountsAssumption DEF TypeOK, File
  <2>6. c \in Nat BY <2>2, <2>5 DEF Cost
  <2>7. 1 * c <= u * c BY <2>4, <2>6, TimesMore
  <2>8. u * c \in Int /\ 1 * c = c BY <2>4, <2>6
  <2>9. owed + share[w] + TransferCost = owed + c BY <2>1, <2>5 DEF Cost
  <2> HIDE DEF c, u
  <2>10. owed + c <= seed BY <2>2, <2>5, <2>6, <2>7, <2>8
  <2> QED BY <2>5, <2>6, <2>9, <2>10
<1>6. Answer(n, share[w]) # "nonce" BY <1>3, <1>4 DEF Answer
<1>7. Killed = {} => Answer(n, share[w]) # "funds" BY <1>3, <1>4, <1>5 DEF Answer
<1> QED BY <1>2, <1>6, <1>7

Local == {"nothing", "forkchoice", "poor", "negative"}

LEMMA LocalStep ==
  TypeOK /\ NonceInv /\ KillInv /\ [Next]_vars => LocalInv'
<1> SUFFICES ASSUME TypeOK, NonceInv, KillInv, [Next]_vars, Quiet' PROVE LocalInv'
  BY DEF LocalInv
<1>i. /\ WhyInv /\ TornInv /\ SparesInv /\ OnceInv /\ FreshInv /\ ShareInv /\ MoneyInv
      /\ LocalInv
  BY DEF KillInv
<1>0. Quiet /\ ~lost /\ ~lost' BY <1>i, QuietBefore DEF Quiet
<1>k. Killed \subseteq Killed' BY KilledBefore
<1>a. ASSUME UNCHANGED why PROVE LocalInv' BY <1>0, <1>a, <1>i, <1>k DEF LocalInv
<1>b. ASSUME NEW w \in All, NEW r, why' = [why EXCEPT ![w] = r],
             r \in Local \/ (r = "funds" /\ Killed # {})
      PROVE  LocalInv'
  BY <1>0, <1>b, <1>i, <1>k DEF LocalInv, Local, TypeOK
<1> USE DEF Local
<1>1. ASSUME NEW w \in All, Join(w) PROVE LocalInv'
  BY <1>0, <1>1, <1>a, <1>i DEF Join, TornInv
<1>2. ASSUME NEW w \in All, Connect(w) PROVE LocalInv' BY <1>2, <1>a, <1>b DEF Connect, Fail
<1>3. ASSUME NEW w \in All, Update(w) PROVE LocalInv' BY <1>3, <1>a, <1>b DEF Update, Fail
<1>4. ASSUME NEW w \in All, InitialBalance(w) PROVE LocalInv'
  <2>1. shareFile.is # "torn" BY <1>0, <1>4, <1>i DEF InitialBalance, TornInv
  <2> QED BY <1>4, <1>a, <1>b, <2>1 DEF InitialBalance, Fail
<1>5. ASSUME NEW w \in All, Fund(w) PROVE LocalInv'
  <2> DEFINE n == IF nonceFile.is = "whole" THEN nonceFile.n ELSE nonce[w]
             answer == IF share[w] < 0 THEN "negative" ELSE Answer(n, share[w])
  <2>1. pc[w] = "fund" /\ Free(Section) BY <1>5 DEF Fund, Section
  <2>2. /\ nonceFile.is # "torn" /\ Answer(n, share[w]) # "nonce"
        /\ Killed = {} => Answer(n, share[w]) # "funds"
    BY <1>0, <1>i, <2>1, FundAnswered
  <2>3. answer \in {"negative", "nonce", "funds", "taken"} BY DEF Answer
  <2>4. answer # "nonce" /\ (answer = "funds" => Killed # {}) BY <2>2
  <2> HIDE DEF answer
  <2>5. UNCHANGED why \/ (answer # "taken" /\ why' = [why EXCEPT ![w] = answer])
    BY <1>0, <1>5, <2>2 DEF Fund, Fail, answer
  <2> QED BY <1>a, <1>b, <2>3, <2>4, <2>5
<1>6. ASSUME NEW w \in All, Wait(w) PROVE LocalInv'
  <2>1. ASSUME Fail(w, "timeout") PROVE FALSE
    <3>1. why'[w] = "timeout" BY <2>1 DEF Fail, TypeOK
    <3> QED BY <3>1 DEF Quiet
  <2> QED BY <1>6, <1>a, <2>1 DEF Wait
<1> QED
  BY <1>1, <1>2, <1>3, <1>4, <1>5, <1>6, <1>a DEF Next, Step, vars, worker, Leave, SeedSender,
     WriteShare, OpenNonce, WriteNonce, Tests, Refund, Mine, Kill, KillCounting

LEMMA KillStep == IInv /\ KillInv /\ [Next]_vars => KillInv'
<1> SUFFICES ASSUME IInv, KillInv, [Next]_vars PROVE KillInv' OBVIOUS
<1>1. /\ TypeOK /\ CountRight /\ NonceInv
      /\ WhyInv /\ TornInv /\ SparesInv /\ OnceInv /\ FreshInv /\ ShareInv /\ MoneyInv
  BY DEF IInv, KillInv
<1>2. WhyInv' BY <1>1, WhyStep
<1>3. TornInv' BY <1>1, TornStep
<1>4. SparesInv' BY <1>1, SparesStep
<1>5. OnceInv' BY <1>1, OnceStep
<1>6. FreshInv' BY <1>1, FreshStep
<1>7. ShareInv' BY <1>1, ShareStep
<1>8. MoneyInv' BY <1>1, MoneyStep
<1>9. LocalInv' BY <1>1, LocalStep
<1> QED BY <1>2, <1>3, <1>4, <1>5, <1>6, <1>7, <1>8, <1>9 DEF KillInv

LEMMA KillInit == Init => KillInv
<1> SUFFICES ASSUME Init PROVE KillInv OBVIOUS
<1>1. WhyInv /\ TornInv /\ OnceInv /\ FreshInv
  BY DEF Init, WhyInv, TornInv, OnceInv, FreshInv, Absent, TornCount, Sharing
<1>2. ShareInv /\ MoneyInv
  BY DEF Init, ShareInv, MoneyInv, Absent, Free, Section
<1>3. LocalInv BY DEF Init, LocalInv
<1>4. SparesInv
  <2>1. Replaced = {} /\ Killed = {} BY DEF Init, Replaced, Killed, All
  <2> QED BY <2>1, FS_EmptySet DEF SparesInv
<1> QED BY <1>1, <1>2, <1>3, <1>4 DEF KillInv

-------------------------------------------------------------------------------
(* The results.                                                               *)

\* All of the above is an invariant of the session.
THEOREM Invariance == Spec => []IInv
<1>1. Init => IInv BY InitOK
<1>2. IInv /\ [Next]_vars => IInv'
  BY CountStep, FolderStep, NodeStep, WorkerStep, BoundsStep, NonceStep, TypeParts DEF IInv
<1> QED BY <1>1, <1>2, PTL DEF Spec

\* The variables have their types, for any number of workers.
THEOREM TypeCorrect == Spec => []TypeOK
<1>1. IInv => TypeOK BY DEF IInv
<1> QED BY <1>1, Invariance, PTL

\* The folder counts its users, so that only the last one removes it.
THEOREM UsersCounted == Spec => []CountRight
<1>1. IInv => CountRight BY DEF IInv
<1> QED BY <1>1, Invariance, PTL

\* The nonce file, whole and unlocked, has the nonce of the next funding
\* transaction, however few of those before it are mined.
THEOREM NonceHandedOn == Spec => []NonceAgrees
<1>1. IInv => NonceAgrees BY DEF IInv, NonceInv
<1> QED BY <1>1, Invariance, PTL

\* A worker that dies between two sections stops no other: without a lost call and a
\* client that does not answer, what stops a worker is that there is too little money
\* for it, and the node refuses its transaction only after somebody was killed.
THEOREM DeathsStayLocal == Spec => []KillsAreLocal
<1>1. Init => IInv /\ KillInv BY InitOK, KillInit
<1>2. IInv /\ KillInv /\ [Next]_vars => (IInv /\ KillInv)'
  BY CountStep, FolderStep, NodeStep, WorkerStep, BoundsStep, NonceStep, TypeParts, KillStep
     DEF IInv
<1>3. KillInv => KillsAreLocal
  BY DEF KillInv, LocalInv, KillsAreLocal, Quiet
<1> QED BY <1>1, <1>2, <1>3, PTL DEF Spec

================================================================================
