---------------------------- MODULE ExecuteSession ----------------------------
(* The session of `execute remote` in one pytest-xdist worker, from its first *)
(* fixture to its last: the session folder (pytest_plugins/concurrency.py),   *)
(* the first forkchoice update (execute/rpc/chain_builder_eth_rpc.py), the    *)
(* share of the seed account and the sender key of the worker                 *)
(* (execute/sender.py).                                                       *)
(*                                                                            *)
(* The workers share an account, whose nonce they hand on in a file, and      *)
(* nothing else: what one of them leaves half done the others find.  A worker *)
(* that is killed leaves its locks free, its count in the folder and its      *)
(* files as they are, and pytest-xdist starts another in its place.           *)
(*                                                                            *)
(* A section under a file lock is one step where nothing in it can be lost in *)
(* between; else a step for each effect, and the lock is the set of control   *)
(* states from its first to its last.  Amounts are small integers; a transfer *)
(* burns exactly its gas limit, as a transfer of 21000 gas does.              *)
EXTENDS Integers, Sequences, FiniteSets

CONSTANTS Workers,              \* the workers pytest-xdist starts with
          Spares,               \* the workers it starts for killed ones
          SeedBalances,         \* what the seed account may have at the start
          TransferCost,         \* gas limit times gas price of a funding transaction
          LeastShare,           \* 100 wei in the code
          Spending,             \* what the tests of a worker may cost its key
          MaxFaults             \* bound: kills, timeouts and failed calls

All == Workers \union Spares

ASSUME WorkersAssumption == /\ IsFiniteSet(Workers) /\ Workers # {}
                            /\ IsFiniteSet(Spares) /\ Workers \intersect Spares = {}
ASSUME AmountsAssumption == /\ SeedBalances \subseteq Nat /\ Spending \subseteq Nat
                            /\ TransferCost \in Nat \ {0} /\ LeastShare \in Nat
ASSUME BoundsAssumption == MaxFaults \in Nat

VARIABLES
  \* the session folder
  users,                        \* the count in folder_users
  forkchoice,                   \* "none", "error" (the .err file), "sent"
  shareFile, nonceFile,         \* sender_key_initial_balance, seed_sender_nonce
  \* the node
  seed,                         \* the balance of the seed account
  key,                          \* the balance of the key of each worker
  funded,                       \* the funding transactions it took, in order of nonce
  mined,                        \* how many of them are in blocks
  owed,                         \* what the others are going to cost
  \* each worker
  pc, share, nonce, why,        \* where, what it read, and what stopped it
  faults, lost                  \* how many; was one in the middle of a section?

folder == <<users, forkchoice, shareFile, nonceFile>>
node == <<seed, key, funded, mined, owed>>
worker == <<pc, share, nonce, why>>
bounds == <<faults, lost>>
vars == <<folder, node, worker, bounds>>

(******************************* The two files *******************************)

Absent == [is |-> "absent", n |-> 0]
Torn == [is |-> "torn", n |-> 0]             \* opened for writing: truncated
Whole(i) == [is |-> "whole", n |-> i]
TornCount == -1

Init == /\ users = 0 /\ forkchoice = "none"
        /\ shareFile = Absent /\ nonceFile = Absent
        /\ seed \in SeedBalances
        /\ key = [w \in All |-> 0]
        /\ funded = <<>> /\ mined = 0 /\ owed = 0
        /\ pc = [w \in All |-> "out"]
        /\ share = [w \in All |-> 0] /\ nonce = [w \in All |-> 0]
        /\ why = [w \in All |-> "nothing"]
        /\ faults = 0 /\ lost = FALSE

Goto(w, place) == pc' = [pc EXCEPT ![w] = place]

\* The fixture raises: the tests of the worker are errors and it tears down.
Fail(w, reason) == /\ Goto(w, "leave")
                   /\ why' = [why EXCEPT ![w] = reason]

Fault == faults < MaxFaults /\ faults' = faults + 1

\* Mutant: the sections are not locked.
NoLock(section) == TRUE

\* Nobody is inside a section that has these control states.
Free(section) == \A v \in All : pc[v] \notin section

Over == {"done", "failed", "killed"}
Present == {w \in All : pc[w] \notin {"out", "done", "failed"}}
Killed == {w \in All : pc[w] = "killed"}
Replaced == {w \in Spares : pc[w] # "out"}

(**************************** The session folder *****************************)

\* The lock makes its folder: one that was removed since mkdir is there again.
Join(w) == /\ pc[w] = "out"
           /\ w \in Spares => Cardinality(Replaced) < Cardinality(Killed)
           /\ IF users = TornCount
              THEN /\ Goto(w, "failed")
                   /\ why' = [why EXCEPT ![w] = "torn"]
                   /\ UNCHANGED users
              ELSE /\ users' = users + 1
                   /\ Goto(w, "connect")
                   /\ UNCHANGED why
           /\ UNCHANGED <<forkchoice, shareFile, nonceFile, node, share, nonce, bounds>>

\* The last user takes the folder and all that is in it with it.
Leave(w) == /\ pc[w] = "leave"
            /\ IF users = TornCount THEN UNCHANGED users ELSE users' = users - 1
            /\ IF users = 1
               THEN forkchoice' = "none" /\ shareFile' = Absent /\ nonceFile' = Absent
               ELSE UNCHANGED <<forkchoice, shareFile, nonceFile>>
            /\ Goto(w, IF why[w] = "nothing" /\ users # TornCount THEN "done" ELSE "failed")
            /\ UNCHANGED <<node, share, nonce, why, bounds>>

(*********************** The first forkchoice update *************************)

\* Mutant: who finds the error file waits for the other file.
ConnectPatient(w) ==
  /\ pc[w] = "connect" /\ Free({"update"})
  /\ \/ forkchoice = "sent" /\ Goto(w, "nonce") /\ UNCHANGED forkchoice
     \/ forkchoice = "none" /\ forkchoice' = "error" /\ Goto(w, "update")
  /\ UNCHANGED <<users, shareFile, nonceFile, node, share, nonce, why, bounds>>

Connect(w) ==
  /\ pc[w] = "connect" /\ Free({"update"})
  /\ \/ forkchoice = "error" /\ Fail(w, "forkchoice") /\ UNCHANGED forkchoice
     \/ forkchoice = "sent" /\ Goto(w, "nonce") /\ UNCHANGED <<forkchoice, why>>
     \/ forkchoice = "none" /\ forkchoice' = "error" /\ Goto(w, "update") /\ UNCHANGED why
  /\ UNCHANGED <<users, shareFile, nonceFile, node, share, nonce, bounds>>

\* The client says VALID within the retries, or it does not.
Update(w) ==
  /\ pc[w] = "update"
  /\ \/ forkchoice' = "sent" /\ Goto(w, "nonce") /\ UNCHANGED <<why, faults>>
     \/ Fault /\ Fail(w, "forkchoice") /\ UNCHANGED forkchoice
  /\ UNCHANGED <<users, shareFile, nonceFile, node, share, nonce, lost>>

(***************************** The sender key ********************************)

\* seed_sender asks for the nonce of the latest block.
SeedSender(w) ==
  /\ pc[w] = "nonce"
  /\ nonce' = [nonce EXCEPT ![w] = mined]
  /\ Goto(w, "share")
  /\ UNCHANGED <<folder, node, share, why, bounds>>

PerWorker == seed \div Cardinality(Workers)

InitialBalance(w) ==
  /\ pc[w] = "share" /\ Free({"writeShare"})
  /\ \/ /\ shareFile.is = "whole"
        /\ share' = [share EXCEPT ![w] = shareFile.n]
        /\ Goto(w, "fund")
        /\ UNCHANGED <<shareFile, why>>
     \/ /\ shareFile.is = "torn"
        /\ Fail(w, "torn")
        /\ UNCHANGED <<shareFile, share>>
     \/ /\ shareFile.is = "absent" /\ PerWorker <= LeastShare
        /\ Fail(w, "poor")
        /\ UNCHANGED <<shareFile, share>>
     \/ /\ shareFile.is = "absent" /\ PerWorker > LeastShare
        /\ share' = [share EXCEPT ![w] = PerWorker - TransferCost]
        /\ shareFile' = Torn
        /\ Goto(w, "writeShare")
        /\ UNCHANGED why
  /\ UNCHANGED <<users, forkchoice, nonceFile, node, nonce, bounds>>

WriteShare(w) ==
  /\ pc[w] = "writeShare"
  /\ shareFile' = Whole(share[w])
  /\ Goto(w, "fund")
  /\ UNCHANGED <<users, forkchoice, nonceFile, node, share, nonce, why, bounds>>

\* What the node says of a funding transaction: its nonce is taken, or the
\* account cannot pay for it beside those that wait.
Answer(n, value) == IF n < Len(funded) THEN "nonce"
                    ELSE IF owed + value + TransferCost > seed THEN "funds"
                    ELSE "taken"

Fund(w) ==
  LET n == IF nonceFile.is = "whole" THEN nonceFile.n ELSE nonce[w]
      answer == IF share[w] < 0 THEN "negative" ELSE Answer(n, share[w])
  IN /\ pc[w] = "fund" /\ Free({"openNonce", "writeNonce"})
     /\ \/ /\ nonceFile.is = "torn"
           /\ Fail(w, "torn")
           /\ UNCHANGED <<funded, owed, nonce, bounds>>
        \/ /\ nonceFile.is # "torn" /\ answer # "taken"
           /\ Fail(w, answer)
           /\ UNCHANGED <<funded, owed, nonce, bounds>>
        \/ /\ nonceFile.is # "torn" /\ answer = "taken"
           /\ funded' = Append(funded, [to |-> w, value |-> share[w]])
           /\ owed' = owed + share[w] + TransferCost
           /\ \/ /\ nonce' = [nonce EXCEPT ![w] = n + 1]
                 /\ Goto(w, "openNonce")
                 /\ UNCHANGED <<why, bounds>>
              \/ /\ Fault /\ lost' = TRUE    \* the answer of the node is lost
                 /\ Fail(w, "send")
                 /\ UNCHANGED nonce
     /\ UNCHANGED <<folder, seed, key, mined, share>>

OpenNonce(w) == /\ pc[w] = "openNonce"
                /\ nonceFile' = Torn
                /\ Goto(w, "writeNonce")
                /\ UNCHANGED <<users, forkchoice, shareFile, node, share, nonce, why, bounds>>

\* Mutant: the nonce of the transaction that was sent.
WriteNonceUsed(w) ==
  /\ pc[w] = "writeNonce"
  /\ nonceFile' = Whole(nonce[w] - 1)
  /\ Goto(w, "wait")
  /\ UNCHANGED <<users, forkchoice, shareFile, node, share, nonce, why, bounds>>

WriteNonce(w) == /\ pc[w] = "writeNonce"
                 /\ nonceFile' = Whole(nonce[w])
                 /\ Goto(w, "wait")
                 /\ UNCHANGED <<users, forkchoice, shareFile, node, share, nonce, why, bounds>>

Included(w) == \E i \in 1..mined : funded[i].to = w

\* wait_for_transaction gives up at its timeout.
Wait(w) == /\ pc[w] = "wait"
           /\ \/ Included(w) /\ Goto(w, "tests") /\ UNCHANGED <<why, faults>>
              \/ ~Included(w) /\ Fault /\ Fail(w, "timeout")
           /\ UNCHANGED <<folder, node, share, nonce, lost>>

\* The tests spend what the key has; their own clean-up is part of it.
Tests(w) == /\ pc[w] = "tests"
            /\ \E s \in Spending : key' = [key EXCEPT ![w] = IF s > @ THEN 0 ELSE @ - s]
            /\ Goto(w, "refund")
            /\ UNCHANGED <<folder, seed, funded, mined, owed, share, nonce, why, bounds>>

RefundCost == 2 * TransferCost

Refund(w) == /\ pc[w] = "refund"
             /\ IF key[w] - 1 < RefundCost
                THEN UNCHANGED <<seed, key>>
                ELSE /\ seed' = seed + key[w] - RefundCost - 1
                     /\ key' = [key EXCEPT ![w] = 1]
             /\ Goto(w, "leave")
             /\ UNCHANGED <<folder, funded, mined, owed, share, nonce, why, bounds>>

(***************************** The environment *******************************)

Mine == /\ mined < Len(funded)
        /\ LET tx == funded[mined + 1] IN
           /\ seed' = seed - tx.value - TransferCost
           /\ owed' = owed - tx.value - TransferCost
           /\ key' = [key EXCEPT ![tx.to] = @ + tx.value]
        /\ mined' = mined + 1
        /\ UNCHANGED <<folder, funded, worker, bounds>>

\* Between two effects that belong together.
Midway == {"update", "writeShare", "openNonce", "writeNonce"}

Kill(w) == /\ pc[w] \notin Over \union {"out"}
           /\ Fault
           /\ lost' = (lost \/ pc[w] \in Midway)
           /\ Goto(w, "killed")
           /\ UNCHANGED <<folder, node, share, nonce, why>>

\* The same while it writes the count of the users.
KillCounting(w) == /\ pc[w] \in {"out", "leave"} /\ w \in Workers /\ users # TornCount
                   /\ Fault /\ lost' = TRUE
                   /\ users' = TornCount
                   /\ Goto(w, "killed")
                   /\ UNCHANGED <<forkchoice, shareFile, nonceFile, node, share, nonce, why>>

-------------------------------------------------------------------------------

Step(w) == \/ Join(w) \/ Leave(w)
           \/ Connect(w) \/ Update(w)
           \/ SeedSender(w) \/ InitialBalance(w) \/ WriteShare(w)
           \/ Fund(w) \/ OpenNonce(w) \/ WriteNonce(w) \/ Wait(w)
           \/ Tests(w) \/ Refund(w)

Next == Mine \/ \E w \in All : Step(w) \/ Kill(w) \/ KillCounting(w)

\* A worker goes on unless it is killed, and the node builds blocks.
Spec == Init /\ [][Next]_vars /\ WF_vars(Mine) /\ \A w \in All : SF_vars(Step(w))

-------------------------------------------------------------------------------

Places == {"out", "connect", "update", "nonce", "share", "writeShare", "fund", "openNonce",
           "writeNonce", "wait", "tests", "refund", "leave", "done", "failed", "killed"}
Reasons == {"nothing", "forkchoice", "torn", "poor", "negative", "nonce", "funds", "send",
            "timeout"}
File == [is : {"absent", "torn", "whole"}, n : Int]

\* The type of every variable of the session and of the node.
TypeOK == /\ users \in -1..Cardinality(All)
          /\ forkchoice \in {"none", "error", "sent"}
          /\ shareFile \in File /\ nonceFile \in File
          /\ seed \in Int /\ owed \in Int /\ key \in [All -> Nat]
          /\ funded \in Seq([to : All, value : Nat]) /\ mined \in 0..Len(funded)
          /\ pc \in [All -> Places] /\ why \in [All -> Reasons]
          /\ share \in [All -> Int] /\ nonce \in [All -> Int]
          /\ faults \in 0..MaxFaults /\ lost \in BOOLEAN

\* The nonce of the file is the one the next funding transaction needs, whatever
\* the node has mined of those before it: nobody who finds the file whole and
\* the lock free sends a transaction that the node refuses for its nonce.
NonceAgrees == nonceFile.is = "whole" /\ Free({"openNonce", "writeNonce"}) /\ ~lost
                 => nonceFile.n = Len(funded)

\* The count of the folder is the number of the workers that joined and did not
\* leave, killed ones included, so that it is removed by the last of them only.
CountRight == users # TornCount => users = Cardinality(Present)

\* A worker that dies between two sections, or none, stops no other: what the
\* others still meet is the money, which a replacement divides once more.
KillsAreLocal ==
  ~lost /\ (\A v \in All : why[v] \notin {"forkchoice", "timeout"})
    => \A w \in All : why[w] \in {"nothing", "poor", "negative"}
                                \union IF Killed = {} THEN {} ELSE {"funds"}

\* No worker waits for ever on what another one left.
Ends == \A w \in Workers : <>(pc[w] \in Over)

===============================================================================
