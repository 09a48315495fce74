---------------------------- MODULE ChainBuilder -----------------------------
(* Block building by the pytest workers of `execute hive`                     *)
(* (src/pytest_plugins/execute/rpc/chain_builder_eth_rpc.py).                 *)
(*                                                                            *)
(* Every worker process sends transactions to one client and keeps their      *)
(* hashes in one file that a file lock protects.  Whoever finds enough hashes *)
(* in the file, or polls long enough without the file changing, builds a      *)
(* block through the Engine API while it holds the lock, and takes the hashes *)
(* of the block out of the file.                                              *)
(*                                                                            *)
(* Abstracted: a transaction is <<worker, number>>, the list of hashes a set  *)
(* (a worker never sends a transaction twice), a block the set of its         *)
(* transactions, the wait between two polls nothing, the 60 seconds of a wait *)
(* a step that may be taken after any poll.                                   *)
EXTENDS Integers, FiniteSets, Sequences

CONSTANTS Workers,              \* the pytest-xdist workers
          NoWorker,             \* nobody holds the lock
          TxPerWorker,          \* bound: transactions a worker sends
          TxPerBlock,           \* --transactions-per-block
          Interval,             \* block_generation_interval
          EagerClient,          \* the client packs all it accepted before the build began
          Timeouts,             \* waits may time out
          MaxBlocks,            \* bound: blocks of the chain
          MaxErrors,            \* bound: RPC calls that fail
          MaxCrashes            \* bound: workers that are killed

Txs == Workers \X (1..TxPerWorker)

ASSUME NoWorkerAssumption == NoWorker \notin Workers
ASSUME WorkersAssumption == IsFiniteSet(Workers)
ASSUME NumbersAssumption == /\ TxPerWorker \in Nat
                            /\ TxPerBlock \in Nat \ {0}
                            /\ Interval \in Nat \ {0}
                            /\ MaxBlocks \in Nat
                            /\ MaxErrors \in Nat
                            /\ MaxCrashes \in Nat
ASSUME SwitchesAssumption == EagerClient \in BOOLEAN /\ Timeouts \in BOOLEAN

VARIABLES
  \* shared by the workers, on disk
  file,                         \* pending_tx_hashes: the hashes last written
  torn,                         \* the file is truncated and not yet rewritten
  lock,                         \* who holds pending_tx_hashes.lock
  \* the client
  accepted,                     \* transactions eth_sendRawTransaction took
  chain,                        \* the canonical chain, one set of transactions a block
  \* each worker
  pc, op,                       \* where it is, and for which operation
  mem,                          \* PendingTxHashes.pending_tx_hashes between enter and exit
  tx,                           \* send_transaction's argument, by number
  build,                        \* generate_block's locals: parent's height, payload
  batch,                        \* transactions of the current test, sent and not yet waited for
  waiting, todo,                \* wait_for_transactions: tx_hashes, and those left in this round
  last, i,                      \* PendingTransactionHandler; i modulo Interval
  \* history and bounds
  sent,                         \* transactions whose send_transaction returned
  confirmed,                    \* transactions a wait found in a block
  errors, crashes

disk == <<file, torn, lock>>
client == <<accepted, chain>>
handler == <<last, i>>
wait == <<waiting, todo>>
history == <<sent, confirmed>>
bounds == <<errors, crashes>>
vars == <<disk, client, pc, op, mem, tx, build, batch, wait, handler, history, bounds>>

------------------------------------------------------------------------------
None == -1                      \* last_pending_tx_hashes_count before the first handle

InBlocks(bs) == UNION {bs[h] : h \in DOMAIN bs}
Included == InBlocks(chain)
Mempool == accepted \ Included

\* The steps of generate_block, and everything between __enter__ and the end of __exit__.
Building == {"head", "fcu", "getPayload", "newPayload", "setHead", "prune"}
Critical == {"body", "exit", "write"} \union Building

NoBuild == [parent |-> 0, txs |-> {}]

Init == /\ file = {} /\ torn = FALSE /\ lock = NoWorker
        /\ accepted = {} /\ chain = <<>>
        /\ pc = [w \in Workers |-> "idle"]
        /\ op = [w \in Workers |-> "none"]
        /\ mem = [w \in Workers |-> {}]
        /\ tx = [w \in Workers |-> 0]
        /\ build = [w \in Workers |-> NoBuild]
        /\ batch = [w \in Workers |-> {}]
        /\ waiting = [w \in Workers |-> {}] /\ todo = [w \in Workers |-> {}]
        /\ last = [w \in Workers |-> None] /\ i = [w \in Workers |-> 0]
        /\ sent = {} /\ confirmed = {}
        /\ errors = 0 /\ crashes = 0

Goto(w, there) == pc' = [pc EXCEPT ![w] = there]
Op(w, what) == op' = [op EXCEPT ![w] = what]

\* The test that was running on w is over: nobody waits for its transactions any more.
EndTest(w) == /\ Goto(w, "idle")
              /\ Op(w, "none")
              /\ batch' = [batch EXCEPT ![w] = {}]
              /\ waiting' = [waiting EXCEPT ![w] = {}]
              /\ todo' = [todo EXCEPT ![w] = {}]

------------------------------------------------------------------------------
(* send_transaction.  The client has the transaction before the lock is       *)
(* taken; the hash is recorded only under it.                                 *)

Send(w) ==
  /\ pc[w] = "idle"
  /\ tx[w] < TxPerWorker
  /\ tx' = [tx EXCEPT ![w] = @ + 1]
  /\ accepted' = accepted \union {<<w, tx[w] + 1>>}
  /\ Goto(w, "enter")
  /\ Op(w, "send")
  /\ UNCHANGED <<disk, chain, mem, build, batch, wait, handler, history, bounds>>

\* eth_sendRawTransaction raises: the client may nevertheless have the transaction
\* (the connection broke after it was taken, and the retry was refused as known).
SendError(w) ==
  /\ pc[w] = "idle"
  /\ tx[w] < TxPerWorker
  /\ errors < MaxErrors
  /\ errors' = errors + 1
  /\ tx' = [tx EXCEPT ![w] = @ + 1]
  /\ \/ UNCHANGED accepted
     \/ accepted' = accepted \union {<<w, tx[w] + 1>>}
  /\ EndTest(w)
  /\ UNCHANGED <<disk, chain, mem, build, handler, history, crashes>>

\* Mutant: a block only when there are more hashes than enough.
AppendHashAbove(w) ==
  /\ pc[w] = "body"
  /\ op[w] = "send"
  /\ mem' = [mem EXCEPT ![w] = @ \union {<<w, tx[w]>>}]
  /\ Goto(w, IF Cardinality(mem'[w]) > TxPerBlock THEN "head" ELSE "exit")
  /\ UNCHANGED <<disk, client, op, tx, build, batch, wait, handler, history, bounds>>

\* pending_tx_hashes.append, and a block at once when there are enough hashes.
AppendHash(w) ==
  /\ pc[w] = "body"
  /\ op[w] = "send"
  /\ mem' = [mem EXCEPT ![w] = @ \union {<<w, tx[w]>>}]
  /\ Goto(w, IF Cardinality(mem'[w]) >= TxPerBlock THEN "head" ELSE "exit")
  /\ UNCHANGED <<disk, client, op, tx, build, batch, wait, handler, history, bounds>>

------------------------------------------------------------------------------
(* PendingTxHashes.__enter__ and __exit__.                                    *)

Enter(w) ==
  /\ pc[w] = "enter"
  /\ lock = NoWorker
  /\ ~torn
  /\ lock' = w
  /\ mem' = [mem EXCEPT ![w] = file]
  /\ Goto(w, "body")
  /\ UNCHANGED <<file, torn, client, op, tx, build, batch, wait, handler, history, bounds>>

\* The file is empty, which is not a list: the load raises after the lock is taken,
\* `with` does not call __exit__, and the worker keeps the lock.
EnterTorn(w) ==
  /\ pc[w] = "enter"
  /\ lock = NoWorker
  /\ torn
  /\ lock' = w
  /\ Goto(w, "wedged")
  /\ Op(w, "none")
  /\ batch' = [batch EXCEPT ![w] = {}]
  /\ waiting' = [waiting EXCEPT ![w] = {}]
  /\ todo' = [todo EXCEPT ![w] = {}]
  /\ UNCHANGED <<file, torn, client, mem, tx, build, handler, history, bounds>>

\* Every later send of that worker reaches the client and then fails on
\* `assert self.lock is None`.
SendWedged(w) ==
  /\ pc[w] = "wedged"
  /\ tx[w] < TxPerWorker
  /\ tx' = [tx EXCEPT ![w] = @ + 1]
  /\ accepted' = accepted \union {<<w, tx[w] + 1>>}
  /\ UNCHANGED <<disk, chain, pc, op, mem, build, batch, wait, handler, history, bounds>>

\* Its lock goes with its process, when it has no tests left.
ExitWedged(w) ==
  /\ pc[w] = "wedged"
  /\ lock' = NoWorker
  /\ Goto(w, "gone")
  /\ UNCHANGED <<file, torn, client, op, mem, tx, build, batch, wait, handler, history, bounds>>

\* open(..., "w") empties the file.
Truncate(w) ==
  /\ pc[w] = "exit"
  /\ file' = {}
  /\ torn' = TRUE
  /\ Goto(w, "write")
  /\ UNCHANGED <<lock, client, op, mem, tx, build, batch, wait, handler, history, bounds>>

\* The list is written, the lock released, and the operation goes on where it was:
\* the send returns, the wait looks at the clock, an exception ends the test.
Write(w) ==
  /\ pc[w] = "write"
  /\ file' = mem[w]
  /\ torn' = FALSE
  /\ lock' = NoWorker
  /\ mem' = [mem EXCEPT ![w] = {}]
  /\ build' = [build EXCEPT ![w] = NoBuild]
  /\ \/ /\ op[w] = "send"
        /\ sent' = sent \union {<<w, tx[w]>>}
        /\ batch' = [batch EXCEPT ![w] = @ \union {<<w, tx[w]>>}]
        /\ Goto(w, "idle")
        /\ Op(w, "none")
        /\ UNCHANGED wait
     \/ /\ op[w] = "handle"
        /\ Goto(w, "clock")
        /\ UNCHANGED <<op, batch, wait, sent>>
     \/ /\ op[w] = "raise"
        /\ EndTest(w)
        /\ UNCHANGED sent
  /\ UNCHANGED <<client, tx, handler, confirmed, bounds>>

------------------------------------------------------------------------------
(* wait_for_transactions.                                                     *)

\* A handler is made for each wait.
Wait(w) ==
  /\ pc[w] = "idle"
  /\ batch[w] # {}
  /\ waiting' = [waiting EXCEPT ![w] = batch[w]]
  /\ todo' = [todo EXCEPT ![w] = batch[w]]
  /\ last' = [last EXCEPT ![w] = None]
  /\ i' = [i EXCEPT ![w] = 0]
  /\ Goto(w, "poll")
  /\ Op(w, "handle")
  /\ UNCHANGED <<disk, client, mem, tx, build, batch, history, bounds>>

\* Mutant: a transaction the client knows counts as included.
PollKnown(w) ==
  /\ pc[w] = "poll"
  /\ \E t \in todo[w] :
       /\ todo' = [todo EXCEPT ![w] = @ \ {t}]
       /\ waiting' = [waiting EXCEPT ![w] = @ \ {t}]
       /\ confirmed' = confirmed \union {t}
  /\ UNCHANGED <<disk, client, pc, op, mem, tx, build, batch, handler, sent, bounds>>

\* eth_getTransactionByHash of one transaction; it is dropped when it has a block number.
Poll(w) ==
  /\ pc[w] = "poll"
  /\ \E t \in todo[w] :
       /\ todo' = [todo EXCEPT ![w] = @ \ {t}]
       /\ IF t \in Included
          THEN /\ waiting' = [waiting EXCEPT ![w] = @ \ {t}]
               /\ confirmed' = confirmed \union {t}
          ELSE UNCHANGED <<waiting, confirmed>>
  /\ UNCHANGED <<disk, client, pc, op, mem, tx, build, batch, handler, sent, bounds>>

\* The poll raises, or finds no such transaction.
PollError(w) ==
  /\ pc[w] = "poll"
  /\ todo[w] # {}
  /\ errors < MaxErrors
  /\ errors' = errors + 1
  /\ EndTest(w)
  /\ UNCHANGED <<disk, client, mem, tx, build, handler, history, crashes>>

Return(w) ==
  /\ pc[w] = "poll"
  /\ waiting[w] = {}
  /\ EndTest(w)
  /\ UNCHANGED <<disk, client, mem, tx, build, handler, history, bounds>>

CallHandle(w) ==
  /\ pc[w] = "poll"
  /\ todo[w] = {}
  /\ waiting[w] # {}
  /\ Goto(w, "enter")
  /\ UNCHANGED <<disk, client, op, mem, tx, build, batch, wait, handler, history, bounds>>

NextRound(w) ==
  /\ pc[w] = "clock"
  /\ todo' = [todo EXCEPT ![w] = waiting[w]]
  /\ Goto(w, "poll")
  /\ UNCHANGED <<disk, client, op, mem, tx, build, batch, waiting, handler, history, bounds>>

Timeout(w) ==
  /\ Timeouts
  /\ pc[w] = "clock"
  /\ EndTest(w)
  /\ UNCHANGED <<disk, client, mem, tx, build, handler, history, bounds>>

------------------------------------------------------------------------------
(* PendingTransactionHandler.handle.                                          *)

Full(w) == Cardinality(mem[w]) >= TxPerBlock    \* alone, it is the mutant of Due

Due(w) == \/ Full(w)
          \/ Cardinality(mem[w]) = last[w] /\ i[w] = 0

\* The two assignments at the end of handle; an exception skips them.
Count(w, hashes) == /\ last' = [last EXCEPT ![w] = Cardinality(hashes)]
                    /\ i' = [i EXCEPT ![w] = (@ + 1) % Interval]

HandleBuild(w) ==
  /\ pc[w] = "body"
  /\ op[w] = "handle"
  /\ Due(w)
  /\ Goto(w, "head")
  /\ UNCHANGED <<disk, client, op, mem, tx, build, batch, wait, handler, history, bounds>>

HandleSkip(w) ==
  /\ pc[w] = "body"
  /\ op[w] = "handle"
  /\ ~Due(w)
  /\ Count(w, mem[w])
  /\ Goto(w, "exit")
  /\ UNCHANGED <<disk, client, op, mem, tx, build, batch, wait, history, bounds>>

------------------------------------------------------------------------------
(* generate_block, one action a call to the client.                           *)

\* eth_getBlockByNumber("latest")
ReadHead(w) ==
  /\ pc[w] = "head"
  /\ build' = [build EXCEPT ![w] = [parent |-> Len(chain), txs |-> {}]]
  /\ Goto(w, "fcu")
  /\ UNCHANGED <<disk, client, op, mem, tx, batch, wait, handler, history, bounds>>

\* engine_forkchoiceUpdated with attributes: the client starts from its mempool.
StartPayload(w) ==
  /\ pc[w] = "fcu"
  /\ build' = [build EXCEPT ![w].txs = Mempool]
  /\ Goto(w, "getPayload")
  /\ UNCHANGED <<disk, client, op, mem, tx, batch, wait, handler, history, bounds>>

\* engine_getPayload: what the client packed meanwhile, later transactions included.
GetPayload(w) ==
  /\ pc[w] = "getPayload"
  /\ \E txs \in SUBSET Mempool :
       /\ EagerClient => build[w].txs \subseteq txs
       /\ build' = [build EXCEPT ![w].txs = txs]
  /\ Goto(w, "newPayload")
  /\ UNCHANGED <<disk, client, op, mem, tx, batch, wait, handler, history, bounds>>

\* engine_newPayload: the client knows the block; the head is still the parent.
NewPayload(w) ==
  /\ pc[w] = "newPayload"
  /\ Goto(w, "setHead")
  /\ UNCHANGED <<disk, client, op, mem, tx, build, batch, wait, handler, history, bounds>>

\* engine_forkchoiceUpdated to the new block: whatever lies above its parent is gone.
Adopt(w) == /\ build[w].parent < MaxBlocks
            /\ chain' = Append(SubSeq(chain, 1, build[w].parent), build[w].txs)

SetHead(w) ==
  /\ pc[w] = "setHead"
  /\ Adopt(w)
  /\ Goto(w, "prune")
  /\ UNCHANGED <<disk, accepted, op, mem, tx, build, batch, wait, handler, history, bounds>>

\* Mutant: the whole list is cleared.
PruneClear(w) ==
  /\ pc[w] = "prune"
  /\ mem' = [mem EXCEPT ![w] = {}]
  /\ IF op[w] = "handle" THEN Count(w, mem'[w]) ELSE UNCHANGED handler
  /\ Goto(w, "exit")
  /\ UNCHANGED <<disk, client, op, tx, build, batch, wait, history, bounds>>

\* The hashes of the block leave the list, and handle counts what is left.
Prune(w) ==
  /\ pc[w] = "prune"
  /\ mem' = [mem EXCEPT ![w] = @ \ build[w].txs]
  /\ IF op[w] = "handle" THEN Count(w, mem'[w]) ELSE UNCHANGED handler
  /\ Goto(w, "exit")
  /\ UNCHANGED <<disk, client, op, tx, build, batch, wait, history, bounds>>

\* A call raises, or its answer fails an assertion: __exit__ flushes the list as it is.
\* The call that sets the head may have been obeyed by the client.
BuildError(w) ==
  /\ pc[w] \in Building \ {"prune"}
  /\ errors < MaxErrors
  /\ errors' = errors + 1
  /\ \/ UNCHANGED chain
     \/ pc[w] = "setHead" /\ Adopt(w)
  /\ Goto(w, "exit")
  /\ Op(w, "raise")
  /\ UNCHANGED <<disk, accepted, mem, tx, build, batch, wait, handler, history, crashes>>

------------------------------------------------------------------------------
\* A worker is killed: the operating system drops its lock, the file stays as it is.
Crash(w) ==
  /\ pc[w] # "gone"
  /\ crashes < MaxCrashes
  /\ crashes' = crashes + 1
  /\ lock' = IF lock = w THEN NoWorker ELSE lock
  /\ mem' = [mem EXCEPT ![w] = {}]
  /\ build' = [build EXCEPT ![w] = NoBuild]
  /\ Goto(w, "gone")
  /\ Op(w, "none")
  /\ batch' = [batch EXCEPT ![w] = {}]
  /\ waiting' = [waiting EXCEPT ![w] = {}]
  /\ todo' = [todo EXCEPT ![w] = {}]
  /\ UNCHANGED <<file, torn, client, tx, handler, history, errors>>

Locked(w) == \/ Enter(w) \/ EnterTorn(w) \/ AppendHash(w) \/ HandleBuild(w) \/ HandleSkip(w)
             \/ Truncate(w) \/ Write(w)
Block(w) == ReadHead(w) \/ StartPayload(w) \/ GetPayload(w) \/ NewPayload(w) \/ SetHead(w)
            \/ Prune(w)
Waiter(w) == Poll(w) \/ Return(w) \/ CallHandle(w) \/ NextRound(w)
Choice(w) == Send(w) \/ Wait(w) \/ SendWedged(w) \/ ExitWedged(w)
Fault(w) == SendError(w) \/ PollError(w) \/ BuildError(w) \/ Timeout(w) \/ Crash(w)

\* A call that was made runs on; a test may always send no more.
Step(w) == Locked(w) \/ Block(w) \/ Waiter(w)

Next == \E w \in Workers : Step(w) \/ Choice(w) \/ Fault(w)

Spec == Init /\ [][Next]_vars

FairSpec == Spec /\ \A w \in Workers : WF_vars(Step(w))

------------------------------------------------------------------------------
(* Properties.                                                                *)

PCs == {"idle", "enter", "poll", "clock", "wedged", "gone"} \union Critical

SharedType ==
  /\ file \in SUBSET Txs /\ torn \in BOOLEAN /\ lock \in Workers \union {NoWorker}
  /\ accepted \in SUBSET Txs /\ chain \in Seq(SUBSET Txs)
  /\ sent \in SUBSET Txs /\ confirmed \in SUBSET Txs
  /\ errors \in 0..MaxErrors /\ crashes \in 0..MaxCrashes
ControlType ==
  /\ pc \in [Workers -> PCs]
  /\ op \in [Workers -> {"none", "send", "handle", "raise"}]
  /\ tx \in [Workers -> 0..TxPerWorker]
SetsType ==
  /\ mem \in [Workers -> SUBSET Txs]
  /\ build \in [Workers -> [parent : Nat, txs : SUBSET Txs]]
  /\ batch \in [Workers -> SUBSET Txs]
  /\ waiting \in [Workers -> SUBSET Txs] /\ todo \in [Workers -> SUBSET Txs]
HandlerType == last \in [Workers -> Nat \union {None}] /\ i \in [Workers -> 0..(Interval - 1)]

\* Every variable has its type; the handler's i stays in its cycle.
TypeOK == SharedType /\ ControlType /\ SetsType /\ HandlerType

\* Mutual exclusion of everything done between __enter__ and __exit__: the lock is
\* held by exactly the worker that is there, or by one whose load of the file failed.
LockHeld == \A w \in Workers : lock = w <=> pc[w] \in Critical \union {"wedged"}

\* A hash whose send_transaction returned stays in the file until its transaction is
\* in a block, whatever fails and whoever is killed; only a torn file has lost it.
PendingKept == torn \/ sent \ Included \subseteq file

\* What makes those three inductive.  A send has a transaction; its hash, once past the
\* body, is in the list or its transaction in the chain; the list of whoever holds the
\* lock has what the file must have.
Sending == \A w \in Workers : op[w] = "send" => tx[w] > 0
HashListed == \A w \in Workers :
  op[w] = "send" /\ pc[w] \in {"exit", "write"} \union Building
    => <<w, tx[w]>> \in mem[w] \union Included
MemKept == \A w \in Workers : pc[w] \in Critical => sent \ Included \subseteq mem[w]

\* A build goes on top of the head as it still is, with transactions in no block yet,
\* and what it prunes is in the chain.
OnHead == \A w \in Workers :
  pc[w] \in {"fcu", "getPayload", "newPayload", "setHead"} => build[w].parent = Len(chain)
PayloadFresh == \A w \in Workers :
  pc[w] \in {"newPayload", "setHead"} => build[w].txs \subseteq Mempool
PayloadIncluded == \A w \in Workers : pc[w] = "prune" => build[w].txs \subseteq Included

IInv == /\ TypeOK /\ LockHeld /\ PendingKept
        /\ Sending /\ HashListed /\ MemKept
        /\ OnHead /\ PayloadFresh /\ PayloadIncluded

\* While nobody holds the lock and no call has failed, fewer than TxPerBlock recorded
\* transactions are outside a block: the send that reaches the number builds it.  The
\* client is one that packs all it has.
BacklogBounded ==
  EagerClient /\ errors = 0 /\ lock = NoWorker => Cardinality(file \ Included) < TxPerBlock

\* The blocks promised to the tests: see TxInclusion.
Promise == INSTANCE TxInclusion WITH submitted <- accepted, blocks <- chain

\* No transaction twice in the chain, no block taken back though several processes
\* build them, and no wait that returns a transaction outside the chain.
KeepsPromise == Promise!TxSpec

\* A wait ends, with its transactions in blocks or with an exception: nobody waits for
\* a block that everybody else waits for too, the deadlock handle is there to avoid.
WaitEnds == \A w \in Workers : pc[w] = "poll" ~> pc[w] = "idle"

\* "automatically coordinates block generation based on the number of pending
\* transactions": a send starts a block only when that many of the hashes it counts
\* are pending, that is, in no block yet.
BlockOnPendingCount ==
  [][\A w \in Workers :
       op[w] = "send" /\ pc[w] = "body" /\ pc'[w] = "head"
         => Cardinality(mem'[w] \ Included) >= TxPerBlock]_vars
==============================================================================
