------------------------- MODULE ChainBuilder_proofs -------------------------
(* Theorems about ChainBuilder, for any number of workers, transactions,      *)
(* failing calls and killed workers.                                          *)
EXTENDS ChainBuilder, SequenceTheorems, FiniteSetTheorems, TLAPS

------------------------------------------------------------------------------
(* The data.                                                                  *)

\* There are finitely many transactions, so every set of them can be counted.
LEMMA TxsFinite == \A s \in SUBSET Txs : IsFiniteSet(s) /\ Cardinality(s) \in Nat
<1>1. IsFiniteSet(1..TxPerWorker)
  BY FS_Interval, NumbersAssumption
<1>2. IsFiniteSet(Txs)
  BY <1>1, FS_Product, WorkersAssumption DEF Txs
<1> QED
  BY <1>2, FS_Subset, FS_CardinalityType

\* A block put on top of the whole chain takes nothing back and adds its transactions.
LEMMA AppendBlock ==
  ASSUME NEW c \in Seq(SUBSET Txs), NEW b \in SUBSET Txs
  PROVE  /\ SubSeq(c, 1, Len(c)) = c
         /\ Append(c, b) \in Seq(SUBSET Txs)
         /\ InBlocks(Append(c, b)) = InBlocks(c) \union b
<1>1. SubSeq(c, 1, Len(c)) = c
  OBVIOUS
<1>2. /\ Append(c, b) \in Seq(SUBSET Txs)
      /\ DOMAIN Append(c, b) = 1..(Len(c) + 1)
      /\ \A h \in 1..Len(c) : Append(c, b)[h] = c[h]
      /\ Append(c, b)[Len(c) + 1] = b
      /\ DOMAIN c = 1..Len(c)
      /\ Len(c) \in Nat
  OBVIOUS
<1>3. DOMAIN Append(c, b) = DOMAIN c \union {Len(c) + 1}
  BY <1>2
<1>4. InBlocks(Append(c, b)) = InBlocks(c) \union b
  BY <1>2, <1>3 DEF InBlocks
<1> QED
  BY <1>1, <1>2, <1>4


\* A block is put on the head as it is, and brings only transactions not in the chain.
LEMMA AdoptStep ==
  ASSUME IInv, NEW w \in Workers, pc[w] = "setHead", Adopt(w)
  PROVE  /\ chain' = Append(chain, build[w].txs)
         /\ chain' \in Seq(SUBSET Txs)
         /\ Len(chain') = Len(chain) + 1
         /\ Included' = Included \union build[w].txs
         /\ build[w].txs \in SUBSET (accepted \ Included)
<1>1. /\ chain \in Seq(SUBSET Txs)
      /\ build[w].txs \in SUBSET Txs
      /\ build[w].parent = Len(chain)
      /\ build[w].txs \in SUBSET (accepted \ Included)
  BY DEF IInv, TypeOK, SharedType, SetsType, OnHead, PayloadFresh, Mempool
<1>2. chain' = Append(chain, build[w].txs)
  BY <1>1, AppendBlock DEF Adopt
<1>3. chain' \in Seq(SUBSET Txs) /\ Len(chain') = Len(chain) + 1
  BY <1>1, <1>2
<1>4. Included' = Included \union build[w].txs
  BY <1>1, <1>2, AppendBlock DEF Included
<1> QED
  BY <1>1, <1>2, <1>3, <1>4

\* Only who finds the lock free enters, and who leaves the critical part frees it.
LEMMA LockStep == IInv /\ Next => LockHeld'
<1> SUFFICES ASSUME IInv, Next
             PROVE  LockHeld'
  OBVIOUS
<1>w. PICK w \in Workers : Step(w) \/ Choice(w) \/ Fault(w)
  BY DEF Next
<1> USE NoWorkerAssumption DEF IInv, Goto, Op, EndTest, Critical, Building, LockHeld,
        TypeOK, ControlType, disk
<1>1. CASE Locked(w)
  BY <1>1 DEF Locked, Enter, EnterTorn, AppendHash, HandleBuild, HandleSkip, Truncate,
      Write
<1>2. CASE Block(w)
  BY <1>2 DEF Block, ReadHead, StartPayload, GetPayload, NewPayload, SetHead, Prune
<1>3. CASE Waiter(w)
  BY <1>3 DEF Waiter, Poll, Return, CallHandle, NextRound
<1>4. CASE Choice(w)
  BY <1>4 DEF Choice, Send, Wait, SendWedged, ExitWedged
<1>5. CASE Fault(w)
  BY <1>5 DEF Fault, SendError, PollError, BuildError, Timeout, Crash
<1> QED
  BY <1>w, <1>1, <1>2, <1>3, <1>4, <1>5 DEF Step

\* A send counts its transaction before anything else.
LEMMA SendingStep == IInv /\ Next => Sending'
<1> SUFFICES ASSUME IInv, Next
             PROVE  Sending'
  OBVIOUS
<1>w. PICK w \in Workers : Step(w) \/ Choice(w) \/ Fault(w)
  BY DEF Next
<1> USE NumbersAssumption DEF IInv, Goto, Op, EndTest, Critical, Building, Sending,
        TypeOK, ControlType
<1>1. CASE Locked(w)
  BY <1>1 DEF Locked, Enter, EnterTorn, AppendHash, HandleBuild, HandleSkip, Truncate,
      Write
<1>2. CASE Block(w)
  BY <1>2 DEF Block, ReadHead, StartPayload, GetPayload, NewPayload, SetHead, Prune
<1>3. CASE Waiter(w)
  BY <1>3 DEF Waiter, Poll, Return, CallHandle, NextRound
<1>4. CASE Choice(w)
  BY <1>4 DEF Choice, Send, Wait, SendWedged, ExitWedged
<1>5. CASE Fault(w)
  BY <1>5 DEF Fault, SendError, PollError, BuildError, Timeout, Crash
<1> QED
  BY <1>w, <1>1, <1>2, <1>3, <1>4, <1>5 DEF Step

\* The hash of a send leaves the list only with a block that has its transaction.
LEMMA HashListedStep == IInv /\ Next => HashListed'
<1> SUFFICES ASSUME IInv, Next
             PROVE  HashListed'
  OBVIOUS
<1>w. PICK w \in Workers : Step(w) \/ Choice(w) \/ Fault(w)
  BY DEF Next
<1> USE DEF IInv, Goto, Op, EndTest, Critical, Building, HashListed, TypeOK,
        ControlType, SetsType, LockHeld, PayloadIncluded, Included, client
<1>1. CASE Locked(w)
  BY <1>1 DEF Locked, Enter, EnterTorn, AppendHash, HandleBuild, HandleSkip, Truncate,
      Write
<1>2. CASE Block(w)
  <2>1. CASE ReadHead(w)
    BY <2>1 DEF ReadHead
  <2>2. CASE StartPayload(w)
    BY <2>2 DEF StartPayload
  <2>3. CASE GetPayload(w)
    BY <2>3 DEF GetPayload
  <2>4. CASE SetHead(w)
    BY <2>4, AdoptStep DEF SetHead, Included
  <2>5. CASE Prune(w)
    BY <2>5 DEF Prune
  <2> QED
    BY <1>2, <2>1, <2>2, <2>3, <2>4, <2>5 DEF Block, NewPayload
<1>3. CASE Waiter(w)
  BY <1>3 DEF Waiter, Poll, Return, CallHandle, NextRound
<1>4. CASE Choice(w)
  BY <1>4 DEF Choice, Send, Wait, SendWedged, ExitWedged
<1>5. CASE Fault(w)
  <2>1. CASE BuildError(w)
    BY <2>1, AdoptStep DEF BuildError, Included
  <2> QED
    BY <1>5, <2>1 DEF Fault, SendError, PollError, Timeout, Crash
<1> QED
  BY <1>w, <1>1, <1>2, <1>3, <1>4, <1>5 DEF Step

\* The list is loaded from the file and loses only hashes whose transactions are in the chain.
LEMMA MemKeptStep == IInv /\ Next => MemKept'
<1> SUFFICES ASSUME IInv, Next
             PROVE  MemKept'
  OBVIOUS
<1>w. PICK w \in Workers : Step(w) \/ Choice(w) \/ Fault(w)
  BY DEF Next
<1> USE NoWorkerAssumption DEF IInv, Goto, Op, EndTest, Critical, Building, MemKept,
        TypeOK, ControlType, SetsType, LockHeld, PayloadIncluded, PendingKept, Included,
        client, history
<1>1. CASE Locked(w)
  BY <1>1 DEF Locked, Enter, EnterTorn, AppendHash, HandleBuild, HandleSkip, Truncate,
      Write
<1>2. CASE Block(w)
  <2>1. CASE ReadHead(w)
    BY <2>1 DEF ReadHead
  <2>2. CASE StartPayload(w)
    BY <2>2 DEF StartPayload
  <2>3. CASE GetPayload(w)
    BY <2>3 DEF GetPayload
  <2>4. CASE SetHead(w)
    BY <2>4, AdoptStep DEF SetHead, Included
  <2>5. CASE Prune(w)
    BY <2>5 DEF Prune
  <2> QED
    BY <1>2, <2>1, <2>2, <2>3, <2>4, <2>5 DEF Block, NewPayload
<1>3. CASE Waiter(w)
  BY <1>3 DEF Waiter, Poll, Return, CallHandle, NextRound
<1>4. CASE Choice(w)
  BY <1>4 DEF Choice, Send, Wait, SendWedged, ExitWedged
<1>5. CASE Fault(w)
  <2>1. CASE BuildError(w)
    BY <2>1, AdoptStep DEF BuildError, Included
  <2> QED
    BY <1>5, <2>1 DEF Fault, SendError, PollError, Timeout, Crash
<1> QED
  BY <1>w, <1>1, <1>2, <1>3, <1>4, <1>5 DEF Step

\* The file is written from such a list, with the hash of the send that returns.
LEMMA PendingKeptStep == IInv /\ Next => PendingKept'
<1> SUFFICES ASSUME IInv, Next
             PROVE  PendingKept'
  OBVIOUS
<1>w. PICK w \in Workers : Step(w) \/ Choice(w) \/ Fault(w)
  BY DEF Next
<1> USE NoWorkerAssumption DEF IInv, Goto, Op, EndTest, Critical, Building, MemKept,
        HashListed, TypeOK, ControlType, LockHeld, PendingKept, Included, client,
        history, disk
<1>1. CASE Locked(w)
  BY <1>1 DEF Locked, Enter, EnterTorn, AppendHash, HandleBuild, HandleSkip, Truncate,
      Write
<1>2. CASE Block(w)
  <2>1. CASE ReadHead(w)
    BY <2>1 DEF ReadHead
  <2>2. CASE StartPayload(w)
    BY <2>2 DEF StartPayload
  <2>3. CASE GetPayload(w)
    BY <2>3 DEF GetPayload
  <2>4. CASE SetHead(w)
    BY <2>4, AdoptStep DEF SetHead, Included
  <2>5. CASE Prune(w)
    BY <2>5 DEF Prune
  <2> QED
    BY <1>2, <2>1, <2>2, <2>3, <2>4, <2>5 DEF Block, NewPayload
<1>3. CASE Waiter(w)
  BY <1>3 DEF Waiter, Poll, Return, CallHandle, NextRound
<1>4. CASE Choice(w)
  BY <1>4 DEF Choice, Send, Wait, SendWedged, ExitWedged
<1>5. CASE Fault(w)
  <2>1. CASE BuildError(w)
    BY <2>1, AdoptStep DEF BuildError, Included
  <2> QED
    BY <1>5, <2>1 DEF Fault, SendError, PollError, Timeout, Crash
<1> QED
  BY <1>w, <1>1, <1>2, <1>3, <1>4, <1>5 DEF Step

\* Only the holder of the lock moves the head.
LEMMA OnHeadStep == IInv /\ Next => OnHead'
<1> SUFFICES ASSUME IInv, Next
             PROVE  OnHead'
  OBVIOUS
<1>w. PICK w \in Workers : Step(w) \/ Choice(w) \/ Fault(w)
  BY DEF Next
<1> USE NoWorkerAssumption DEF IInv, Goto, Op, EndTest, Critical, Building, OnHead,
        TypeOK, ControlType, SetsType, LockHeld, client
<1>1. CASE Locked(w)
  BY <1>1 DEF Locked, Enter, EnterTorn, AppendHash, HandleBuild, HandleSkip, Truncate,
      Write
<1>2. CASE Block(w)
  <2>1. CASE ReadHead(w)
    BY <2>1 DEF ReadHead
  <2>2. CASE StartPayload(w)
    BY <2>2 DEF StartPayload
  <2>3. CASE GetPayload(w)
    BY <2>3 DEF GetPayload
  <2>4. CASE SetHead(w)
    BY <2>4, AdoptStep DEF SetHead, Included
  <2>5. CASE Prune(w)
    BY <2>5 DEF Prune
  <2> QED
    BY <1>2, <2>1, <2>2, <2>3, <2>4, <2>5 DEF Block, NewPayload
<1>3. CASE Waiter(w)
  BY <1>3 DEF Waiter, Poll, Return, CallHandle, NextRound
<1>4. CASE Choice(w)
  BY <1>4 DEF Choice, Send, Wait, SendWedged, ExitWedged
<1>5. CASE Fault(w)
  <2>1. CASE BuildError(w)
    BY <2>1, AdoptStep DEF BuildError, Included
  <2> QED
    BY <1>5, <2>1 DEF Fault, SendError, PollError, Timeout, Crash
<1> QED
  BY <1>w, <1>1, <1>2, <1>3, <1>4, <1>5 DEF Step

\* What the client packs is in no block, and no block comes between.
LEMMA PayloadFreshStep == IInv /\ Next => PayloadFresh'
<1> SUFFICES ASSUME IInv, Next
             PROVE  PayloadFresh'
  OBVIOUS
<1>w. PICK w \in Workers : Step(w) \/ Choice(w) \/ Fault(w)
  BY DEF Next
<1> USE NoWorkerAssumption DEF IInv, Goto, Op, EndTest, Critical, Building,
        PayloadFresh, TypeOK, ControlType, SetsType, LockHeld, Mempool, Included, client
<1>1. CASE Locked(w)
  BY <1>1 DEF Locked, Enter, EnterTorn, AppendHash, HandleBuild, HandleSkip, Truncate,
      Write
<1>2. CASE Block(w)
  <2>1. CASE ReadHead(w)
    BY <2>1 DEF ReadHead
  <2>2. CASE StartPayload(w)
    BY <2>2 DEF StartPayload
  <2>3. CASE GetPayload(w)
    BY <2>3 DEF GetPayload
  <2>4. CASE SetHead(w)
    BY <2>4, AdoptStep DEF SetHead, Included
  <2>5. CASE Prune(w)
    BY <2>5 DEF Prune
  <2> QED
    BY <1>2, <2>1, <2>2, <2>3, <2>4, <2>5 DEF Block, NewPayload
<1>3. CASE Waiter(w)
  BY <1>3 DEF Waiter, Poll, Return, CallHandle, NextRound
<1>4. CASE Choice(w)
  BY <1>4 DEF Choice, Send, Wait, SendWedged, ExitWedged
<1>5. CASE Fault(w)
  <2>1. CASE BuildError(w)
    BY <2>1, AdoptStep DEF BuildError, Included
  <2> QED
    BY <1>5, <2>1 DEF Fault, SendError, PollError, Timeout, Crash
<1> QED
  BY <1>w, <1>1, <1>2, <1>3, <1>4, <1>5 DEF Step

\* A block that is pruned was adopted, and the chain only grows.
LEMMA PayloadIncludedStep == IInv /\ Next => PayloadIncluded'
<1> SUFFICES ASSUME IInv, Next
             PROVE  PayloadIncluded'
  OBVIOUS
<1>w. PICK w \in Workers : Step(w) \/ Choice(w) \/ Fault(w)
  BY DEF Next
<1> USE NoWorkerAssumption DEF IInv, Goto, Op, EndTest, Critical, Building,
        PayloadIncluded, TypeOK, ControlType, SetsType, LockHeld, Included, client
<1>1. CASE Locked(w)
  BY <1>1 DEF Locked, Enter, EnterTorn, AppendHash, HandleBuild, HandleSkip, Truncate,
      Write
<1>2. CASE Block(w)
  <2>1. CASE SetHead(w)
    BY <2>1, AdoptStep DEF SetHead, Included
  <2> QED
    BY <1>2, <2>1 DEF Block, ReadHead, StartPayload, GetPayload, NewPayload, Prune
<1>3. CASE Waiter(w)
  BY <1>3 DEF Waiter, Poll, Return, CallHandle, NextRound
<1>4. CASE Choice(w)
  BY <1>4 DEF Choice, Send, Wait, SendWedged, ExitWedged
<1>5. CASE Fault(w)
  <2>1. CASE BuildError(w)
    BY <2>1, AdoptStep DEF BuildError, Included
  <2> QED
    BY <1>5, <2>1 DEF Fault, SendError, PollError, Timeout, Crash
<1> QED
  BY <1>w, <1>1, <1>2, <1>3, <1>4, <1>5 DEF Step

\* A send's transaction is one of them.
LEMMA TxKnown ==
  ASSUME TypeOK, NEW w \in Workers
  PROVE  /\ tx[w] < TxPerWorker => <<w, tx[w] + 1>> \in Txs
         /\ tx[w] > 0 => <<w, tx[w]>> \in Txs
  BY NumbersAssumption DEF TypeOK, ControlType, Txs
LEMMA PollSets ==
  ASSUME SetsType, NEW w \in Workers, Poll(w)
  PROVE  SetsType'
<1>1. PICK t \in todo[w] :
        /\ todo' = [todo EXCEPT ![w] = @ \ {t}]
        /\ \/ waiting' = [waiting EXCEPT ![w] = @ \ {t}]
           \/ waiting' = waiting
  BY DEF Poll
<1>2. todo' \in [Workers -> SUBSET Txs]
  BY <1>1 DEF SetsType
<1>3. waiting' \in [Workers -> SUBSET Txs]
  BY <1>1 DEF SetsType
<1> QED
  BY <1>2, <1>3 DEF Poll, SetsType

LEMMA WriteSets ==
  ASSUME TypeOK, Sending, NEW w \in Workers, Write(w)
  PROVE  SetsType'
<1> USE DEF TypeOK
<1>1. mem' \in [Workers -> SUBSET Txs]
  BY DEF Write, SetsType
<1>2. build' \in [Workers -> [parent : Nat, txs : SUBSET Txs]]
  BY DEF Write, SetsType, NoBuild
<1>3. CASE op[w] = "send"
  <2>1. batch' = [batch EXCEPT ![w] = @ \union {<<w, tx[w]>>}] /\ UNCHANGED wait
    BY <1>3 DEF Write
  <2>2. <<w, tx[w]>> \in Txs
    BY <1>3, TxKnown DEF Sending
  <2> QED
    BY <1>1, <1>2, <2>1, <2>2 DEF SetsType, wait
<1>4. CASE op[w] # "send"
  BY <1>1, <1>2, <1>4 DEF Write, EndTest, wait, SetsType
<1> QED
  BY <1>3, <1>4


LEMMA SendErrorShared ==
  ASSUME TypeOK, NEW w \in Workers, SendError(w)
  PROVE  SharedType'
<1>1. accepted' \in SUBSET Txs
  <2>1. <<w, tx[w] + 1>> \in Txs
    BY TxKnown DEF SendError
  <2>2. accepted' = accepted \/ accepted' = accepted \union {<<w, tx[w] + 1>>}
    BY DEF SendError
  <2> QED
    BY <2>1, <2>2 DEF TypeOK, SharedType
<1>2. errors' \in 0..MaxErrors
  BY NumbersAssumption DEF SendError, TypeOK, SharedType
<1> QED
  BY <1>1, <1>2 DEF SendError, TypeOK, SharedType, disk, history


\* The workers stay in their program.
LEMMA ControlStep == IInv /\ Next => ControlType'
<1> SUFFICES ASSUME IInv, Next
             PROVE  ControlType'
  OBVIOUS
<1>w. PICK w \in Workers : Step(w) \/ Choice(w) \/ Fault(w)
  BY DEF Next
<1> USE NumbersAssumption DEF IInv, Goto, Op, EndTest, Critical, Building, TypeOK,
        ControlType, PCs
<1>1. CASE Locked(w)
  BY <1>1 DEF Locked, Enter, EnterTorn, AppendHash, HandleBuild, HandleSkip, Truncate,
      Write
<1>2. CASE Block(w)
  BY <1>2 DEF Block, ReadHead, StartPayload, GetPayload, NewPayload, SetHead, Prune
<1>3. CASE Waiter(w)
  BY <1>3 DEF Waiter, Poll, Return, CallHandle, NextRound
<1>4. CASE Choice(w)
  BY <1>4 DEF Choice, Send, Wait, SendWedged, ExitWedged
<1>5. CASE Fault(w)
  BY <1>5 DEF Fault, SendError, PollError, BuildError, Timeout, Crash
<1> QED
  BY <1>w, <1>1, <1>2, <1>3, <1>4, <1>5 DEF Step

\* The disk, the client and the history keep their types.
LEMMA SharedStep == IInv /\ Next => SharedType'
<1> SUFFICES ASSUME IInv, Next
             PROVE  SharedType'
  OBVIOUS
<1>w. PICK w \in Workers : Step(w) \/ Choice(w) \/ Fault(w)
  BY DEF Next
<1> USE NumbersAssumption, TxKnown DEF IInv, TypeOK, SharedType, SetsType, ControlType,
        Sending, disk, client, history, bounds
<1>1. CASE Locked(w)
  <2>1. CASE Truncate(w)
    BY <2>1 DEF Truncate
  <2> QED
    BY <1>1, <2>1 DEF Locked, Enter, EnterTorn, AppendHash, HandleBuild, HandleSkip, Write
<1>2. CASE Block(w)
  <2>1. CASE SetHead(w)
    BY <2>1, AdoptStep DEF SetHead, Included
  <2> QED
    BY <1>2, <2>1 DEF Block, ReadHead, StartPayload, GetPayload, NewPayload, Prune
<1>3. CASE Waiter(w)
  BY <1>3 DEF Waiter, Poll, Return, CallHandle, NextRound
<1>4. CASE Choice(w)
  BY <1>4 DEF Choice, Send, Wait, SendWedged, ExitWedged
<1>5. CASE Fault(w)
  <2>1. CASE SendError(w)
    BY <2>1, SendErrorShared
  <2>2. CASE BuildError(w)
    BY <2>2, AdoptStep DEF BuildError, Included
  <2> QED
    BY <1>5, <2>1, <2>2 DEF Fault, PollError, Timeout, Crash
<1> QED
  BY <1>w, <1>1, <1>2, <1>3, <1>4, <1>5 DEF Step

\* The workers' sets hold transactions.
LEMMA SetsStep == IInv /\ Next => SetsType'
<1> SUFFICES ASSUME IInv, Next
             PROVE  SetsType'
  OBVIOUS
<1>w. PICK w \in Workers : Step(w) \/ Choice(w) \/ Fault(w)
  BY DEF Next
<1> USE TxKnown DEF IInv, TypeOK, SharedType, SetsType, EndTest, wait, NoBuild
<1>1. CASE Locked(w)
  <2>1. CASE AppendHash(w)
    BY <2>1 DEF AppendHash, Sending
  <2>2. CASE Write(w)
    BY <2>2, WriteSets
  <2> QED
    BY <1>1, <2>1, <2>2 DEF Locked, Enter, EnterTorn, HandleBuild, HandleSkip, Truncate
<1>2. CASE Block(w)
  <2>1. CASE ReadHead(w)
    BY <2>1, LenProperties DEF ReadHead
  <2>2. CASE StartPayload(w)
    BY <2>2 DEF StartPayload, Mempool
  <2>3. CASE GetPayload(w)
    BY <2>3 DEF GetPayload, Mempool
  <2>4. CASE SetHead(w)
    BY <2>4 DEF SetHead
  <2>5. CASE Prune(w)
    BY <2>5 DEF Prune
  <2> QED
    BY <1>2, <2>1, <2>2, <2>3, <2>4, <2>5 DEF Block, NewPayload
<1>3. CASE Waiter(w)
  <2>1. CASE Poll(w)
    BY <2>1, PollSets
  <2> QED
    BY <1>3, <2>1 DEF Waiter, Return, CallHandle, NextRound
<1>4. CASE Choice(w)
  BY <1>4 DEF Choice, Send, Wait, SendWedged, ExitWedged
<1>5. CASE Fault(w)
  <2>1. CASE SendError(w)
    BY <2>1 DEF SendError
  <2>2. CASE PollError(w)
    BY <2>2 DEF PollError
  <2>3. CASE BuildError(w)
    BY <2>3 DEF BuildError
  <2>4. CASE Timeout(w)
    BY <2>4 DEF Timeout
  <2>5. CASE Crash(w)
    BY <2>5 DEF Crash
  <2> QED
    BY <1>5, <2>1, <2>2, <2>3, <2>4, <2>5 DEF Fault
<1> QED
  BY <1>w, <1>1, <1>2, <1>3, <1>4, <1>5 DEF Step

\* The handler counts hashes.
LEMMA HandlerStep == IInv /\ Next => HandlerType'
<1> SUFFICES ASSUME IInv, Next
             PROVE  HandlerType'
  OBVIOUS
<1>w. PICK w \in Workers : Step(w) \/ Choice(w) \/ Fault(w)
  BY DEF Next
<1> USE NumbersAssumption DEF IInv, TypeOK, HandlerType, SetsType, handler, None
<1>1. CASE Locked(w)
  <2>1. CASE HandleSkip(w)
    BY <2>1, TxsFinite DEF HandleSkip, Count
  <2> QED
    BY <1>1, <2>1 DEF Locked, Enter, EnterTorn, AppendHash, HandleBuild, Truncate, Write
<1>2. CASE Block(w)
  <2>1. CASE Prune(w)
    BY <2>1, TxsFinite DEF Prune, Count
  <2> QED
    BY <1>2, <2>1 DEF Block, ReadHead, StartPayload, GetPayload, NewPayload, SetHead
<1>3. CASE Waiter(w)
  BY <1>3 DEF Waiter, Poll, Return, CallHandle, NextRound
<1>4. CASE Choice(w)
  <2>1. CASE Wait(w)
    BY <2>1 DEF Wait
  <2> QED
    BY <1>4, <2>1 DEF Choice, Send, SendWedged, ExitWedged
<1>5. CASE Fault(w)
  BY <1>5 DEF Fault, SendError, PollError, BuildError, Timeout, Crash
<1> QED
  BY <1>w, <1>1, <1>2, <1>3, <1>4, <1>5 DEF Step
LEMMA InitShared == Init => SharedType
<1>1. <<>> \in Seq(SUBSET Txs)
  OBVIOUS
<1>2. 0 \in 0..MaxErrors /\ 0 \in 0..MaxCrashes
  BY NumbersAssumption
<1> QED
  BY <1>1, <1>2 DEF Init, SharedType

LEMMA InitInv == Init => IInv
<1> SUFFICES ASSUME Init PROVE IInv
  OBVIOUS
<1>1. TypeOK
  <2>1. SharedType
    BY InitShared
  <2>2. ControlType
    BY NumbersAssumption DEF Init, ControlType, PCs
  <2>3. SetsType
    BY DEF Init, SetsType, NoBuild
  <2>4. HandlerType
    BY NumbersAssumption DEF Init, HandlerType, None
  <2> QED
    BY <2>1, <2>2, <2>3, <2>4 DEF TypeOK
<1>2. LockHeld
  BY NoWorkerAssumption DEF Init, LockHeld, Critical, Building
<1> QED
  BY <1>1, <1>2 DEF Init, IInv, PendingKept, Sending, HashListed, MemKept, OnHead,
     PayloadFresh, PayloadIncluded, Critical, Building

\* The inductive invariant holds throughout.
THEOREM Invariance == Spec => []IInv
<1>1. Init => IInv
  BY InitInv
<1>2. IInv /\ [Next]_vars => IInv'
  <2> SUFFICES ASSUME IInv, [Next]_vars PROVE IInv'
    OBVIOUS
  <2>1. CASE Next
    BY <2>1, SharedStep, ControlStep, SetsStep, HandlerStep, LockStep, SendingStep,
       HashListedStep, MemKeptStep, PendingKeptStep, OnHeadStep, PayloadFreshStep,
       PayloadIncludedStep DEF IInv, TypeOK
  <2>2. CASE UNCHANGED vars
    BY <2>2 DEF vars, disk, client, handler, wait, history, bounds, IInv, TypeOK,
       SharedType, ControlType, SetsType, HandlerType, LockHeld, PendingKept, Sending,
       HashListed, MemKept, OnHead, PayloadFresh, PayloadIncluded, Included, Mempool
  <2> QED
    BY <2>1, <2>2
<1> QED
  BY <1>1, <1>2, PTL DEF Spec

\* Every variable keeps its type.
THEOREM TypeCorrect == Spec => []TypeOK
  BY Invariance, PTL DEF IInv

\* Only one worker at a time is between __enter__ and __exit__, killed workers and
\* failing calls included: what generate_block does is never interleaved.
THEOREM MutualExclusion == Spec => []LockHeld
  BY Invariance, PTL DEF IInv

\* No recorded hash is lost before its transaction is in a block, unless the file is torn.
THEOREM HashesKept == Spec => []PendingKept
  BY Invariance, PTL DEF IInv

------------------------------------------------------------------------------
(* The backlog, under a client that packs all it has.                         *)

\* The client has what the file and the lists tell of.
Accepted == /\ file \subseteq accepted
            /\ \A w \in Workers : mem[w] \subseteq accepted
            /\ \A w \in Workers : op[w] = "send" => <<w, tx[w]>> \in accepted

\* A list is small when it is written, and big only until the block that it makes due
\* has all of it.
Small(s) == Cardinality(s \ Included) < TxPerBlock
Backlog ==
  EagerClient /\ errors = 0 =>
    /\ Small(file)
    /\ \A w \in Workers : pc[w] \in {"exit", "write"} => Small(mem[w])
    /\ \A w \in Workers : pc[w] \in {"getPayload", "newPayload", "setHead"}
                            => mem[w] \ Included \subseteq build[w].txs
    /\ \A w \in Workers : pc[w] = "prune" => mem[w] \ Included = {}

LEMMA AcceptedStep == IInv /\ Accepted /\ Next => Accepted'
<1> SUFFICES ASSUME IInv, Accepted, Next
             PROVE  Accepted'
  OBVIOUS
<1>w. PICK w \in Workers : Step(w) \/ Choice(w) \/ Fault(w)
  BY DEF Next
<1> USE DEF IInv, Goto, Op, EndTest, Accepted, TypeOK, ControlType, SetsType, client, disk
<1>1. CASE Locked(w)
  BY <1>1 DEF Locked, Enter, EnterTorn, AppendHash, HandleBuild, HandleSkip, Truncate,
      Write
<1>2. CASE Block(w)
  BY ZenonT(60), <1>2 DEF Block, ReadHead, StartPayload, GetPayload, NewPayload, SetHead, Prune
<1>3. CASE Waiter(w)
  BY <1>3 DEF Waiter, Poll, Return, CallHandle, NextRound
<1>4. CASE Choice(w)
  BY <1>4 DEF Choice, Send, Wait, SendWedged, ExitWedged
<1>5. CASE Fault(w)
  BY <1>5 DEF Fault, SendError, PollError, BuildError, Timeout, Crash
<1> QED
  BY <1>w, <1>1, <1>2, <1>3, <1>4, <1>5 DEF Step

\* The chain only grows, and moves only where a block is adopted.
LEMMA ChainGrows ==
  IInv /\ Next =>
    /\ Included \subseteq Included'
    /\ errors' = 0 => /\ errors = 0
                      /\ chain' = chain \/ \E w \in Workers : SetHead(w)
<1> SUFFICES ASSUME IInv, Next
             PROVE  /\ Included \subseteq Included'
                    /\ errors' = 0 => /\ errors = 0
                                      /\ chain' = chain \/ \E w \in Workers : SetHead(w)
  OBVIOUS
<1>w. PICK w \in Workers : Step(w) \/ Choice(w) \/ Fault(w)
  BY DEF Next
<1>e. errors \in Nat
  BY NumbersAssumption DEF IInv, TypeOK, SharedType
<1>1. CASE SetHead(w)
  BY <1>1, AdoptStep DEF SetHead, bounds
<1>2. CASE BuildError(w)
  <2>1. errors' # 0
    BY <1>2, <1>e DEF BuildError
  <2> QED
    BY <1>2, <2>1, AdoptStep DEF BuildError, Included
<1>3. CASE SendError(w) \/ PollError(w)
  BY <1>3, <1>e DEF SendError, PollError, client, Included
<1>4. CASE ~(SetHead(w) \/ BuildError(w) \/ SendError(w) \/ PollError(w))
  <2>1. UNCHANGED <<chain, errors>>
    BY <1>w, <1>4
       DEF Step, Locked, Enter, EnterTorn, AppendHash, HandleBuild, HandleSkip, Truncate, Write,
           Block, ReadHead, StartPayload, GetPayload, NewPayload, Prune,
           Waiter, Poll, Return, CallHandle, NextRound,
           Choice, Send, Wait, SendWedged, ExitWedged, Fault, Timeout, Crash, client, bounds
  <2> QED
    BY <2>1 DEF Included
<1> QED
  BY <1>1, <1>2, <1>3, <1>4

\* A set of transactions that was small stays so, and so does a part of it.
LEMMA SmallKept ==
  ASSUME NEW s \in SUBSET Txs, NEW r \in SUBSET s, Small(s), Included \subseteq Included'
  PROVE  Small(r) /\ Cardinality(r \ Included') < TxPerBlock
<1>1. s \ Included \in SUBSET Txs
  OBVIOUS
<1>2. /\ IsFiniteSet(s \ Included) /\ Cardinality(s \ Included) \in Nat
  BY <1>1, TxsFinite
<1>3. \A q \in SUBSET (s \ Included) :
        Cardinality(q) \in Nat /\ Cardinality(q) <= Cardinality(s \ Included)
  BY <1>2, FS_Subset, FS_CardinalityType
<1>4. r \ Included \in SUBSET (s \ Included) /\ r \ Included' \in SUBSET (s \ Included)
  OBVIOUS
<1> QED
  BY <1>2, <1>3, <1>4, NumbersAssumption DEF Small

LEMMA SmallLists ==
  ASSUME NEW s \in SUBSET Txs, Cardinality(s) < TxPerBlock
  PROVE  Small(s)
<1>1. IsFiniteSet(s) /\ Cardinality(s) \in Nat
  BY TxsFinite
<1>2. Cardinality(s \ Included) \in Nat /\ Cardinality(s \ Included) <= Cardinality(s)
  BY <1>1, FS_Subset, FS_CardinalityType
<1> QED
  BY <1>1, <1>2, NumbersAssumption DEF Small

\* The file is emptied, or written from the list of who leaves the critical part.
LEMMA FileWritten ==
  IInv /\ Next => file' \in {file, {}} \/ \E w \in Workers : pc[w] = "write" /\ file' = mem[w]
BY DEF Next, Step, Locked, Enter, EnterTorn, AppendHash, HandleBuild, HandleSkip, Truncate, Write,
       Block, ReadHead, StartPayload, GetPayload, NewPayload, SetHead, Prune,
       Waiter, Poll, Return, CallHandle, NextRound,
       Choice, Send, Wait, SendWedged, ExitWedged,
       Fault, SendError, PollError, BuildError, Timeout, Crash, disk

\* A list that is to be written was so before, is smaller than a block, or is what a
\* block has left of it.
LEMMA ListWritten ==
  ASSUME IInv, Next, errors' = 0, NEW v \in Workers, pc'[v] \in {"exit", "write"}
  PROVE  \/ pc[v] \in {"exit", "write"} /\ mem'[v] = mem[v]
         \/ Cardinality(mem'[v]) < TxPerBlock
         \/ pc[v] = "prune" /\ mem'[v] \subseteq mem[v]
<1>w. PICK w \in Workers : Step(w) \/ Choice(w) \/ Fault(w)
  BY DEF Next
<1>e. errors \in Nat
  BY NumbersAssumption DEF IInv, TypeOK, SharedType
<1>m. Cardinality(mem'[v]) \in Int
  BY TxsFinite, SetsStep DEF SetsType
<1>x. TxPerBlock \in Int
  BY NumbersAssumption
<1> USE DEF IInv, Goto, Op, EndTest, TypeOK, ControlType, SetsType
<1>1. CASE Locked(w)
  BY <1>1, <1>m, <1>x DEF Locked, Enter, EnterTorn, AppendHash, HandleBuild, HandleSkip, Truncate,
      Write, Due, Full
<1>2. CASE Block(w)
  BY <1>2 DEF Block, ReadHead, StartPayload, GetPayload, NewPayload, SetHead, Prune
<1>3. CASE Waiter(w)
  BY <1>3 DEF Waiter, Poll, Return, CallHandle, NextRound
<1>4. CASE Choice(w)
  BY <1>4 DEF Choice, Send, Wait, SendWedged, ExitWedged
<1>5. CASE Fault(w)
  BY <1>5, <1>e DEF Fault, SendError, PollError, BuildError, Timeout, Crash
<1> QED
  BY <1>w, <1>1, <1>2, <1>3, <1>4, <1>5 DEF Step

Packing == {"getPayload", "newPayload", "setHead"}
Packs(v) == /\ pc[v] \in Packing => mem[v] \ Included \subseteq build[v].txs
            /\ pc[v] = "prune" => mem[v] \ Included = {}

LEMMA PackedStep ==
  ASSUME IInv, Accepted, Next, EagerClient, errors' = 0, NEW v \in Workers, Packs(v)
  PROVE  Packs(v)'
<1>w. PICK w \in Workers : Step(w) \/ Choice(w) \/ Fault(w)
  BY DEF Next
<1>e. errors \in Nat
  BY NumbersAssumption DEF IInv, TypeOK, SharedType
<1> USE DEF IInv, Goto, Op, EndTest, TypeOK, ControlType, SetsType, Packs, Packing, client, Included
<1>1. CASE Locked(w)
  BY <1>1 DEF Locked, Enter, EnterTorn, AppendHash, HandleBuild, HandleSkip, Truncate, Write
<1>2. CASE Block(w)
  <2>1. CASE ReadHead(w)
    BY <2>1 DEF ReadHead
  <2>2. CASE StartPayload(w)
    BY <2>2 DEF StartPayload, Mempool, Accepted
  <2>3. CASE GetPayload(w)
    BY <2>3 DEF GetPayload
  <2>4. CASE SetHead(w)
    BY <2>4, AdoptStep DEF SetHead, LockHeld, Critical, Building
  <2>5. CASE Prune(w)
    BY <2>5 DEF Prune
  <2> QED
    BY <1>2, <2>1, <2>2, <2>3, <2>4, <2>5 DEF Block, NewPayload
<1>3. CASE Waiter(w)
  BY <1>3 DEF Waiter, Poll, Return, CallHandle, NextRound
<1>4. CASE Choice(w)
  BY <1>4 DEF Choice, Send, Wait, SendWedged, ExitWedged
<1>5. CASE Fault(w)
  BY <1>5, <1>e DEF Fault, SendError, PollError, BuildError, Timeout, Crash
<1> QED
  BY <1>w, <1>1, <1>2, <1>3, <1>4, <1>5 DEF Step

LEMMA BacklogStep == IInv /\ Accepted /\ Backlog /\ Next => Backlog'
<1> SUFFICES ASSUME IInv, Accepted, Backlog, Next, EagerClient, errors' = 0
             PROVE  Backlog'
  BY DEF Backlog
<1>0. /\ errors = 0 /\ Included \subseteq Included'
      /\ Small(file)
      /\ \A v \in Workers : pc[v] \in {"exit", "write"} => Small(mem[v])
      /\ \A v \in Workers : Packs(v)
  BY ChainGrows DEF Backlog, Packs, Packing
<1>t. file \in SUBSET Txs /\ \A v \in Workers : mem[v] \in SUBSET Txs /\ mem'[v] \in SUBSET Txs
  BY SetsStep DEF IInv, TypeOK, SharedType, SetsType
<1>1. Small(file)'
  <2>1. CASE file' \in {file, {}}
    BY <1>0, <1>t, <2>1, SmallKept DEF Small
  <2>2. CASE \E w \in Workers : pc[w] = "write" /\ file' = mem[w]
    BY <1>0, <1>t, <2>2, SmallKept DEF Small
  <2> QED
    BY <2>1, <2>2, FileWritten
<1>2. ASSUME NEW v \in Workers, pc'[v] \in {"exit", "write"}
      PROVE  Small(mem[v])'
  <2>1. CASE Small(mem'[v])
    BY <1>0, <1>t, <2>1, SmallKept DEF Small
  <2>2. CASE Cardinality(mem'[v]) < TxPerBlock
    BY <1>t, <2>1, <2>2, SmallLists
  <2>3. CASE pc[v] = "prune" /\ mem'[v] \subseteq mem[v]
    <3>1. mem'[v] \ Included' = {}
      BY <1>0, <2>3 DEF Packs
    <3> QED
      BY <3>1, FS_EmptySet, NumbersAssumption DEF Small
  <2>4. CASE pc[v] \in {"exit", "write"} /\ mem'[v] = mem[v]
    BY <1>0, <2>1, <2>4
  <2> QED
    BY <1>2, <2>2, <2>3, <2>4, ListWritten
<1>3. \A v \in Workers : Packs(v)'
  BY <1>0, PackedStep
<1> QED
  BY <1>1, <1>2, <1>3 DEF Backlog, Packs, Packing

\* While nobody builds, fewer recorded transactions than make a block are outside the
\* chain, for any number of workers and kills, if no call fails and the client packs all
\* that it has.
THEOREM BlocksInTime == Spec => []BacklogBounded
<1>1. Init => IInv /\ Accepted /\ Backlog
  <2> SUFFICES ASSUME Init PROVE Accepted /\ Backlog
    BY InitInv
  <2>1. Accepted
    BY DEF Init, Accepted
  <2>2. Small(file)
    BY FS_EmptySet, NumbersAssumption DEF Init, Small
  <2> QED
    BY <2>1, <2>2 DEF Init, Backlog
<1>2. IInv /\ Accepted /\ Backlog /\ [Next]_vars => (Accepted /\ Backlog)'
  <2> SUFFICES ASSUME IInv, Accepted, Backlog, [Next]_vars PROVE (Accepted /\ Backlog)'
    OBVIOUS
  <2>1. CASE Next
    BY <2>1, AcceptedStep, BacklogStep
  <2>2. CASE UNCHANGED vars
    BY <2>2 DEF vars, disk, client, bounds, Accepted, Backlog, Small, Included
  <2> QED
    BY <2>1, <2>2
<1>3. Backlog => BacklogBounded
  BY DEF Backlog, BacklogBounded, Small
<1> QED
  BY <1>1, <1>2, <1>3, Invariance, PTL DEF Spec

------------------------------------------------------------------------------
(* ChainBuilder implements TxInclusion.                                       *)

LEMMA PromiseStep == IInv /\ [Next]_vars => [Promise!TxNext]_(Promise!tvars)
<1> SUFFICES ASSUME IInv, [Next]_vars
             PROVE  Promise!TxNext \/ UNCHANGED <<accepted, chain, confirmed>>
  BY DEF Promise!tvars
<1>1. CASE UNCHANGED vars
  BY <1>1 DEF vars, client, history
<1>2. CASE Next
  <2>w. PICK w \in Workers : Step(w) \/ Choice(w) \/ Fault(w)
    BY <1>2 DEF Next
  <2> USE DEF client, history
  <2>1. ASSUME tx[w] < TxPerWorker, UNCHANGED <<chain, confirmed>>,
               accepted' = accepted \union {<<w, tx[w] + 1>>}
        PROVE  Promise!TxNext \/ UNCHANGED <<accepted, chain, confirmed>>
    <3>1. <<w, tx[w] + 1>> \in Txs
      BY <2>1, TxKnown DEF IInv
    <3>2. CASE <<w, tx[w] + 1>> \in accepted
      BY <2>1, <3>2
    <3>3. CASE <<w, tx[w] + 1>> \notin accepted
      BY <2>1, <3>1, <3>3 DEF Promise!TxNext, Promise!Submit
    <3> QED
      BY <3>2, <3>3
  <2>2. ASSUME pc[w] = "setHead", Adopt(w), UNCHANGED <<accepted, confirmed>>
        PROVE  Promise!TxNext
    <3>1. build[w].txs \in SUBSET (accepted \ Promise!InBlocks(chain))
      BY <2>2, AdoptStep DEF Included, InBlocks, Promise!InBlocks
    <3>2. chain' = Append(chain, build[w].txs)
      BY <2>2, AdoptStep
    <3> QED
      BY <2>2, <3>1, <3>2 DEF Promise!TxNext, Promise!Extend
  <2>3. CASE Poll(w)
    <3>1. UNCHANGED <<accepted, chain>>
      BY <2>3 DEF Poll
    <3>2. \/ confirmed' = confirmed
          \/ \E t \in Included : confirmed' = confirmed \union {t}
      BY <2>3 DEF Poll
    <3> QED
      BY <3>1, <3>2 DEF Promise!TxNext, Promise!Confirm, Included, InBlocks, Promise!InBlocks
  <2>4. CASE Send(w) \/ SendError(w) \/ SendWedged(w)
    BY <2>1, <2>4 DEF Send, SendError, SendWedged
  <2>5. CASE SetHead(w) \/ BuildError(w)
    BY <2>2, <2>5 DEF SetHead, BuildError
  <2>6. CASE Locked(w)
    BY <2>6 DEF Locked, Enter, EnterTorn, AppendHash, HandleBuild, HandleSkip, Truncate, Write
  <2>7. CASE Block(w)
    BY <2>5, <2>7 DEF Block, ReadHead, StartPayload, GetPayload, NewPayload, Prune
  <2>8. CASE Waiter(w)
    BY <2>3, <2>8 DEF Waiter, Return, CallHandle, NextRound
  <2>9. CASE Choice(w)
    BY <2>4, <2>9 DEF Choice, Wait, ExitWedged
  <2>10. CASE Fault(w)
    BY <2>4, <2>5, <2>10 DEF Fault, PollError, Timeout, Crash
  <2> QED
    BY <2>w, <2>6, <2>7, <2>8, <2>9, <2>10 DEF Step
<1> QED
  BY <1>1, <1>2

\* The chain that the workers build together takes no block back and holds no transaction
\* twice, and what a wait returns is in it: for any number of workers, calls that fail and
\* workers killed at any step.
THEOREM Implements == Spec => KeepsPromise
<1>1. Init => Promise!TxInit
  BY DEF Init, Promise!TxInit
<1>2. IInv /\ [Next]_vars => [Promise!TxNext]_(Promise!tvars)
  BY PromiseStep
<1> QED
  BY <1>1, <1>2, Invariance, PTL DEF Spec, KeepsPromise, Promise!TxSpec
==============================================================================
