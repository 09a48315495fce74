---------------------------- MODULE Filling_proofs ----------------------------
(* Theorems about FixtureCollector, for any number of workers, tests, files   *)
(* and faults, and about ForkSession, for any fork table, command line and    *)
(* tests that satisfy its assumptions: where the fixtures of a fill end up,   *)
(* and the forks that they are filled for.  The two modules share nothing.    *)
EXTENDS FixtureCollector, ForkSession, FiniteSetTheorems, SequenceTheorems, WellFoundedInduction, TLAPS

------------------------------------------------------------------------------
(* The inductive invariant.                                                   *)

\* A test that its collector may forget: it is in its file, it is about to be written back
\* by the worker that holds the file, or the file is torn for good.
OnDisk(t, p) ==
  \/ t \in file[p]
  \/ p \in torn /\ lock[p] = Nobody
  \/ p \in torn /\ lock[p] # Nobody /\ t \in read[lock[p]]

\* Who holds a file is in the middle of its rewrite, and knows what is in it.
LockInv ==
  /\ \A p \in Paths : lock[p] # Nobody =>
       /\ p \in left[lock[p]]
       /\ pc[lock[p]] = (IF p \in torn THEN "writing" ELSE "locked")
       /\ p \notin torn => read[lock[p]] = file[p]
  /\ \A p, q \in Paths : lock[p] # Nobody /\ lock[p] = lock[q] => p = q
  /\ \A p \in torn : file[p] = {}

\* A worker that dumps has a collector.
ScopeInv == \A w \in Workers : pc[w] \in Dumping => scope[w] # NoScope

\* What a collector holds, and in a dump: what it does not have to write is on disk.
MemInv ==
  \A w \in Workers :
    /\ pc[w] \in {"verify", "done", "killed"} => mem[w] = Empty
    /\ pc[w] = "tests" /\ scope[w] = NoScope => mem[w] = Empty
    /\ pc[w] \in Dumping =>
         \A p \in Paths \ left[w] : \A t \in mem[w][p] : OnDisk(t, p)

\* Where a test is.
Where ==
  \A t \in Tests : \/ t \in todo \/ t \in lost
                   \/ \E w \in Workers : t \in mem[w][Path(t)]
                   \/ OnDisk(t, Path(t))

ErrorInv == ~errors => lost = {} /\ \A p \in torn : lock[p] # Nobody

EndInv ==
  /\ phase # "filling" => \A w \in Workers : pc[w] \in {"done", "killed"}
  /\ phase = "indexed" => torn = {} /\ index = UNION {file[p] : p \in Paths}
  /\ phase = "broken" => torn # {}

IInv == TypeOK /\ LockInv /\ ScopeInv /\ MemInv /\ Where /\ ErrorInv /\ EndInv /\ FlushedInTime

------------------------------------------------------------------------------
(* Types.                                                                     *)

LEMMA PathType == TypeOK => \A t \in Tests : Path(t) \in Paths
  BY DEF TypeOK, Path, Paths

LEMMA PathSame == single' = single => \A t : Path(t)' = Path(t) /\ ScopeOf(t)' = ScopeOf(t)
  BY DEF Path, ScopeOf

LEMMA EmptyType == Empty \in [Paths -> SUBSET Tests]
  BY DEF Empty

LEMMA KeysType == ASSUME NEW f PROVE Keys(f) \subseteq Paths
  BY DEF Keys

LEMMA InitType == ASSUME Init PROVE TypeOK
<1>1. 0 \in 0..MaxFaults
  BY CollectorAssumption
<1>2. mem \in [Workers -> [Paths -> SUBSET Tests]] /\ file \in [Paths -> SUBSET Tests]
  BY EmptyType DEF Init
<1>3. /\ DOMAIN scope = Workers /\ left \in [Workers -> SUBSET Paths]
      /\ flushing \in [Workers -> BOOLEAN] /\ read \in [Workers -> SUBSET Tests]
      /\ lock \in [Paths -> Workers \union {Nobody}] /\ todo \subseteq Tests
  BY DEF Init
<1>4. pc \in [Workers -> {"tests", "dump", "locked", "writing", "verify", "done", "killed"}]
  BY DEF Init
<1> QED
  BY <1>1, <1>2, <1>3, <1>4 DEF Init, TypeOK

\* Discarding a collector and raising keep the types.
LEMMA DiscardType ==
  ASSUME TypeOK, NEW w \in Workers, Discard(w)
  PROVE  /\ lost' \subseteq Tests /\ mem' \in [Workers -> [Paths -> SUBSET Tests]]
         /\ left' \in [Workers -> SUBSET Paths] /\ flushing' \in [Workers -> BOOLEAN]
         /\ DOMAIN scope' = Workers
<1>1. mem[w] \in [Paths -> SUBSET Tests] /\ left[w] \subseteq Paths
  BY DEF TypeOK
<1>2. lost' \subseteq Tests
  BY <1>1 DEF Discard, TypeOK
<1>3. mem' \in [Workers -> [Paths -> SUBSET Tests]]
  BY EmptyType DEF Discard, TypeOK
<1> QED
  BY <1>2, <1>3 DEF Discard, TypeOK

LEMMA RaiseType ==
  ASSUME TypeOK, NEW w \in Workers, Raise(w)
  PROVE  /\ lost' \subseteq Tests /\ mem' \in [Workers -> [Paths -> SUBSET Tests]]
         /\ left' \in [Workers -> SUBSET Paths] /\ flushing' \in [Workers -> BOOLEAN]
         /\ DOMAIN scope' = Workers /\ errors' \in BOOLEAN
         /\ pc' \in [Workers -> {"tests", "dump", "locked", "writing", "verify", "done", "killed"}]
<1>1. errors' \in BOOLEAN
  BY DEF Raise
<1>2. pc' \in [Workers -> {"tests", "dump", "locked", "writing", "verify", "done", "killed"}]
  BY DEF Raise, Goto, TypeOK
<1>3. CASE flushing[w]
  BY <1>1, <1>2, <1>3 DEF Raise, TypeOK
<1>4. CASE ~flushing[w]
  BY <1>1, <1>2, <1>4, DiscardType DEF Raise
<1> QED
  BY <1>3, <1>4

LEMMA NextType ==
  ASSUME TypeOK, Next
  PROVE  TypeOK'
<1> USE DEF input, worker, disk, session
<1>1. CASE EndSession
  BY <1>1 DEF EndSession, TypeOK
<1> SUFFICES ASSUME NEW w \in Workers, Step(w) PROVE TypeOK'
  BY <1>1 DEF Next
<1>2. CASE RunTest(w)
  <2>1. PICK t \in todo : /\ todo' = todo \ {t}
                          /\ scope' = [scope EXCEPT ![w] = ScopeOf(t)]
                          /\ AddFixture(w, t)
    BY <1>2 DEF RunTest
  <2>2. PICK f : /\ f = [mem[w] EXCEPT ![Path(t)] = @ \union {t}]
                 /\ mem' = [mem EXCEPT ![w] = f]
    BY <2>1 DEF AddFixture
  <2>3. t \in Tests /\ mem[w] \in [Paths -> SUBSET Tests]
    BY <2>1 DEF TypeOK
  <2>4. f \in [Paths -> SUBSET Tests]
    BY <2>2, <2>3
  <2>5. mem' \in [Workers -> [Paths -> SUBSET Tests]]
    BY <2>2, <2>4 DEF TypeOK
  <2>6. \/ UNCHANGED <<left, flushing, pc>>
        \/ /\ left' = [left EXCEPT ![w] = Keys(f)]
           /\ flushing' = [flushing EXCEPT ![w] = TRUE]
           /\ pc' = [pc EXCEPT ![w] = "dump"]
    BY <2>1, <2>2 DEF AddFixture, Goto
  <2>7. /\ left' \in [Workers -> SUBSET Paths] /\ flushing' \in [Workers -> BOOLEAN]
        /\ pc' \in [Workers -> {"tests", "dump", "locked", "writing", "verify", "done", "killed"}]
    <3>1. Keys(f) \subseteq Paths
      BY KeysType
    <3>2. left \in [Workers -> SUBSET Paths] /\ flushing \in [Workers -> BOOLEAN]
          /\ pc \in [Workers -> {"tests", "dump", "locked", "writing", "verify", "done", "killed"}]
      BY DEF TypeOK
    <3> QED
      BY <2>6, <3>1, <3>2
  <2> QED
    BY <1>2, <2>1, <2>5, <2>7 DEF RunTest, TypeOK
<1>3. CASE Teardown(w)
  BY <1>3, KeysType DEF Teardown, Goto, TypeOK
<1>4. CASE Finish(w)
  BY <1>4 DEF Finish, Goto, TypeOK
<1>5. CASE Open(w)
  BY <1>5 DEF Open, Goto, TypeOK
<1>6. CASE OpenTorn(w)
  BY <1>6, RaiseType DEF OpenTorn, TypeOK
<1>7. CASE Truncate(w)
  BY <1>7 DEF Truncate, Goto, TypeOK
<1>8. CASE Write(w)
  <2>1. mem[w] \in [Paths -> SUBSET Tests] /\ read[w] \subseteq Tests
    BY DEF TypeOK
  <2>2. PICK p \in Paths : /\ file' = [file EXCEPT ![p] = read[w] \union mem[w][p]]
                           /\ torn' = torn \ {p}
                           /\ lock' = [lock EXCEPT ![p] = Nobody]
                           /\ left' = [left EXCEPT ![w] = @ \ {p}]
    BY <1>8 DEF Write
  <2>3. read[w] \union mem[w][p] \subseteq Tests /\ left[w] \ {p} \subseteq Paths
    BY <2>1 DEF TypeOK
  <2>4. file' \in [Paths -> SUBSET Tests] /\ left' \in [Workers -> SUBSET Paths]
    BY <2>2, <2>3 DEF TypeOK
  <2> QED
    BY <1>8, <2>2, <2>4 DEF Write, Goto, TypeOK
<1>9. CASE Dumped(w)
  BY <1>9, EmptyType DEF Dumped, Goto, TypeOK
<1>10. CASE Verify(w)
  BY <1>10, KeysType DEF Verify, Goto, TypeOK
<1>11. CASE WriteError(w)
  <2>1. faults' \in 0..MaxFaults
    BY <1>11, CollectorAssumption DEF WriteError, TypeOK
  <2>2. lock' \in [Paths -> Workers \union {Nobody}]
    BY <1>11 DEF WriteError, TypeOK
  <2> QED
    BY <1>11, <2>1, <2>2, RaiseType DEF WriteError, TypeOK
<1>12. CASE Crash(w)
  <2>1. faults' \in 0..MaxFaults
    BY <1>12, CollectorAssumption DEF Crash, TypeOK
  <2>2. lock' \in [Paths -> Workers \union {Nobody}]
    BY <1>12 DEF Crash, TypeOK
  <2>3. pc' \in [Workers -> {"tests", "dump", "locked", "writing", "verify", "done", "killed"}]
    BY <1>12 DEF Crash, Goto, TypeOK
  <2> QED
    BY <1>12, <2>1, <2>2, <2>3, DiscardType DEF Crash, TypeOK
<1> QED
  BY <1>2, <1>3, <1>4, <1>5, <1>6, <1>7, <1>8, <1>9, <1>10, <1>11, <1>12 DEF Step

------------------------------------------------------------------------------
(* What is on disk stays there.                                               *)

\* A step keeps the tests on disk, and what each worker holds.
LEMMA DiskKept ==
  ASSUME TypeOK, LockInv, NEW w \in Workers, Step(w), NEW p \in Paths, NEW t, OnDisk(t, p)
  PROVE  OnDisk(t, p)'
<1> USE DEF input, worker, disk, session
<1>1. /\ Nobody \notin Workers /\ w # Nobody
      /\ lock[p] # Nobody => lock[p] \in Workers
  BY CollectorAssumption DEF TypeOK
<1>2. CASE UNCHANGED <<file, torn, lock, read>>
  BY <1>2 DEF OnDisk
<1>3. CASE Open(w)
  <2>1. PICK q \in Paths : /\ lock[q] = Nobody /\ q \notin torn
                           /\ lock' = [lock EXCEPT ![q] = w]
                           /\ read' = [read EXCEPT ![w] = file[q]]
    BY <1>3 DEF Open, TypeOK
  <2>2. file' = file /\ torn' = torn /\ pc[w] = "dump"
    BY <1>3 DEF Open
  <2>3. CASE p = q
    BY <2>1, <2>2, <2>3 DEF OnDisk
  <2>4. CASE p # q
    <3>1. lock'[p] = lock[p]
      BY <2>1, <2>4 DEF TypeOK
    <3>2. lock[p] # w
      BY <1>1, <2>2 DEF LockInv
    <3>3. lock[p] # Nobody => read'[lock[p]] = read[lock[p]]
      BY <1>1, <2>1, <3>2 DEF TypeOK
    <3> QED
      BY <2>2, <3>1, <3>3 DEF OnDisk
  <2> QED
    BY <2>3, <2>4
<1>4. CASE Truncate(w)
  <2>1. PICK q \in Paths : /\ lock[q] = w
                           /\ file' = [file EXCEPT ![q] = {}]
                           /\ torn' = torn \union {q}
    BY <1>4 DEF Truncate
  <2>2. lock' = lock /\ read' = read /\ pc[w] = "locked"
    BY <1>4 DEF Truncate
  <2>3. CASE p = q
    <3>1. q \notin torn /\ read[w] = file[q]
      BY <1>1, <2>1, <2>2 DEF LockInv
    <3> QED
      BY <1>1, <2>1, <2>2, <2>3, <3>1 DEF OnDisk
  <2>4. CASE p # q
    BY <2>1, <2>2, <2>4 DEF OnDisk, TypeOK
  <2> QED
    BY <2>3, <2>4
<1>5. CASE Write(w)
  <2>1. PICK q \in Paths : /\ lock[q] = w
                           /\ file' = [file EXCEPT ![q] = read[w] \union mem[w][q]]
                           /\ torn' = torn \ {q}
                           /\ lock' = [lock EXCEPT ![q] = Nobody]
    BY <1>5 DEF Write
  <2>2. read' = read /\ pc[w] = "writing"
    BY <1>5 DEF Write
  <2>3. CASE p = q
    <3>1. q \in torn /\ file'[q] = read[w] \union mem[w][q]
      BY <1>1, <2>1, <2>2 DEF LockInv, TypeOK
    <3>2. file[q] = {}
      BY <3>1 DEF LockInv
    <3> QED
      BY <1>1, <2>1, <2>3, <3>1, <3>2 DEF OnDisk
  <2>4. CASE p # q
    <3>1. lock'[p] = lock[p] /\ file'[p] = file[p] /\ (p \in torn' <=> p \in torn)
      BY <2>1, <2>4 DEF TypeOK
    <3> QED
      BY <2>2, <3>1 DEF OnDisk
  <2> QED
    BY <2>3, <2>4
<1>6. CASE WriteError(w) \/ Crash(w)
  <2>1. /\ file' = file /\ torn' = torn /\ read' = read
        /\ lock' = [q \in Paths |-> IF lock[q] = w THEN Nobody ELSE lock[q]]
    BY <1>6 DEF WriteError, Crash
  <2>2. lock'[p] = IF lock[p] = w THEN Nobody ELSE lock[p]
    BY <2>1
  <2> QED
    BY <2>1, <2>2 DEF OnDisk
<1> QED
  BY <1>2, <1>3, <1>4, <1>5, <1>6
     DEF Step, RunTest, Teardown, Finish, OpenTorn, Dumped, Verify

\* A file is held by one worker at a time, in the middle of its rewrite.
LEMMA LockKept ==
  ASSUME TypeOK, LockInv, Next
  PROVE  LockInv'
<1> USE DEF input, worker, disk, session
<1>1. Nobody \notin Workers
  BY CollectorAssumption
<1>2. CASE EndSession
  BY <1>2 DEF EndSession, LockInv
<1> SUFFICES ASSUME NEW w \in Workers, Step(w) PROVE LockInv'
  BY <1>2 DEF Next
<1>3. \A p \in Paths : lock[p] # Nobody => lock[p] \in Workers
  BY DEF TypeOK
<1>4. ASSUME UNCHANGED <<file, torn, lock, read>>, pc[w] \notin {"locked", "writing"},
             \A v \in Workers \ {w} : pc'[v] = pc[v] /\ left'[v] = left[v]
      PROVE  LockInv'
  <2>1. \A p \in Paths : lock[p] # w
    BY <1>1, <1>4 DEF LockInv
  <2> QED
    BY <1>3, <1>4, <2>1 DEF LockInv
<1>5. CASE Open(w)
  <2>1. PICK q \in Paths : /\ q \in left[w] /\ lock[q] = Nobody /\ q \notin torn
                           /\ lock' = [lock EXCEPT ![q] = w]
                           /\ read' = [read EXCEPT ![w] = file[q]]
    BY <1>5 DEF Open, TypeOK
  <2>2. /\ file' = file /\ torn' = torn /\ left' = left /\ pc[w] = "dump"
        /\ pc' = [pc EXCEPT ![w] = "locked"]
    BY <1>5 DEF Open, Goto
  <2>3. \A p \in Paths : lock[p] # w
    BY <1>1, <2>2 DEF LockInv
  <2>4. \A p \in Paths : lock'[p] = IF p = q THEN w ELSE lock[p]
    BY <2>1 DEF TypeOK
  <2>5. pc'[w] = "locked" /\ read'[w] = file[q]
    BY <2>1, <2>2 DEF TypeOK
  <2>6. \A v \in Workers \ {w} : pc'[v] = pc[v] /\ read'[v] = read[v]
    BY <2>1, <2>2 DEF TypeOK
  <2>7. \A p \in Paths : lock'[p] # Nobody =>
           /\ p \in left'[lock'[p]]
           /\ pc'[lock'[p]] = (IF p \in torn' THEN "writing" ELSE "locked")
           /\ p \notin torn' => read'[lock'[p]] = file'[p]
    <3> SUFFICES ASSUME NEW p \in Paths, lock'[p] # Nobody
                 PROVE  /\ p \in left'[lock'[p]]
                        /\ pc'[lock'[p]] = (IF p \in torn' THEN "writing" ELSE "locked")
                        /\ p \notin torn' => read'[lock'[p]] = file'[p]
      OBVIOUS
    <3>1. CASE p = q
      BY <2>1, <2>2, <2>4, <2>5, <3>1
    <3>2. CASE p # q
      <4>1. lock'[p] = lock[p] /\ lock[p] \in Workers \ {w}
        BY <1>3, <2>3, <2>4, <3>2
      <4>2. pc'[lock[p]] = pc[lock[p]] /\ read'[lock[p]] = read[lock[p]]
        BY <2>6, <4>1
      <4> QED
        BY <2>2, <4>1, <4>2 DEF LockInv
    <3> QED
      BY <3>1, <3>2
  <2>8. \A p, r \in Paths : lock'[p] # Nobody /\ lock'[p] = lock'[r] => p = r
    BY <2>3, <2>4 DEF LockInv
  <2> QED
    BY <2>2, <2>7, <2>8 DEF LockInv
<1>6. CASE Truncate(w)
  <2>1. PICK q \in Paths : /\ lock[q] = w
                           /\ file' = [file EXCEPT ![q] = {}]
                           /\ torn' = torn \union {q}
    BY <1>6 DEF Truncate
  <2>2. /\ lock' = lock /\ read' = read /\ left' = left
        /\ pc' = [pc EXCEPT ![w] = "writing"]
    BY <1>6 DEF Truncate, Goto
  <2>3. \A p \in Paths \ {q} : lock[p] # w
    BY <1>1, <2>1 DEF LockInv
  <2>4. /\ \A p \in Paths : file'[p] = IF p = q THEN {} ELSE file[p]
        /\ \A v \in Workers : pc'[v] = IF v = w THEN "writing" ELSE pc[v]
    BY <2>1, <2>2 DEF TypeOK
  <2>5. torn \subseteq Paths
    BY DEF TypeOK
  <2>6. \A p \in torn' : file'[p] = {}
    BY <2>1, <2>4, <2>5 DEF LockInv
  <2>7. \A p \in Paths : lock'[p] # Nobody =>
           /\ p \in left'[lock'[p]]
           /\ pc'[lock'[p]] = (IF p \in torn' THEN "writing" ELSE "locked")
           /\ p \notin torn' => read'[lock'[p]] = file'[p]
    BY <1>3, <2>1, <2>2, <2>3, <2>4 DEF LockInv
  <2> QED
    BY <2>2, <2>6, <2>7 DEF LockInv
<1>7. CASE Write(w)
  <2>1. PICK q \in Paths : /\ lock[q] = w
                           /\ file' = [file EXCEPT ![q] = read[w] \union mem[w][q]]
                           /\ torn' = torn \ {q}
                           /\ lock' = [lock EXCEPT ![q] = Nobody]
                           /\ left' = [left EXCEPT ![w] = @ \ {q}]
    BY <1>7 DEF Write
  <2>2. read' = read /\ pc' = [pc EXCEPT ![w] = "dump"]
    BY <1>7 DEF Write, Goto
  <2>3. \A p \in Paths \ {q} : lock[p] # w
    BY <1>1, <2>1 DEF LockInv
  <2>4. /\ \A p \in Paths \ {q} : file'[p] = file[p] /\ lock'[p] = lock[p]
        /\ lock'[q] = Nobody /\ torn \subseteq Paths
        /\ \A v \in Workers \ {w} : pc'[v] = pc[v] /\ left'[v] = left[v]
    BY <2>1, <2>2 DEF TypeOK
  <2>5. \A p \in torn' : file'[p] = {}
    BY <2>1, <2>4 DEF LockInv
  <2>6. \A p \in Paths : lock'[p] # Nobody =>
           /\ p \in left'[lock'[p]]
           /\ pc'[lock'[p]] = (IF p \in torn' THEN "writing" ELSE "locked")
           /\ p \notin torn' => read'[lock'[p]] = file'[p]
    BY <1>3, <2>1, <2>2, <2>3, <2>4 DEF LockInv
  <2>7. \A p, r \in Paths : lock'[p] # Nobody /\ lock'[p] = lock'[r] => p = r
    BY <2>4 DEF LockInv
  <2> QED
    BY <2>5, <2>6, <2>7 DEF LockInv
<1>8. CASE WriteError(w) \/ Crash(w)
  <2>1. /\ file' = file /\ torn' = torn /\ read' = read
        /\ \A p \in Paths : lock'[p] = IF lock[p] = w THEN Nobody ELSE lock[p]
    BY <1>8 DEF WriteError, Crash
  <2>2. \A v \in Workers \ {w} : pc'[v] = pc[v] /\ left'[v] = left[v]
    BY <1>8 DEF WriteError, Crash, Raise, Discard, Goto, TypeOK
  <2>3. \A p \in Paths : lock'[p] # Nobody => lock'[p] = lock[p] /\ lock[p] \in Workers \ {w}
    BY <1>3, <2>1
  <2> QED
    BY <2>1, <2>2, <2>3 DEF LockInv
<1>9. CASE RunTest(w)
  <2>1. /\ UNCHANGED <<file, torn, lock, read>> /\ pc[w] = "tests"
        /\ \A v \in Workers \ {w} : pc'[v] = pc[v] /\ left'[v] = left[v]
    BY <1>9 DEF RunTest, AddFixture, Goto, TypeOK
  <2> QED
    BY <1>4, <2>1
<1>10. CASE OpenTorn(w)
  <2>1. /\ UNCHANGED <<file, torn, lock, read>> /\ pc[w] = "dump"
        /\ \A v \in Workers \ {w} : pc'[v] = pc[v] /\ left'[v] = left[v]
    BY <1>10 DEF OpenTorn, Raise, Discard, Goto, TypeOK
  <2> QED
    BY <1>4, <2>1
<1>11. CASE Teardown(w) \/ Finish(w) \/ Dumped(w) \/ Verify(w)
  <2>1. /\ UNCHANGED <<file, torn, lock, read>> /\ pc[w] \in {"tests", "dump", "verify"}
        /\ \A v \in Workers \ {w} : pc'[v] = pc[v] /\ left'[v] = left[v]
    BY <1>11 DEF Teardown, Finish, Dumped, Verify, Goto, TypeOK
  <2> QED
    BY <1>4, <2>1
<1> QED
  BY <1>5, <1>6, <1>7, <1>8, <1>9, <1>10, <1>11 DEF Step

------------------------------------------------------------------------------
(* What the collectors hold.                                                  *)

\* A step of a worker leaves the collectors of the others alone.
LEMMA Others ==
  ASSUME TypeOK, NEW w \in Workers, Step(w), NEW v \in Workers \ {w}
  PROVE  mem'[v] = mem[v] /\ pc'[v] = pc[v] /\ left'[v] = left[v] /\ scope'[v] = scope[v]
<1> USE DEF input, worker, disk, session, Goto, TypeOK
<1>1. CASE RunTest(w)
  BY <1>1 DEF RunTest, AddFixture
<1>2. CASE OpenTorn(w) \/ WriteError(w) \/ Crash(w)
  BY <1>2 DEF OpenTorn, WriteError, Crash, Raise, Discard
<1>3. CASE Teardown(w) \/ Finish(w) \/ Open(w) \/ Truncate(w)
  BY <1>3 DEF Teardown, Finish, Open, Truncate
<1>4. CASE Write(w) \/ Dumped(w) \/ Verify(w)
  BY <1>4 DEF Write, Dumped, Verify
<1> QED
  BY <1>1, <1>2, <1>3, <1>4 DEF Step

\* The part of MemInv on one worker.
Holds(w) ==
  /\ pc[w] \in {"verify", "done", "killed"} => mem[w] = Empty
  /\ pc[w] = "tests" /\ scope[w] = NoScope => mem[w] = Empty
  /\ pc[w] \in Dumping =>
       \A p \in Paths \ left[w] : \A t \in mem[w][p] : OnDisk(t, p)

\* A raise ends a dump with the collector as it is, or without one.
LEMMA RaiseHolds ==
  ASSUME TypeOK, NEW w \in Workers, Raise(w), flushing[w] => scope[w] # NoScope
  PROVE  Holds(w)'
<1>1. pc'[w] = "tests"
  BY DEF Raise, Goto, TypeOK
<1>2. scope'[w] = NoScope => mem'[w] = Empty
  BY DEF Raise, Discard, TypeOK
<1> QED
  BY <1>1, <1>2 DEF Holds, Dumping

LEMMA ScopeKept ==
  ASSUME TypeOK, ScopeInv, Next
  PROVE  ScopeInv'
<1> USE DEF input, worker, disk, session, ScopeInv, Dumping
<1>1. CASE EndSession
  BY <1>1 DEF EndSession
<1> SUFFICES ASSUME NEW w \in Workers, Step(w) PROVE ScopeInv'
  BY <1>1 DEF Next
<1>2. SUFFICES pc'[w] \in Dumping => scope'[w] # NoScope
  BY Others
<1>3. CASE RunTest(w)
  BY <1>3 DEF RunTest, ScopeOf, NoScope, TypeOK
<1>4. CASE OpenTorn(w) \/ WriteError(w) \/ Crash(w)
  BY <1>4 DEF OpenTorn, WriteError, Crash, Raise, Goto, TypeOK
<1>5. CASE Teardown(w) \/ Finish(w) \/ Open(w) \/ Truncate(w) \/ Write(w)
  BY <1>5 DEF Teardown, Finish, Open, Truncate, Write, Goto, TypeOK
<1>6. CASE Dumped(w) \/ Verify(w)
  BY <1>6 DEF Dumped, Verify, Goto, TypeOK
<1> QED
  BY <1>3, <1>4, <1>5, <1>6 DEF Step

LEMMA MemKept ==
  ASSUME TypeOK, LockInv, ScopeInv, MemInv, Next
  PROVE  MemInv'
<1> USE DEF input, worker, disk, session
<1>1. CASE EndSession
  BY <1>1 DEF EndSession, MemInv, OnDisk
<1> SUFFICES ASSUME NEW w \in Workers, Step(w) PROVE MemInv'
  BY <1>1 DEF Next
<1>2. \A p \in Paths : \A t : OnDisk(t, p) => OnDisk(t, p)'
  BY DiskKept
<1>3. ASSUME NEW v \in Workers \ {w} PROVE Holds(v)'
  <2>1. Holds(v)
    BY DEF MemInv, Holds
  <2>2. mem'[v] = mem[v] /\ pc'[v] = pc[v] /\ left'[v] = left[v] /\ scope'[v] = scope[v]
    BY Others
  <2> QED
    BY <1>2, <2>1, <2>2 DEF Holds
<1>4. SUFFICES Holds(w)'
  BY <1>3 DEF MemInv, Holds
<1>5. Holds(w) /\ (pc[w] \in Dumping => scope[w] # NoScope)
  BY DEF MemInv, Holds, ScopeInv
<1>6. ASSUME UNCHANGED <<mem, left, scope>>, pc[w] \in Dumping, pc'[w] \in Dumping
      PROVE  Holds(w)'
  BY <1>2, <1>5, <1>6 DEF Holds, Dumping
<1>7. CASE RunTest(w)
  <2>1. PICK t \in Tests : /\ scope' = [scope EXCEPT ![w] = ScopeOf(t)]
                           /\ AddFixture(w, t)
    BY <1>7 DEF RunTest, TypeOK
  <2>2. scope'[w] # NoScope
    BY <2>1 DEF TypeOK, ScopeOf, NoScope
  <2>3. PICK f : /\ mem' = [mem EXCEPT ![w] = f]
                 /\ \/ UNCHANGED <<left, flushing, pc>>
                    \/ left' = [left EXCEPT ![w] = Keys(f)] /\ pc' = [pc EXCEPT ![w] = "dump"]
    BY <2>1 DEF AddFixture, Goto
  <2>4. pc[w] = "tests" /\ mem'[w] = f
    BY <1>7, <2>3 DEF RunTest, TypeOK
  <2>5. CASE UNCHANGED <<left, flushing, pc>>
    BY <2>2, <2>4, <2>5 DEF Holds, Dumping
  <2>6. CASE left' = [left EXCEPT ![w] = Keys(f)] /\ pc' = [pc EXCEPT ![w] = "dump"]
    <3>1. left'[w] = Keys(f) /\ pc'[w] = "dump"
      BY <2>6 DEF TypeOK
    <3>2. \A p \in Paths \ Keys(f) : f[p] = {}
      BY DEF Keys
    <3> QED
      BY <2>4, <3>1, <3>2 DEF Holds
  <2> QED
    BY <2>3, <2>5, <2>6
<1>8. CASE Teardown(w)
  <2>1. left'[w] = Keys(mem[w]) /\ pc'[w] = "dump" /\ mem' = mem
    BY <1>8 DEF Teardown, Goto, TypeOK
  <2>2. \A p \in Paths \ Keys(mem[w]) : mem[w][p] = {}
    BY DEF Keys
  <2> QED
    BY <2>1, <2>2 DEF Holds
<1>9. CASE Finish(w)
  <2>1. pc[w] = "tests" /\ scope[w] = NoScope /\ pc'[w] = "done" /\ mem' = mem
    BY <1>9 DEF Finish, Goto, TypeOK
  <2> QED
    BY <1>5, <2>1 DEF Holds, Dumping
<1>10. CASE Open(w) \/ Truncate(w)
  <2>1. UNCHANGED <<mem, left, scope>> /\ pc[w] \in Dumping /\ pc'[w] \in Dumping
    BY <1>10 DEF Open, Truncate, Goto, TypeOK, Dumping
  <2> QED
    BY <1>6, <2>1
<1>11. CASE OpenTorn(w) \/ WriteError(w)
  <2>1. Raise(w) /\ pc[w] \in Dumping
    BY <1>11 DEF OpenTorn, WriteError, Dumping
  <2> QED
    BY <1>5, <2>1, RaiseHolds
<1>12. CASE Write(w)
  <2>1. PICK q \in Paths : /\ file' = [file EXCEPT ![q] = read[w] \union mem[w][q]]
                           /\ left' = [left EXCEPT ![w] = @ \ {q}]
    BY <1>12 DEF Write
  <2>2. pc[w] = "writing" /\ pc'[w] = "dump" /\ mem' = mem
    BY <1>12 DEF Write, Goto, TypeOK
  <2>3. file'[q] = read[w] \union mem[w][q] /\ left'[w] = left[w] \ {q}
    BY <2>1 DEF TypeOK
  <2>4. \A t \in mem[w][q] : OnDisk(t, q)'
    BY <2>3 DEF OnDisk
  <2>5. \A p \in Paths \ left[w] : \A t \in mem[w][p] : OnDisk(t, p)'
    BY <1>2, <1>5, <2>2 DEF Holds, Dumping
  <2>6. \A p \in Paths \ left'[w] : \A t \in mem'[w][p] : OnDisk(t, p)'
    BY <2>2, <2>3, <2>4, <2>5
  <2> QED
    BY <2>2, <2>6 DEF Holds
<1>13. CASE Dumped(w) \/ Crash(w)
  <2>1. mem'[w] = Empty /\ pc'[w] \in {"tests", "verify", "killed"}
    BY <1>13 DEF Dumped, Crash, Discard, Goto, TypeOK
  <2> QED
    BY <2>1 DEF Holds, Dumping
<1>14. CASE Verify(w)
  <2>1. mem'[w] = mem[w] /\ pc[w] = "verify" /\ pc'[w] = "tests"
    BY <1>14 DEF Verify, Goto, TypeOK
  <2> QED
    BY <1>5, <2>1 DEF Holds, Dumping
<1> QED
  BY <1>7, <1>8, <1>9, <1>10, <1>11, <1>12, <1>13, <1>14 DEF Step

------------------------------------------------------------------------------
(* Where the tests are.                                                       *)

\* What a discarded collector held is lost or on disk.
LEMMA DiscardWhere ==
  ASSUME TypeOK, MemInv, NEW w \in Workers, Discard(w),
         NEW p \in Paths, NEW t \in mem[w][p]
  PROVE  t \in lost' \/ OnDisk(t, p)
<1>1. CASE p \in IF pc[w] \in Dumping THEN left[w] ELSE Paths
  BY <1>1 DEF Discard
<1>2. CASE pc[w] \in Dumping /\ p \notin left[w]
  BY <1>2 DEF MemInv
<1> QED
  BY <1>1, <1>2

LEMMA SingleKept == ASSUME Next PROVE single' = single
<1> USE DEF input
<1>1. ASSUME NEW w \in Workers, Step(w) PROVE single' = single
  BY <1>1 DEF Step, RunTest, Teardown, Finish, Open, OpenTorn, Truncate, Write, Dumped, Verify,
              WriteError, Crash
<1> QED
  BY <1>1 DEF Next, EndSession

LEMMA WhereKept ==
  ASSUME TypeOK, LockInv, MemInv, Where, Next
  PROVE  Where'
<1> USE DEF input, worker, disk, session
<1>1. CASE EndSession
  BY <1>1, PathSame DEF EndSession, Where, OnDisk
<1> SUFFICES ASSUME NEW w \in Workers, Step(w), NEW t \in Tests
             PROVE  \/ t \in todo' \/ t \in lost'
                    \/ \E v \in Workers : t \in mem'[v][Path(t)]
                    \/ OnDisk(t, Path(t))'
  BY <1>1, SingleKept, PathSame DEF Next, Where, OnDisk
<1>2. PICK p \in Paths : p = Path(t)
  BY PathType
<1>3. OnDisk(t, p) => OnDisk(t, p)'
  BY DiskKept
<1>4. OnDisk(t, p) => OnDisk(t, Path(t))'
  BY <1>2, <1>3, SingleKept, PathSame DEF OnDisk
<1>5. lost \subseteq lost'
  BY DEF Step, RunTest, Teardown, Finish, Open, OpenTorn, Truncate, Write, Dumped, Verify,
         WriteError, Crash, Raise, Discard
<1>6. CASE OnDisk(t, p) \/ t \in lost
  BY <1>4, <1>5, <1>6
<1>7. CASE t \in todo
  <2>1. CASE t \in todo'
    BY <2>1
  <2>2. CASE t \notin todo'
    <3>1. RunTest(w)
      BY <1>7, <2>2 DEF Step, Teardown, Finish, Open, OpenTorn, Truncate, Write, Dumped, Verify,
                        WriteError, Crash
    <3>2. AddFixture(w, t)
      BY <1>7, <2>2, <3>1 DEF RunTest
    <3>3. mem'[w] = [mem[w] EXCEPT ![p] = @ \union {t}]
      BY <1>2, <3>2 DEF AddFixture, TypeOK
    <3>4. t \in mem'[w][p]
      BY <3>3 DEF TypeOK
    <3> QED
      BY <1>2, <3>4
  <2> QED
    BY <2>1, <2>2
<1>8. ASSUME NEW v \in Workers, t \in mem[v][p]
      PROVE  t \in lost' \/ t \in mem'[v][p] \/ OnDisk(t, p)
  <2>1. CASE v # w
    BY <1>8, <2>1, Others
  <2>2. ASSUME v = w, Discard(w) PROVE t \in lost' \/ OnDisk(t, p)
    BY <1>8, <2>2, DiscardWhere
  <2>3. ASSUME v = w, RunTest(w) PROVE t \in mem'[v][p]
    <3>1. PICK u \in Tests : AddFixture(w, u)
      BY <2>3 DEF RunTest, TypeOK
    <3>2. mem'[w] = [mem[w] EXCEPT ![Path(u)] = @ \union {u}]
      BY <3>1 DEF AddFixture, TypeOK
    <3> QED
      BY <1>8, <2>3, <3>2 DEF TypeOK
  <2>4. ASSUME v = w, Dumped(w) PROVE OnDisk(t, p)
    <3>1. pc[w] = "dump" /\ left[w] = {}
      BY <2>4 DEF Dumped
    <3> QED
      BY <1>8, <2>4, <3>1 DEF MemInv, Dumping
  <2>5. mem' = mem \/ Discard(w) \/ RunTest(w) \/ Dumped(w)
    <3>1. CASE OpenTorn(w) \/ WriteError(w) \/ Crash(w)
      BY <3>1 DEF OpenTorn, WriteError, Crash, Raise
    <3>2. CASE Teardown(w) \/ Finish(w) \/ Open(w) \/ Truncate(w) \/ Write(w) \/ Verify(w)
      BY <3>2 DEF Teardown, Finish, Open, Truncate, Write, Verify
    <3> QED
      BY <3>1, <3>2 DEF Step
  <2> QED
    BY <1>8, <2>1, <2>2, <2>3, <2>4, <2>5
<1>9. CASE \E v \in Workers : t \in mem[v][p]
  BY <1>2, <1>4, <1>8, <1>9
<1> QED
  BY <1>2, <1>6, <1>7, <1>9 DEF Where

------------------------------------------------------------------------------
(* Errors, flushes and the end.                                               *)

LEMMA ErrorKept ==
  ASSUME TypeOK, LockInv, ErrorInv, Next
  PROVE  ErrorInv'
<1> USE DEF input, worker, disk, session
<1>1. CASE EndSession
  BY <1>1 DEF EndSession, ErrorInv
<1> SUFFICES ASSUME NEW w \in Workers, Step(w) PROVE ErrorInv'
  BY <1>1 DEF Next
<1>2. w # Nobody
  BY CollectorAssumption
<1>3. CASE OpenTorn(w) \/ WriteError(w) \/ Crash(w)
  BY <1>3 DEF OpenTorn, WriteError, Crash, Raise, ErrorInv
<1>4. CASE RunTest(w) \/ Teardown(w) \/ Finish(w) \/ Dumped(w) \/ Verify(w)
  BY <1>4 DEF RunTest, Teardown, Finish, Dumped, Verify, ErrorInv
<1>5. CASE Open(w)
  <2>1. PICK q \in Paths : lock' = [lock EXCEPT ![q] = w]
    BY <1>5 DEF Open, TypeOK
  <2>2. torn' = torn /\ errors' = errors /\ lost' = lost /\ torn \subseteq Paths
    BY <1>5 DEF Open, TypeOK
  <2> QED
    BY <1>2, <2>1, <2>2 DEF ErrorInv, TypeOK
<1>6. CASE Truncate(w)
  BY <1>2, <1>6 DEF Truncate, ErrorInv
<1>7. CASE Write(w)
  <2>1. PICK q \in Paths : torn' = torn \ {q} /\ lock' = [lock EXCEPT ![q] = Nobody]
    BY <1>7 DEF Write
  <2>2. errors' = errors /\ lost' = lost /\ torn \subseteq Paths
    BY <1>7 DEF Write, TypeOK
  <2> QED
    BY <2>1, <2>2 DEF ErrorInv, TypeOK
<1> QED
  BY <1>3, <1>4, <1>5, <1>6, <1>7 DEF Step

LEMMA EndKept ==
  ASSUME TypeOK, EndInv, Next
  PROVE  EndInv'
<1> USE DEF input, worker, disk, session
<1>1. CASE EndSession
  BY <1>1 DEF EndSession, EndInv
<1> SUFFICES ASSUME NEW w \in Workers, Step(w) PROVE EndInv'
  BY <1>1 DEF Next
<1>2. pc[w] \notin {"done", "killed"} /\ phase' = phase
  BY DEF Step, RunTest, Teardown, Finish, Open, OpenTorn, Truncate, Write, Dumped, Verify,
         WriteError, Crash
<1> QED
  BY <1>2 DEF EndInv

\* A collector without fixtures has no files; any has finitely many.
LEMMA KeysFinite ==
  ASSUME NEW f PROVE Cardinality(Keys(f)) \in Nat
<1> DEFINE A == {<<FunctionOf[t], t>> : t \in Tests}
           B == {<<FunctionOf[t]>> : t \in Tests}
<1>1. IsFiniteSet(A)
  <2> DEFINE h == [t \in Tests |-> <<FunctionOf[t], t>>]
  <2>1. h \in Surjection(Tests, A)
    BY DEF Surjection
  <2> QED
    BY <2>1, CollectorAssumption, FS_Surjection
<1>2. IsFiniteSet(B)
  <2> DEFINE h == [t \in Tests |-> <<FunctionOf[t]>>]
  <2>1. h \in Surjection(Tests, B)
    BY DEF Surjection
  <2> QED
    BY <2>1, CollectorAssumption, FS_Surjection
<1>3. IsFiniteSet(Paths)
  BY <1>1, <1>2, FS_Union DEF Paths
<1> QED
  BY <1>3, KeysType, FS_Subset, FS_CardinalityType

LEMMA EmptyKeys == Cardinality(Keys(Empty)) = 0
<1>1. Keys(Empty) = {}
  BY DEF Keys, Empty
<1> QED
  BY <1>1, FS_EmptySet

LEMMA FlushKept ==
  ASSUME TypeOK, MemInv, FlushedInTime, Next
  PROVE  FlushedInTime'
<1> USE DEF input, worker, disk, session
<1>1. CASE EndSession
  BY <1>1 DEF EndSession, FlushedInTime, Keys
<1> SUFFICES ASSUME NEW w \in Workers, Step(w), NEW v \in Workers,
                    pc'[v] = "tests", ~errors', FlushInterval > 0
             PROVE  Cardinality(Keys(mem'[v])) < FlushInterval
  BY <1>1 DEF Next, FlushedInTime, Keys
<1>2. ~errors
  BY DEF Step, RunTest, Teardown, Finish, Open, OpenTorn, Truncate, Write, Dumped, Verify,
         WriteError, Crash, Raise
<1>3. CASE v # w
  BY <1>2, <1>3, Others DEF FlushedInTime
<1>4. CASE v = w /\ RunTest(w)
  <2>1. PICK t \in Tests : AddFixture(w, t)
    BY <1>4 DEF RunTest, TypeOK
  <2>2. PICK f : /\ mem' = [mem EXCEPT ![w] = f]
                 /\ Cardinality(Keys(f)) >= FlushInterval => pc' = [pc EXCEPT ![w] = "dump"]
    BY <2>1 DEF AddFixture, Goto
  <2>3. mem'[w] = f /\ ~ (Cardinality(Keys(f)) >= FlushInterval)
    BY <1>4, <2>2 DEF TypeOK
  <2>4. Cardinality(Keys(f)) \in Nat /\ FlushInterval \in Nat
    BY KeysFinite, CollectorAssumption
  <2>5. Cardinality(Keys(f)) < FlushInterval
    BY <2>3, <2>4
  <2> QED
    BY <1>4, <2>3, <2>5
<1>5. CASE v = w /\ (Dumped(w) \/ Verify(w))
  <2>1. mem'[w] = Empty
    BY <1>5 DEF Dumped, Verify, TypeOK, MemInv
  <2> QED
    BY <1>5, <2>1, EmptyKeys, CollectorAssumption
<1>6. CASE v = w /\ (OpenTorn(w) \/ WriteError(w) \/ Crash(w))
  BY <1>6 DEF OpenTorn, WriteError, Crash, Raise
<1>7. CASE v = w /\ (Teardown(w) \/ Finish(w) \/ Open(w) \/ Truncate(w) \/ Write(w))
  <2>1. pc'[w] # "tests"
    BY <1>7 DEF Teardown, Finish, Open, Truncate, Write, Goto, TypeOK
  <2> QED
    BY <1>7, <2>1
<1> QED
  BY <1>3, <1>4, <1>5, <1>6, <1>7 DEF Step

------------------------------------------------------------------------------
(* The theorems.                                                              *)

LEMMA InitInv == ASSUME Init PROVE IInv
<1>1. TypeOK
  BY InitType
<1>2. LockInv
  <2>1. (\A p \in Paths : lock[p] = Nobody) /\ torn = {}
    BY DEF Init
  <2> QED
    BY <2>1 DEF LockInv
<1>3. ScopeInv /\ MemInv
  BY DEF Init, ScopeInv, MemInv, Dumping
<1>4. Where /\ ErrorInv /\ EndInv
  BY DEF Init, Where, ErrorInv, EndInv
<1>5. FlushedInTime
  BY EmptyKeys, CollectorAssumption DEF Init, FlushedInTime
<1> QED
  BY <1>1, <1>2, <1>3, <1>4, <1>5 DEF IInv

LEMMA StepInv == ASSUME IInv, [Next]_vars PROVE IInv'
<1>1. CASE Next
  BY <1>1, NextType, LockKept, ScopeKept, MemKept, WhereKept, ErrorKept, EndKept, FlushKept
     DEF IInv
<1>2. CASE UNCHANGED vars
  <2>1. TypeOK' /\ LockInv' /\ ScopeInv'
    BY <1>2 DEF vars, input, worker, disk, session, IInv, TypeOK, LockInv, ScopeInv
  <2>2. MemInv'
    BY <1>2 DEF vars, worker, disk, IInv, MemInv, OnDisk
  <2>3. Where'
    BY <1>2, PathSame DEF vars, input, worker, disk, session, IInv, Where, OnDisk
  <2>4. ErrorInv' /\ EndInv' /\ FlushedInTime'
    BY <1>2 DEF vars, worker, disk, session, IInv, ErrorInv, EndInv, FlushedInTime, Keys
  <2> QED
    BY <2>1, <2>2, <2>3, <2>4 DEF IInv
<1> QED
  BY <1>1, <1>2

\* The inductive invariant holds of every run of the session.
THEOREM Invariance == Spec => []IInv
  BY InitInv, StepInv, PTL DEF Spec

\* Every variable keeps its type.
THEOREM TypeCorrect == Spec => []TypeOK
<1>1. IInv => TypeOK
  BY DEF IInv
<1> QED
  BY <1>1, Invariance, PTL

\* When the workers are done, a test is waiting, lost, or on disk.
LEMMA AtTheEnd ==
  ASSUME IInv, phase # "filling"
  PROVE  /\ \A p \in Paths : lock[p] = Nobody
         /\ \A t \in Tests \ (todo \union lost) : t \in file[Path(t)] \/ Path(t) \in torn
<1>1. \A w \in Workers : pc[w] \in {"done", "killed"}
  BY DEF IInv, EndInv
<1>2. ASSUME NEW p \in Paths PROVE lock[p] = Nobody
  BY <1>1 DEF IInv, LockInv, TypeOK
<1>3. \A w \in Workers, p \in Paths : mem[w][p] = {}
  BY <1>1 DEF IInv, MemInv, Empty
<1>4. TypeOK /\ Where
  BY DEF IInv
<1>5. ASSUME NEW t \in Tests \ (todo \union lost) PROVE OnDisk(t, Path(t))
  BY <1>3, <1>4, PathType DEF Where
<1> QED
  BY <1>2, <1>4, <1>5, PathType DEF OnDisk

\* Whoever fails, a test that ran and was not lost with its collector is in its file at the
\* end, unless the file is torn (dump_fixtures and collect_into_file).
THEOREM Survival == Spec => []OthersSurvive
<1>1. IInv => OthersSurvive
  BY AtTheEnd DEF OthersSurvive
<1> QED
  BY <1>1, Invariance, PTL

\* A session without an error has every test in its file and in the index
\* (pytest_sessionfinish).
THEOREM Completeness == Spec => []Complete
<1>1. ASSUME IInv, phase # "filling", ~errors, todo = {}
      PROVE  (\A t \in Tests : t \in file[Path(t)]) /\ phase = "indexed" /\ index = Tests
  <2>1. TypeOK /\ lost = {} /\ EndInv
    BY <1>1 DEF IInv, ErrorInv
  <2>2. torn = {}
    BY <1>1, <2>1, AtTheEnd DEF IInv, ErrorInv, TypeOK
  <2>3. \A t \in Tests : t \in file[Path(t)]
    BY <1>1, <2>1, <2>2, AtTheEnd
  <2>4. phase = "indexed" /\ index = UNION {file[p] : p \in Paths}
    BY <1>1, <2>1, <2>2 DEF EndInv, TypeOK
  <2>5. UNION {file[p] : p \in Paths} \subseteq Tests
    BY <2>1 DEF TypeOK
  <2>6. Tests \subseteq UNION {file[p] : p \in Paths}
    BY <2>1, <2>3, PathType
  <2> QED
    BY <2>3, <2>4, <2>5, <2>6
<1>2. IInv => Complete
  BY <1>1 DEF Complete
<1> QED
  BY <1>2, Invariance, PTL

\* A collector that goes on with its tests holds fewer files than the interval, as long as
\* no error was reported (add_fixture).
THEOREM Flushing == Spec => []FlushedInTime
<1>1. IInv => FlushedInTime
  BY DEF IInv
<1> QED
  BY <1>1, Invariance, PTL

------------------------------------------------------------------------------
(* Forks.                                                                     *)

\* What a block falls in is a fork of the table, and blocks never go back.
LEMMA ForkClass ==
  ASSUME NEW f \in Forks_, NEW n \in Int, NEW t \in Int
  PROVE  \E g \in ALL_FORKS : fork_at(Fork(f), n, t) = Class[g]
<1>1. CASE f \in ALL_FORKS
  BY <1>1 DEF Fork, fork_at
<1>2. CASE f \notin ALL_FORKS
  <2>1. f \in ALL_TRANSITION_FORKS
    BY <1>2 DEF Forks_
  <2>2. Transitions[f].to \in ALL_FORKS /\ Transitions[f].from \in ALL_FORKS
    BY <2>1, LineageAssumption
  <2> QED
    BY <1>2, <2>2 DEF Fork, fork_at
<1> QED
  BY <1>1, <1>2

LEMMA ForkAdvances ==
  ASSUME NEW f \in Forks_, NEW n \in Int, NEW t \in Int, NEW m \in Int, NEW u \in Int, n <= m, t <= u
  PROVE  fork_at(Fork(f), n, t).ancestors \subseteq fork_at(Fork(f), m, u).ancestors
<1>1. CASE f \in ALL_FORKS
  BY <1>1 DEF Fork, fork_at
<1>2. CASE f \notin ALL_FORKS
  <2>1. f \in ALL_TRANSITION_FORKS
    BY <1>2 DEF Forks_
  <2> DEFINE from == Transitions[f].from
             to == Transitions[f].to
             o == Fork(f)
  <2>2. /\ to \in ALL_FORKS /\ from \in Class[to].ancestors
        /\ Transitions[f].at_block \in Int /\ Transitions[f].at_timestamp \in Int
    BY <2>1, LineageAssumption
  <2>3. Class[from].ancestors \subseteq Class[to].ancestors
    BY <2>2, LineageAssumption
  <2>4. /\ o.from = Class[from] /\ o.to = Class[to]
        /\ o.at_block = Transitions[f].at_block /\ o.at_timestamp = Transitions[f].at_timestamp
    BY <1>2 DEF Fork
  <2> HIDE DEF from, to, o
  <2>5. Reached(o, n, t) => Reached(o, m, u)
    BY <2>2, <2>4 DEF Reached
  <2>6. fork_at(o, n, t).ancestors \subseteq fork_at(o, m, u).ancestors
    BY <2>3, <2>4, <2>5 DEF fork_at
  <2> QED
    BY <2>6 DEF o
<1> QED
  BY <1>1, <1>2

\* make_transition_method: an abstract method answers as the fork the block falls in.
LEMMA AskedIsNow ==
  ASSUME NEW f \in Forks_, NEW n, NEW t, NEW m \in base_fork_abstract_methods, m \notin PreferredMethods
  PROVE  Asked(Fork(f), n, t)[m] = fork_at(Fork(f), n, t)[m]
<1>1. CASE f \in ALL_FORKS
  BY <1>1 DEF Fork, fork_at, Asked
<1>2. CASE f \notin ALL_FORKS
  <2> DEFINE from == Class[Transitions[f].from]
             to == Class[Transitions[f].to]
  <2>1. /\ Fork(f).before = Transitioned(from, to, from) /\ Fork(f).after = Transitioned(from, to, to)
        /\ Fork(f).from = from /\ Fork(f).to = to
    BY <1>2 DEF Fork
  <2>2. Transitioned(from, to, from)[m] = from[m] /\ Transitioned(from, to, to)[m] = to[m]
    BY DEF Transitioned
  <2> HIDE DEF from, to
  <2> QED
    BY <2>1, <2>2 DEF fork_at, Asked
<1> QED
  BY <1>1, <1>2

LEMMA AskedFields ==
  ASSUME NEW f \in Forks_, NEW n, NEW t
  PROVE  LET a == Asked(Fork(f), n, t)
             c == fork_at(Fork(f), n, t)
         IN  /\ a.base_fee = c.base_fee /\ a.zero_difficulty = c.zero_difficulty
             /\ a.withdrawals = c.withdrawals /\ a.excess_blob_gas = c.excess_blob_gas
             /\ a.blob_gas_used = c.blob_gas_used /\ a.beacon_root = c.beacon_root
             /\ a.requests = c.requests /\ a.bal_hash = c.bal_hash
             /\ a.blob_gas_per_blob = c.blob_gas_per_blob
<1> DEFINE a == Asked(Fork(f), n, t)
           c == fork_at(Fork(f), n, t)
<1>1. \A m \in HeaderMethods \union BlobMethods : a[m] = c[m]
  <2> SUFFICES ASSUME NEW m \in HeaderMethods \union BlobMethods PROVE a[m] = c[m]
    OBVIOUS
  <2>1. m \in base_fork_abstract_methods
    BY DEF base_fork_abstract_methods
  <2>2. m \notin PreferredMethods
    BY DEF HeaderMethods, BlobMethods, PreferredMethods
  <2> QED
    BY <2>1, <2>2, AskedIsNow
<1> HIDE DEF a, c
<1>2. /\ a["base_fee"] = c["base_fee"] /\ a["zero_difficulty"] = c["zero_difficulty"]
      /\ a["withdrawals"] = c["withdrawals"] /\ a["excess_blob_gas"] = c["excess_blob_gas"]
      /\ a["blob_gas_used"] = c["blob_gas_used"] /\ a["beacon_root"] = c["beacon_root"]
      /\ a["requests"] = c["requests"] /\ a["bal_hash"] = c["bal_hash"]
      /\ a["blob_gas_per_blob"] = c["blob_gas_per_blob"]
  BY <1>1 DEF HeaderMethods, BlobMethods
<1> QED
  BY <1>2 DEF a, c

------------------------------------------------------------------------------
(* Fees.                                                                      *)

LEMMA TimesNat == ASSUME NEW a \in Nat, NEW b \in Nat PROVE a * b \in Nat
  OBVIOUS

LEMMA CostIsNat ==
  ASSUME NEW f \in ALL_FORKS, NEW tx \in Tx
  PROVE  transaction_intrinsic_cost(Class[f], tx) \in Nat
<1> DEFINE c == Class[f]
           g == c.gas
<1>1. /\ g.access_list_address \in Nat /\ g.access_list_storage \in Nat /\ g.initcode_word \in Nat
      /\ g.tx_data_zero \in Nat /\ g.tx_data_non_zero \in Nat /\ g.standard_token \in Nat
      /\ g.floor_token \in Nat /\ g.transaction \in Nat /\ g.transaction_create \in Nat
      /\ g.authorization \in Nat
  BY FeesAssumption DEF GasFields
<1>2. /\ tx.zeros \in Nat /\ tx.nonzeros \in Nat /\ tx.addresses \in Nat /\ tx.keys \in Nat
      /\ tx.authorizations \in Nat
  BY DEF Tx
<1> HIDE DEF c
<1>3. Tokens(tx) \in Nat
  BY <1>2 DEF Tokens
<1>4. calldata_gas(c, tx) \in Nat
  <2>1. tx.zeros * g.tx_data_zero \in Nat /\ tx.nonzeros * g.tx_data_non_zero \in Nat
        /\ Tokens(tx) * g.standard_token \in Nat
    BY <1>1, <1>2, <1>3, TimesNat
  <2> HIDE DEF g
  <2>2. g = c.gas
    BY DEF g
  <2> QED
    BY <2>1, <2>2 DEF calldata_gas, FrontierCalldata
<1>5. FrontierCost(c, tx) \in Nat
  <2>1. ceiling_division(tx.zeros + tx.nonzeros, 32) \in Nat
    BY <1>2 DEF ceiling_division
  <2>2. g.initcode_word * ceiling_division(tx.zeros + tx.nonzeros, 32) \in Nat
    BY <1>1, <2>1, TimesNat
  <2> QED
    BY <1>1, <1>4, <2>2 DEF FrontierCost
<1>6. HomesteadCreation(c, tx) \in Nat
  BY <1>1 DEF HomesteadCreation
<1>7. BerlinLists(c, tx) \in Nat
  <2>1. tx.addresses * g.access_list_address \in Nat /\ tx.keys * g.access_list_storage \in Nat
    BY <1>1, <1>2, TimesNat
  <2> QED
    BY <2>1 DEF BerlinLists
<1>8. PragueAuthorizations(c, tx) \in Nat
  <2>1. tx.authorizations * g.authorization \in Nat
    BY <1>1, <1>2, TimesNat
  <2> QED
    BY <2>1 DEF PragueAuthorizations
<1>9. transaction_data_floor_cost(c, tx) \in Nat
  <2>1. Tokens(tx) * g.floor_token \in Nat
    BY <1>1, <1>3, TimesNat
  <2> QED
    BY <1>1, <2>1 DEF transaction_data_floor_cost
<1>10. transaction_intrinsic_cost(c, tx) \in Nat
  <2> DEFINE a == FrontierCost(c, tx) + HomesteadCreation(c, tx) + BerlinLists(c, tx)
                  + PragueAuthorizations(c, tx)
  <2>1. a \in Nat
    BY <1>5, <1>6, <1>7, <1>8
  <2> HIDE DEF a
  <2>2. Larger(a, transaction_data_floor_cost(c, tx)) \in Nat
    BY <1>9, <2>1 DEF Larger
  <2> QED
    BY <2>2 DEF transaction_intrinsic_cost, a
<1> QED
  BY <1>10 DEF c

\* A part of the target is a part of the fee.
LEMMA DivBound ==
  ASSUME NEW fee \in Nat, NEW p \in Nat, p <= 50000 * fee
  PROVE  p \div 50000 \in Nat /\ (p \div 50000) \div 8 \in Nat /\ (p \div 50000) \div 8 <= fee \div 8
<1>1. p \div 50000 \in Nat /\ p \div 50000 <= fee
  OBVIOUS
<1> QED
  BY <1>1

Part(fee, g) == ((fee * g) \div 50000) \div 8

LEMMA PartOfFee ==
  ASSUME NEW fee \in Nat, NEW g \in Nat, g <= 50000
  PROVE  /\ Part(fee, g) \in Nat
         /\ Part(fee, g) <= fee \div 8
<1> DEFINE p == fee * g
<1>1. p \in Nat /\ p <= 50000 * fee
  OBVIOUS
<1> HIDE DEF p
<1>2. (p \div 50000) \div 8 \in Nat /\ (p \div 50000) \div 8 <= fee \div 8
  BY <1>1, DivBound
<1> QED
  BY <1>2 DEF p, Part

\* Base fees move by an eighth at most, against the gas left.
Moves(new, fee, used) ==
    /\ used <= 50000 => new <= fee /\ new >= fee - fee \div 8
    /\ used > 50000 /\ used <= GasLimit => new > fee /\ new <= fee + Larger(1, fee \div 8)

LEMMA BaseFeeMoves ==
  ASSUME NEW f \in ALL_FORKS, "London" \in Class[f].ancestors, NEW fee \in Nat, NEW used \in Nat
  PROVE  LET new == base_fee_per_gas(Class[f], fee, used, GasLimit)
         IN  new \in Nat /\ Moves(new, fee, used)
<1> DEFINE new == base_fee_per_gas(Class[f], fee, used, GasLimit)
           more == Part(fee, used - 50000)
           less == Part(fee, 50000 - used)
<1>1. Class[f].base_fee_elasticity_multiplier = 2 /\ Class[f].base_fee_max_change_denominator = 8
  BY FeesAssumption
<1>2. GasLimit = 100000 /\ GasLimit \div 2 = 50000
  BY DEF GasLimit
<1>3. new = IF used > 50000 THEN fee + Larger(more, 1) ELSE fee - less
  BY <1>1, <1>2 DEF base_fee_per_gas, Part
<1>4. fee \div 8 \in Nat /\ fee \div 8 <= fee
  OBVIOUS
<1>5. CASE used <= 50000
  <2>1. less \in Nat /\ less <= fee \div 8
    <3> DEFINE g == 50000 - used
    <3>1. g \in Nat /\ g <= 50000
      BY <1>5
    <3> HIDE DEF g
    <3>2. Part(fee, g) \in Nat /\ Part(fee, g) <= fee \div 8
      BY <3>1, PartOfFee
    <3> QED
      BY <3>2 DEF g
  <2> HIDE DEF less, more, new
  <2> QED
    BY <1>3, <1>4, <1>5, <2>1 DEF new, Moves
<1>6. CASE used > 50000
  <2>1. more \in Nat
    <3>1. fee * (used - 50000) \in Nat
      BY <1>6, TimesNat
    <3> QED
      BY <3>1 DEF Part
  <2>2. used <= GasLimit => more <= fee \div 8
    <3> DEFINE g == used - 50000
    <3>1. g \in Nat /\ (used <= GasLimit => g <= 50000)
      BY <1>2, <1>6
    <3> HIDE DEF g, more
    <3>2. ASSUME g <= 50000 PROVE Part(fee, g) \in Nat /\ Part(fee, g) <= fee \div 8
      <4>1. g \in Nat /\ g <= 50000
        BY <3>1, <3>2
      <4> QED
        BY <4>1, PartOfFee
    <3> QED
      BY <3>1, <3>2 DEF g, more
  <2> HIDE DEF less, more, new
  <2> QED
    BY <1>2, <1>3, <1>4, <1>6, <2>1, <2>2 DEF new, Larger, Moves
<1> QED
  BY <1>5, <1>6

LEMMA BaseFeeIsNat ==
  ASSUME NEW f \in ALL_FORKS, "London" \in Class[f].ancestors, NEW fee \in Nat, NEW used \in Nat
  PROVE  base_fee_per_gas(Class[f], fee, used, GasLimit) \in Nat
  BY BaseFeeMoves

LEMMA UnusedFee ==
  ASSUME NEW f \in ALL_FORKS, "London" \in Class[f].ancestors, NEW fee \in Nat
  PROVE  base_fee_per_gas(Class[f], fee, 0, GasLimit) = fee - fee \div 8
<1>1. Class[f].base_fee_elasticity_multiplier = 2 /\ Class[f].base_fee_max_change_denominator = 8
  BY FeesAssumption
<1>2. base_fee_per_gas(Class[f], fee, 0, GasLimit) = fee - Part(fee, 50000)
  BY <1>1 DEF base_fee_per_gas, Part, GasLimit
<1>3. Part(fee, 50000) \in Nat /\ fee \div 8 \in Nat /\ Part(fee, 50000) = fee \div 8
  BY DEF Part
<1> QED
  BY <1>2, <1>3

LEMMA ExcessIsNat ==
  ASSUME NEW f \in ALL_FORKS, "Cancun" \in Class[f].ancestors, NEW excess \in Nat, NEW used \in Nat, NEW fee
  PROVE  excess_blob_gas(Class[f], excess, used, fee) \in Nat
<1> DEFINE c == Class[f]
           max == c.max_blobs_per_block
           target == c.target_blobs_per_block
<1>1. max \in Nat /\ max > 0 /\ target \in Nat /\ target <= max /\ c.blob_gas_per_blob \in Nat
  BY FeesAssumption
<1>2. Target(c) \in Nat
  <2>1. target * c.blob_gas_per_blob \in Nat
    BY <1>1, TimesNat
  <2> QED
    BY <2>1 DEF Target
<1>3. (used * (max - target)) \div max \in Nat
  <2>1. used * (max - target) \in Nat
    <3>1. max - target \in Nat
      BY <1>1
    <3> QED
      BY <3>1, TimesNat
  <2> HIDE DEF max, target
  <2> QED
    BY <1>1, <2>1
<1> HIDE DEF c
<1>4. CancunExcess(c, excess, used) \in Nat
  BY <1>2 DEF CancunExcess
<1>5. excess_blob_gas(c, excess, used, fee) \in Nat
  BY <1>3, <1>4 DEF excess_blob_gas
<1> QED
  BY <1>5 DEF c

------------------------------------------------------------------------------
(* Environments.                                                              *)

Env == [number : Int, timestamp : Int, base_fee : Int, excess : Int, withdrawals : Int,
        beacon_root : Int, difficulty : Int, parent_base_fee : Int, parent_excess : Int,
        parent_blob_gas_used : Int, parent_gas_used : Int, parent_difficulty : Int,
        parent_timestamp : Int, latest : Int]

LEMMA Requirements ==
  ASSUME NEW e \in Env
  PROVE  LET c == At(e)
             r == set_fork_requirements(e)
         IN  /\ r.number = e.number /\ r.timestamp = e.timestamp
             /\ r.withdrawals = Or(e.withdrawals, If(c.withdrawals, 0))
             /\ r.base_fee = IF c.base_fee /\ e.base_fee = Missing /\ e.parent_base_fee = Missing THEN 7
                             ELSE e.base_fee
             /\ r.difficulty = IF c.zero_difficulty THEN 0
                               ELSE IF e.difficulty = Missing /\ e.parent_difficulty = Missing THEN 131072
                               ELSE e.difficulty
             /\ r.excess = IF c.excess_blob_gas /\ e.excess = Missing /\ e.parent_excess = Missing THEN 0
                           ELSE e.excess
             /\ r.beacon_root = Or(e.beacon_root, If(c.beacon_root, 0))
             /\ r.parent_base_fee = e.parent_base_fee /\ r.parent_excess = e.parent_excess
             /\ r.parent_blob_gas_used = e.parent_blob_gas_used /\ r.parent_gas_used = e.parent_gas_used
             /\ r.parent_difficulty = e.parent_difficulty
             /\ r.parent_timestamp = e.parent_timestamp /\ r.latest = e.latest
  BY DEF set_fork_requirements, Env

LEMMA RequirementsAreEnv ==
  ASSUME NEW e \in Env
  PROVE  set_fork_requirements(e) \in Env /\ set_fork_requirements(e).latest = e.latest
<1> DEFINE c == At(e)
           withdrawals == Or(e.withdrawals, If(c.withdrawals, 0))
           fee == IF c.base_fee /\ e.base_fee = Missing /\ e.parent_base_fee = Missing THEN 7
                  ELSE e.base_fee
           difficulty == IF c.zero_difficulty THEN 0
                         ELSE IF e.difficulty = Missing /\ e.parent_difficulty = Missing THEN 131072
                         ELSE e.difficulty
           excess == IF c.excess_blob_gas /\ e.excess = Missing /\ e.parent_excess = Missing THEN 0
                     ELSE e.excess
           root == Or(e.beacon_root, If(c.beacon_root, 0))
           r == [e EXCEPT !.withdrawals = withdrawals, !.base_fee = fee, !.difficulty = difficulty,
                          !.excess = excess, !.beacon_root = root]
<1>1. withdrawals \in Int /\ fee \in Int /\ difficulty \in Int /\ excess \in Int /\ root \in Int
  BY DEF Or, If, Env, Missing
<1>2. set_fork_requirements(e) = r
  BY DEF set_fork_requirements
<1> HIDE DEF withdrawals, fee, difficulty, excess, root
<1>3. r \in Env /\ r.latest = e.latest
  BY <1>1 DEF Env
<1> QED
  BY <1>2, <1>3

LEMMA NewEnvironment ==
  ASSUME NEW e \in Env, NEW b, b.number \in Optional, b.timestamp \in Optional, GivenFees(b)
  PROVE  LET r == set_environment(b, e)
         IN  /\ r \in Env
             /\ r.number = Or(b.number, e.latest + 1) /\ r.timestamp = Or(b.timestamp, e.parent_timestamp + 12)
             /\ r.base_fee = b.base_fee /\ r.excess = b.excess_blob_gas
             /\ r.withdrawals = Missing /\ r.beacon_root = Missing /\ r.difficulty = Missing
             /\ r.parent_base_fee = e.parent_base_fee /\ r.parent_excess = e.parent_excess
             /\ r.parent_blob_gas_used = e.parent_blob_gas_used /\ r.parent_gas_used = e.parent_gas_used
             /\ r.parent_difficulty = e.parent_difficulty
             /\ r.parent_timestamp = e.parent_timestamp /\ r.latest = e.latest
<1>1. /\ Or(b.number, e.latest + 1) \in Int /\ Or(b.timestamp, e.parent_timestamp + 12) \in Int
      /\ b.base_fee \in Int /\ b.excess_blob_gas \in Int /\ Missing \in Int
  BY DEF Or, Optional, GivenFees, Env, Missing
<1> QED
  BY <1>1 DEF set_environment, Env

------------------------------------------------------------------------------
(* Headers.                                                                   *)

IsHeader(h) ==
    /\ h.number \in Nat /\ h.timestamp \in Nat /\ h.gas_used \in Nat
    /\ h.base_fee \in Optional /\ h.excess \in Optional /\ h.blob_gas_used \in Optional
    /\ h.withdrawals \in Optional /\ h.beacon_root \in Optional /\ h.difficulty \in Nat
    /\ h.requests \in Optional /\ h.bal_hash \in Optional

\* e is the environment after the block of header p.
Follows(e, p) ==
    /\ e \in Env
    /\ e.parent_base_fee = p.base_fee /\ e.parent_excess = p.excess
    /\ e.parent_blob_gas_used = p.blob_gas_used /\ e.parent_gas_used = p.gas_used
    /\ e.parent_difficulty = p.difficulty /\ e.parent_timestamp = p.timestamp
    /\ e.latest = p.number

\* b is a block after it.
IsBlock(b) == b.number \in Optional /\ b.timestamp \in Optional /\ GivenFees(b) /\ b.tx \in Tx
Later(b, p) ==
    /\ b.number = Missing \/ b.number > p.number
    /\ b.timestamp = Missing \/ b.timestamp > p.timestamp

\* What the header of that block says, c the fork it falls in.
Says(c, p, b, h) ==
    /\ h.number = Or(b.number, p.number + 1) /\ h.timestamp = Or(b.timestamp, p.timestamp + 12)
    /\ h.base_fee = IF "London" \notin c.ancestors THEN Missing
                    ELSE IF b.base_fee # Missing THEN b.base_fee
                    ELSE IF p.base_fee = Missing THEN 7
                    ELSE base_fee_per_gas(c, p.base_fee, p.gas_used, GasLimit)
    /\ h.excess = IF "Cancun" \notin c.ancestors THEN Missing
                  ELSE IF b.excess_blob_gas # Missing THEN b.excess_blob_gas
                  ELSE IF p.excess = Missing THEN 0
                  ELSE excess_blob_gas(c, p.excess, p.blob_gas_used, p.base_fee)
    /\ h.blob_gas_used = If("Cancun" \in c.ancestors, b.tx.blobs * c.blob_gas_per_blob)
    /\ h.withdrawals = If("Shanghai" \in c.ancestors, 0)
    /\ h.beacon_root = If("Cancun" \in c.ancestors, 0)
    /\ h.difficulty = IF "Paris" \in c.ancestors THEN 0
                      ELSE IF p.difficulty = Missing THEN 131072 ELSE p.difficulty
    /\ h.gas_used = IF b.tx.type = Missing THEN 0 ELSE transaction_intrinsic_cost(c, b.tx)
    /\ h.requests = If("Prague" \in c.ancestors, 0)
    /\ h.bal_hash = If("Amsterdam" \in c.ancestors, 0)

LEMMA NewHeader ==
  ASSUME NEW f \in Forks_, fork = Fork(f), NEW p, NEW e0, Follows(e0, p), p.difficulty \in Int,
         NEW b, IsBlock(b), NEW e, e = set_fork_requirements(set_environment(b, e0)),
         HasFieldsFor(At(e), b)
  PROVE  LET h == Header(e, b.tx)
         IN  /\ \E g \in ALL_FORKS : ForkOf(h) = Class[g]
             /\ Says(ForkOf(h), p, b, h)
<1> DEFINE r == set_environment(b, e0)
           c == ForkOf(r)
           a == At(r)
<1>1. /\ r \in Env
      /\ r.number = Or(b.number, p.number + 1) /\ r.timestamp = Or(b.timestamp, p.timestamp + 12)
      /\ r.base_fee = b.base_fee /\ r.excess = b.excess_blob_gas
      /\ r.withdrawals = Missing /\ r.beacon_root = Missing /\ r.difficulty = Missing
      /\ r.parent_base_fee = p.base_fee /\ r.parent_excess = p.excess
      /\ r.parent_blob_gas_used = p.blob_gas_used /\ r.parent_gas_used = p.gas_used
      /\ r.parent_difficulty = p.difficulty
  BY NewEnvironment DEF Follows, IsBlock
<1> HIDE DEF r
<1>2. PICK g \in ALL_FORKS : c = Class[g]
  <2>1. r.number \in Int /\ r.timestamp \in Int
    BY <1>1 DEF Env
  <2> QED
    BY <2>1, ForkClass DEF ForkOf
<1>3. /\ a.base_fee = c.base_fee /\ a.zero_difficulty = c.zero_difficulty
      /\ a.withdrawals = c.withdrawals /\ a.excess_blob_gas = c.excess_blob_gas
      /\ a.beacon_root = c.beacon_root /\ a.blob_gas_per_blob = c.blob_gas_per_blob
  BY AskedFields DEF At, ForkOf
<1>4. /\ c.base_fee <=> "London" \in c.ancestors
      /\ c.zero_difficulty <=> "Paris" \in c.ancestors
      /\ c.withdrawals <=> "Shanghai" \in c.ancestors
      /\ c.excess_blob_gas <=> "Cancun" \in c.ancestors
      /\ c.beacon_root <=> "Cancun" \in c.ancestors
      /\ c.requests <=> "Prague" \in c.ancestors
      /\ c.bal_hash <=> "Amsterdam" \in c.ancestors
      /\ c.blob_gas_per_blob > 0 <=> "Cancun" \in c.ancestors
  BY <1>2, FieldsAssumption, FeesAssumption
<1>5. /\ e.number = r.number /\ e.timestamp = r.timestamp
      /\ e.withdrawals = Or(r.withdrawals, If(a.withdrawals, 0))
      /\ e.base_fee = IF a.base_fee /\ r.base_fee = Missing /\ r.parent_base_fee = Missing THEN 7
                      ELSE r.base_fee
      /\ e.difficulty = IF a.zero_difficulty THEN 0
                        ELSE IF r.difficulty = Missing /\ r.parent_difficulty = Missing THEN 131072
                        ELSE r.difficulty
      /\ e.excess = IF a.excess_blob_gas /\ r.excess = Missing /\ r.parent_excess = Missing THEN 0
                    ELSE r.excess
      /\ e.beacon_root = Or(r.beacon_root, If(a.beacon_root, 0))
      /\ e.parent_base_fee = r.parent_base_fee /\ e.parent_excess = r.parent_excess
      /\ e.parent_blob_gas_used = r.parent_blob_gas_used /\ e.parent_gas_used = r.parent_gas_used
      /\ e.parent_difficulty = r.parent_difficulty
  BY <1>1, Requirements DEF r
<1> DEFINE h == Header(e, b.tx)
<1>6. At(e) = a /\ ForkOf(e) = c /\ ForkOf(h) = c
  <2>1. h.number = e.number /\ h.timestamp = e.timestamp
    BY DEF Header
  <2> HIDE DEF h
  <2> QED
    BY <1>5, <2>1 DEF At, ForkOf
<1>7. /\ b.base_fee # Missing => c.base_fee
      /\ b.excess_blob_gas # Missing => c.excess_blob_gas
  BY <1>3, <1>6 DEF HasFieldsFor
<1>8. /\ h.number = e.number /\ h.timestamp = e.timestamp
      /\ h.base_fee = Or(e.base_fee, If(c.base_fee,
             IF e.base_fee # Missing THEN e.base_fee
             ELSE base_fee_per_gas(c, e.parent_base_fee, e.parent_gas_used, GasLimit)))
      /\ h.excess = Or(e.excess, If(c.excess_blob_gas,
             IF e.excess # Missing THEN e.excess
             ELSE excess_blob_gas(c, e.parent_excess, e.parent_blob_gas_used, e.parent_base_fee)))
      /\ h.blob_gas_used = If(a.blob_gas_per_blob > 0, b.tx.blobs * a.blob_gas_per_blob)
      /\ h.withdrawals = e.withdrawals /\ h.beacon_root = e.beacon_root
      /\ h.difficulty = Or(e.difficulty, Or(e.difficulty, e.parent_difficulty))
      /\ h.gas_used = IF b.tx.type = Missing THEN 0 ELSE transaction_intrinsic_cost(c, b.tx)
      /\ h.requests = If(c.requests, 0) /\ h.bal_hash = If(c.bal_hash, 0)
  BY ZenonT(60), <1>6 DEF Header, Evaluate
<1> HIDE DEF h, a, c
<1>9. h.number = Or(b.number, p.number + 1) /\ h.timestamp = Or(b.timestamp, p.timestamp + 12)
  BY <1>1, <1>5, <1>8
<1>10. h.base_fee = IF "London" \notin c.ancestors THEN Missing
                    ELSE IF b.base_fee # Missing THEN b.base_fee
                    ELSE IF p.base_fee = Missing THEN 7
                    ELSE base_fee_per_gas(c, p.base_fee, p.gas_used, GasLimit)
  BY <1>1, <1>3, <1>4, <1>5, <1>7, <1>8 DEF Or, If, Missing
<1>11. h.excess = IF "Cancun" \notin c.ancestors THEN Missing
                  ELSE IF b.excess_blob_gas # Missing THEN b.excess_blob_gas
                  ELSE IF p.excess = Missing THEN 0
                  ELSE excess_blob_gas(c, p.excess, p.blob_gas_used, p.base_fee)
  BY <1>1, <1>3, <1>4, <1>5, <1>7, <1>8 DEF Or, If, Missing
<1>12. h.blob_gas_used = If("Cancun" \in c.ancestors, b.tx.blobs * c.blob_gas_per_blob)
  BY <1>3, <1>4, <1>8 DEF If
<1>13. /\ h.withdrawals = If("Shanghai" \in c.ancestors, 0)
       /\ h.beacon_root = If("Cancun" \in c.ancestors, 0)
  BY <1>1, <1>3, <1>4, <1>5, <1>8 DEF If, Or
<1>14. h.difficulty = IF "Paris" \in c.ancestors THEN 0
                      ELSE IF p.difficulty = Missing THEN 131072 ELSE p.difficulty
  BY <1>1, <1>3, <1>4, <1>5, <1>8 DEF Or, Missing
<1>15. /\ h.requests = If("Prague" \in c.ancestors, 0)
       /\ h.bal_hash = If("Amsterdam" \in c.ancestors, 0)
  BY <1>4, <1>8 DEF If
<1>16. Says(c, p, b, h)
  BY <1>8, <1>9, <1>10, <1>11, <1>12, <1>13, <1>14, <1>15 DEF Says
<1> QED
  BY <1>2, <1>6, <1>16 DEF h

\* What HeaderFits says of one header.
Fits(h) ==
    /\ h.base_fee # Missing <=> Since(h, "London")
    /\ h.difficulty = 0 <=> Since(h, "Paris")
    /\ h.withdrawals # Missing <=> Since(h, "Shanghai")
    /\ {h.excess, h.blob_gas_used, h.beacon_root} = {Missing} \/ Since(h, "Cancun")
    /\ Since(h, "Cancun") => Missing \notin {h.excess, h.blob_gas_used, h.beacon_root}
    /\ h.requests # Missing <=> Since(h, "Prague")
    /\ h.bal_hash # Missing <=> Since(h, "Amsterdam")

LEMMA BlockFits ==
  ASSUME NEW f \in Forks_, fork = Fork(f), NEW p, IsHeader(p), Fits(p), NEW b, IsBlock(b), Later(b, p),
         NEW h, NEW g \in ALL_FORKS, ForkOf(h) = Class[g], Says(Class[g], p, b, h)
  PROVE  /\ IsHeader(h) /\ Fits(h) /\ h.number > p.number /\ h.timestamp > p.timestamp
         /\ ForkOf(p).ancestors \subseteq ForkOf(h).ancestors
<1> DEFINE c == Class[g]
<1>1. /\ h.number \in Nat /\ h.timestamp \in Nat
      /\ h.number > p.number /\ h.timestamp > p.timestamp
  BY DEF Says, Or, Missing, Later, IsBlock, Optional, IsHeader
<1>2. ForkOf(p).ancestors \subseteq c.ancestors
  BY <1>1, ForkAdvances DEF ForkOf, IsHeader
<1>3. b.tx \in Tx /\ b.base_fee \in Optional /\ b.excess_blob_gas \in Optional
  BY DEF IsBlock, GivenFees
<1>4. h.base_fee \in Optional /\ (h.base_fee # Missing <=> "London" \in c.ancestors)
  <2>1. CASE "London" \notin c.ancestors
    BY <2>1 DEF Says, Optional
  <2>2. CASE "London" \in c.ancestors /\ b.base_fee # Missing
    BY <1>3, <2>2 DEF Says
  <2>3. CASE "London" \in c.ancestors /\ b.base_fee = Missing /\ p.base_fee = Missing
    BY <2>3 DEF Says, Optional, Missing
  <2>4. CASE "London" \in c.ancestors /\ b.base_fee = Missing /\ p.base_fee # Missing
    <3>1. p.base_fee \in Nat /\ p.gas_used \in Nat
      BY <2>4 DEF IsHeader, Optional
    <3>2. base_fee_per_gas(c, p.base_fee, p.gas_used, GasLimit) \in Nat
      BY <2>4, <3>1, BaseFeeIsNat
    <3>3. h.base_fee = base_fee_per_gas(c, p.base_fee, p.gas_used, GasLimit)
      BY <2>4 DEF Says
    <3> QED
      BY <2>4, <3>2, <3>3 DEF Optional, Missing
  <2> QED
    BY <2>1, <2>2, <2>3, <2>4
<1>5. h.excess \in Optional /\ (h.excess # Missing <=> "Cancun" \in c.ancestors)
  <2>1. CASE "Cancun" \notin c.ancestors
    BY <2>1 DEF Says, Optional
  <2>2. CASE "Cancun" \in c.ancestors /\ b.excess_blob_gas # Missing
    BY <1>3, <2>2 DEF Says
  <2>3. CASE "Cancun" \in c.ancestors /\ b.excess_blob_gas = Missing /\ p.excess = Missing
    BY <2>3 DEF Says, Optional, Missing
  <2>4. CASE "Cancun" \in c.ancestors /\ b.excess_blob_gas = Missing /\ p.excess # Missing
    <3>1. p.excess \in Nat /\ p.blob_gas_used \in Nat
      BY <2>4 DEF IsHeader, Optional, Fits
    <3>2. excess_blob_gas(c, p.excess, p.blob_gas_used, p.base_fee) \in Nat
      BY <2>4, <3>1, ExcessIsNat
    <3>3. h.excess = excess_blob_gas(c, p.excess, p.blob_gas_used, p.base_fee)
      BY <2>4 DEF Says
    <3> QED
      BY <2>4, <3>2, <3>3 DEF Optional, Missing
  <2> QED
    BY <2>1, <2>2, <2>3, <2>4
<1>6. h.blob_gas_used \in Optional /\ (h.blob_gas_used # Missing <=> "Cancun" \in c.ancestors)
  <2>1. b.tx.blobs * c.blob_gas_per_blob \in Nat
    BY <1>3, FeesAssumption, TimesNat DEF Tx
  <2> QED
    BY <2>1 DEF Says, If, Optional, Missing
<1>7. /\ h.withdrawals \in Optional /\ (h.withdrawals # Missing <=> "Shanghai" \in c.ancestors)
      /\ h.beacon_root \in Optional /\ (h.beacon_root # Missing <=> "Cancun" \in c.ancestors)
      /\ h.requests \in Optional /\ (h.requests # Missing <=> "Prague" \in c.ancestors)
      /\ h.bal_hash \in Optional /\ (h.bal_hash # Missing <=> "Amsterdam" \in c.ancestors)
  BY DEF Says, If, Optional, Missing
<1>8. h.difficulty \in Nat /\ (h.difficulty = 0 <=> "Paris" \in c.ancestors)
  <2>1. p.difficulty \in Nat /\ (p.difficulty = 0 => "Paris" \in c.ancestors)
    BY <1>2 DEF IsHeader, Fits, Since
  <2> QED
    BY <2>1 DEF Says, Missing
<1>9. h.gas_used \in Nat
  <2>1. transaction_intrinsic_cost(c, b.tx) \in Nat
    BY <1>3, CostIsNat
  <2> QED
    BY <2>1 DEF Says
<1>10. IsHeader(h)
  BY <1>1, <1>4, <1>5, <1>6, <1>7, <1>8, <1>9 DEF IsHeader
<1>11. Fits(h)
  <2>1. ForkOf(h) = c
    OBVIOUS
  <2> HIDE DEF c
  <2> QED
    BY <1>4, <1>5, <1>6, <1>7, <1>8, <2>1 DEF Fits, Since
<1> QED
  BY <1>1, <1>2, <1>10, <1>11

LEMMA EnvironmentIsEnv ==
  /\ Environment \in Env
  /\ Environment.withdrawals = Missing /\ Environment.beacon_root = Missing
  /\ Environment.difficulty = Missing /\ Environment.parent_base_fee = Missing
  /\ Environment.parent_excess = Missing /\ Environment.parent_difficulty = Missing
  /\ Environment.latest = Missing
<1>1. Missing \in Int
  BY DEF Missing
<1> QED
  BY <1>1 DEF Environment, Env

\* The environment of a genesis before its requirements are asked.
Given(g) == [Environment EXCEPT !.number = Or(g.number, @),
                                !.timestamp = IF g.number = Missing THEN @ ELSE 0,
                                !.base_fee = g.base_fee, !.excess = g.excess_blob_gas]

\* The defaults are before a transition, as the genesis is; and what is asked at zero is
\* what the fork of the genesis says.
LEMMA GenesisFork ==
  ASSUME NEW f \in Forks_, NEW n \in Optional
  PROVE  LET c == fork_at(Fork(f), Or(n, 0), 0)
             zero == fork_at(Fork(f), 0, 0)
         IN  /\ fork_at(Fork(f), Or(n, 1), IF n = Missing THEN 1000 ELSE 0) = c
             /\ zero.requests <=> c.requests
             /\ zero.bal_hash <=> c.bal_hash
<1>1. CASE f \in ALL_FORKS
  BY <1>1 DEF Fork, fork_at
<1>2. CASE f \notin ALL_FORKS
  <2>1. f \in ALL_TRANSITION_FORKS
    BY <1>2 DEF Forks_
  <2> DEFINE trans == Transitions[f]
             o == Fork(f)
  <2>2. /\ trans.at_block \in Nat /\ trans.at_timestamp \in Nat
        /\ trans.at_block > 1 \/ trans.at_timestamp > 1000
        /\ trans.at_timestamp = 0 => /\ Class[trans.from].requests <=> Class[trans.to].requests
                                     /\ Class[trans.from].bal_hash <=> Class[trans.to].bal_hash
    BY <2>1, LineageAssumption, TransitionAssumption
  <2>3. /\ o.from = Class[trans.from] /\ o.to = Class[trans.to]
        /\ o.at_block = trans.at_block /\ o.at_timestamp = trans.at_timestamp
    BY <1>2 DEF Fork
  <2> HIDE DEF trans, o
  <2>4. n = Missing => ~Reached(o, 0, 0) /\ ~Reached(o, 1, 1000)
    BY <2>2, <2>3 DEF Reached
  <2>5. trans.at_timestamp # 0 => \A m \in Int : ~Reached(o, m, 0)
    BY <2>2, <2>3 DEF Reached
  <2>6. fork_at(o, Or(n, 1), IF n = Missing THEN 1000 ELSE 0) = fork_at(o, Or(n, 0), 0)
    BY <2>4 DEF fork_at, Or
  <2>7. Or(n, 0) \in Int
    BY DEF Or, Optional
  <2>8. CASE trans.at_timestamp # 0
    <3>1. ~Reached(o, Or(n, 0), 0) /\ ~Reached(o, 0, 0)
      BY <2>5, <2>7, <2>8
    <3>2. fork_at(o, 0, 0) = fork_at(o, Or(n, 0), 0)
      BY <3>1 DEF fork_at
    <3> QED
      BY <2>6, <3>2 DEF o
  <2>9. CASE trans.at_timestamp = 0
    <3>1. /\ o.from.requests <=> o.to.requests
          /\ o.from.bal_hash <=> o.to.bal_hash
      BY <2>2, <2>3, <2>9
    <3>2. /\ fork_at(o, 0, 0).requests <=> fork_at(o, Or(n, 0), 0).requests
          /\ fork_at(o, 0, 0).bal_hash <=> fork_at(o, Or(n, 0), 0).bal_hash
      BY <3>1 DEF fork_at
    <3> QED
      BY <2>6, <3>2 DEF o
  <2> QED
    BY <2>8, <2>9
<1> QED
  BY <1>1, <1>2

LEMMA GenesisFits ==
  ASSUME NEW f \in Forks_, fork = Fork(f), NEW g, g.number \in Optional, GivenFees(g),
         NEW h, h = GenesisHeader(set_fork_requirements(Given(g)), g.number), HasFieldsFor(At(h), g)
  PROVE  /\ IsHeader(h) /\ Fits(h)
         /\ h.number = Or(g.number, 0) /\ h.timestamp = 0
         /\ h.gas_used = 0 /\ (Since(h, "Cancun") => h.blob_gas_used = 0)
         /\ h.base_fee = (IF Since(h, "London") THEN Or(g.base_fee, 7) ELSE Missing)
         /\ g.base_fee # Missing => Since(h, "London")
<1> DEFINE e == Given(g)
           r == set_fork_requirements(e)
           c == ForkOf(h)
           a == At(e)
           z == At([r EXCEPT !.number = 0, !.timestamp = 0])
           zero == fork_at(fork, 0, 0)
<1>1. /\ e \in Env
      /\ e.number = Or(g.number, 1) /\ e.timestamp = IF g.number = Missing THEN 1000 ELSE 0
      /\ e.base_fee = g.base_fee /\ e.excess = g.excess_blob_gas
      /\ e.withdrawals = Missing /\ e.beacon_root = Missing /\ e.difficulty = Missing
      /\ e.parent_base_fee = Missing /\ e.parent_excess = Missing /\ e.parent_difficulty = Missing
  <2> DEFINE n == Or(g.number, 1)
             t == IF g.number = Missing THEN 1000 ELSE 0
  <2>1. n \in Int /\ t \in Int /\ g.base_fee \in Int /\ g.excess_blob_gas \in Int /\ Missing \in Int
    BY DEF Or, Optional, GivenFees, Missing
  <2>2. e = [Environment EXCEPT !.number = n, !.timestamp = t, !.base_fee = g.base_fee,
                                !.excess = g.excess_blob_gas]
    BY DEF Given, Environment
  <2> HIDE DEF n, t, e
  <2>3. /\ e \in Env /\ e.number = n /\ e.timestamp = t
        /\ e.base_fee = g.base_fee /\ e.excess = g.excess_blob_gas
        /\ e.withdrawals = Missing /\ e.beacon_root = Missing /\ e.difficulty = Missing
        /\ e.parent_base_fee = Missing /\ e.parent_excess = Missing /\ e.parent_difficulty = Missing
    <3>1. /\ Environment \in Env
          /\ Environment.withdrawals = Missing /\ Environment.beacon_root = Missing
          /\ Environment.difficulty = Missing /\ Environment.parent_base_fee = Missing
          /\ Environment.parent_excess = Missing /\ Environment.parent_difficulty = Missing
      BY EnvironmentIsEnv
    <3> QED
      BY <2>1, <2>2, <3>1 DEF Env
  <2> QED
    BY <2>3 DEF n, t
<1> HIDE DEF e
<1>2. /\ r.number = e.number /\ r.timestamp = e.timestamp
      /\ r.withdrawals = Or(e.withdrawals, If(a.withdrawals, 0))
      /\ r.base_fee = IF a.base_fee /\ e.base_fee = Missing /\ e.parent_base_fee = Missing THEN 7
                      ELSE e.base_fee
      /\ r.difficulty = IF a.zero_difficulty THEN 0
                        ELSE IF e.difficulty = Missing /\ e.parent_difficulty = Missing THEN 131072
                        ELSE e.difficulty
      /\ r.excess = IF a.excess_blob_gas /\ e.excess = Missing /\ e.parent_excess = Missing THEN 0
                    ELSE e.excess
      /\ r.beacon_root = Or(e.beacon_root, If(a.beacon_root, 0))
  BY <1>1, Requirements
<1>3. z = Asked(fork, 0, 0)
  <2>1. "number" \in DOMAIN r /\ "timestamp" \in DOMAIN r
    BY <1>1 DEF set_fork_requirements, Env
  <2> QED
    BY <2>1 DEF At
<1>4. /\ h.number = Or(g.number, 0) /\ h.timestamp = 0
      /\ h.base_fee = r.base_fee /\ h.excess = r.excess
      /\ h.blob_gas_used = If(At(r).blob_gas_used, 0)
      /\ h.withdrawals = r.withdrawals /\ h.beacon_root = r.beacon_root
      /\ h.difficulty = r.difficulty /\ h.gas_used = 0
      /\ h.requests = If(z.requests, 0) /\ h.bal_hash = If(z.bal_hash, 0)
  BY DEF GenesisHeader, e
<1> HIDE DEF r, z
<1>5. At(r) = a
  BY <1>2 DEF At
<1>6. /\ ForkOf(e) = c
      /\ zero.requests <=> c.requests
      /\ zero.bal_hash <=> c.bal_hash
  BY <1>1, <1>4, GenesisFork DEF ForkOf
<1>7. /\ a.base_fee = c.base_fee /\ a.zero_difficulty = c.zero_difficulty
      /\ a.withdrawals = c.withdrawals /\ a.excess_blob_gas = c.excess_blob_gas
      /\ a.beacon_root = c.beacon_root /\ a.blob_gas_used = c.blob_gas_used
      /\ At(h).base_fee = c.base_fee /\ At(h).excess_blob_gas = c.excess_blob_gas
      /\ z.requests = zero.requests /\ z.bal_hash = zero.bal_hash
  BY <1>3, <1>6, AskedFields DEF At, ForkOf
<1>8. PICK k \in ALL_FORKS : c = Class[k]
  <2>1. h.number \in Int /\ h.timestamp \in Int
    BY <1>4 DEF Or, Optional
  <2> QED
    BY <2>1, ForkClass DEF ForkOf
<1>9. /\ c.base_fee <=> "London" \in c.ancestors
      /\ c.zero_difficulty <=> "Paris" \in c.ancestors
      /\ c.withdrawals <=> "Shanghai" \in c.ancestors
      /\ c.excess_blob_gas <=> "Cancun" \in c.ancestors
      /\ c.blob_gas_used <=> "Cancun" \in c.ancestors
      /\ c.beacon_root <=> "Cancun" \in c.ancestors
      /\ c.requests <=> "Prague" \in c.ancestors
      /\ c.bal_hash <=> "Amsterdam" \in c.ancestors
  BY <1>8, FieldsAssumption
<1>10. /\ g.base_fee # Missing => c.base_fee
       /\ g.excess_blob_gas # Missing => c.excess_blob_gas
       /\ g.base_fee \in Optional /\ g.excess_blob_gas \in Optional
  BY <1>7 DEF HasFieldsFor, GivenFees
<1> HIDE DEF a, c, zero
<1>11. h.base_fee = IF "London" \in c.ancestors THEN Or(g.base_fee, 7) ELSE Missing
  BY <1>1, <1>2, <1>4, <1>7, <1>9, <1>10 DEF Or
<1>12. h.excess = IF "Cancun" \in c.ancestors THEN Or(g.excess_blob_gas, 0) ELSE Missing
  BY <1>1, <1>2, <1>4, <1>7, <1>9, <1>10 DEF Or
<1>13. /\ h.blob_gas_used = If("Cancun" \in c.ancestors, 0)
       /\ h.withdrawals = If("Shanghai" \in c.ancestors, 0)
       /\ h.beacon_root = If("Cancun" \in c.ancestors, 0)
  BY <1>1, <1>2, <1>4, <1>5, <1>7, <1>9 DEF Or, If
<1>14. h.difficulty = IF "Paris" \in c.ancestors THEN 0 ELSE 131072
  BY <1>1, <1>2, <1>4, <1>7, <1>9
<1>15. h.requests = If("Prague" \in c.ancestors, 0) /\ h.bal_hash = If("Amsterdam" \in c.ancestors, 0)
  BY <1>4, <1>6, <1>7, <1>9 DEF If
<1>16. /\ h.base_fee \in Optional /\ (h.base_fee # Missing <=> "London" \in c.ancestors)
       /\ h.excess \in Optional /\ (h.excess # Missing <=> "Cancun" \in c.ancestors)
  BY <1>10, <1>11, <1>12 DEF Or, Optional, Missing
<1>17. /\ h.blob_gas_used \in Optional /\ (h.blob_gas_used # Missing <=> "Cancun" \in c.ancestors)
       /\ h.withdrawals \in Optional /\ (h.withdrawals # Missing <=> "Shanghai" \in c.ancestors)
       /\ h.beacon_root \in Optional /\ (h.beacon_root # Missing <=> "Cancun" \in c.ancestors)
       /\ h.requests \in Optional /\ (h.requests # Missing <=> "Prague" \in c.ancestors)
       /\ h.bal_hash \in Optional /\ (h.bal_hash # Missing <=> "Amsterdam" \in c.ancestors)
  BY <1>13, <1>15 DEF If, Optional, Missing
<1>18. IsHeader(h)
  BY <1>4, <1>14, <1>16, <1>17 DEF IsHeader, Or, Optional
<1>19. Fits(h)
  BY <1>14, <1>16, <1>17 DEF Fits, Since, c
<1> QED
  BY <1>4, <1>9, <1>10, <1>11, <1>13, <1>18, <1>19 DEF Since, c, If

LEMMA FollowsParent ==
  ASSUME NEW h, IsHeader(h), NEW e \in Env, e.latest <= h.number
  PROVE  Follows(apply_new_parent(e, h), h)
<1>1. Larger(e.latest, h.number) = h.number
  BY DEF Larger, Env, IsHeader
<1>2. /\ h.base_fee \in Int /\ h.excess \in Int /\ h.blob_gas_used \in Int /\ h.gas_used \in Int
      /\ h.difficulty \in Int /\ h.timestamp \in Int /\ h.number \in Int
  BY DEF IsHeader, Optional, Missing
<1> QED
  BY <1>1, <1>2 DEF apply_new_parent, Follows, Env

------------------------------------------------------------------------------
(* The invariant.                                                             *)

Started == \E f \in Forks_ : fork = Fork(f)
Idle == fixed = Absent /\ parent = Absent /\ header = Absent /\ count = 0
StageInv ==
    /\ count \in Nat /\ (Idle \/ Started)
    /\ stage \in {"configure", "collect", "start", "genesis"} => Idle
    /\ stage \in {"genesis", "fill"} => Started
HeadersInv == \A h \in {parent, header} \ {Absent} : IsHeader(h) /\ Fits(h)
ChainInv == stage = "fill" => parent # Absent /\ Follows(env, parent)

\* What the parent leaves to its child: gas that fits in a block, and blobs too.
LoadInv ==
    parent # Absent =>
        /\ parent.gas_used <= GasLimit
        /\ Since(parent, "Cancun") =>
              parent.blob_gas_used <= ForkOf(parent).max_blobs_per_tx * ForkOf(parent).blob_gas_per_blob
PayloadInv ==
    count > 0 => /\ payload.version = ForkOf(header).engine_new_payload_version
                 /\ header # Absent
                 /\ stage = "fill" /\ ~block.invalid => header = parent
CovariantsInv == stage = "fill" \/ header # Absent => fixed.covariants = ParametersOf(fork)

\* A state test and the genesis made for it.
StateInv ==
    stage = "fill" /\ fixed.state # Absent =>
        /\ fixed.state \in StateTests
        /\ count = 0 =>
              /\ parent.gas_used = 0
              /\ parent.base_fee = (IF Since(parent, "London") THEN Or(GenesisOf(fixed.state).base_fee, 7)
                                    ELSE Missing)
              /\ GenesisOf(fixed.state).base_fee # Missing => Since(parent, "London")

ForkInv ==
    /\ tests \subseteq Forks_ /\ StageInv /\ HeadersInv /\ ChainInv /\ LoadInv /\ PayloadInv
    /\ CovariantsInv /\ StateInv /\ StateTestFee

LEMMA HeaderIsPresent == \A h : h.number \in Nat => h # Absent
<1>1. Absent.number = Missing
  BY DEF Absent
<1>2. \A n \in Nat : n # Missing
  BY DEF Missing
<1>3. ASSUME NEW h, h.number \in Nat PROVE h.number # Missing
  BY <1>2, <1>3
<1> QED
  BY <1>1, <1>3

\* MakeGenesis: the chain starts with one header, which fits.
LEMMA GenesisMade ==
  ASSUME ForkInv, NEW g, g.number \in Optional, GivenFees(g), NEW state, MakeGenesis(g, state)
  PROVE  /\ IsHeader(parent') /\ Fits(parent')
         /\ parent'.gas_used = 0 /\ (Since(parent', "Cancun") => parent'.blob_gas_used = 0)
         /\ parent'.base_fee = (IF Since(parent', "London") THEN Or(g.base_fee, 7) ELSE Missing)
         /\ g.base_fee # Missing => Since(parent', "London")
         /\ Follows(env', parent') /\ Started
         /\ fixed'.state = state /\ fixed'.covariants = ParametersOf(fork)
         /\ header' = Absent /\ count' = 0 /\ fork' = fork /\ tests' = tests
         /\ stage' \in {"fill", "error"}
<1> DEFINE h == GenesisHeader(set_fork_requirements(Given(g)), g.number)
<1>1. /\ stage = "genesis" /\ HasFieldsFor(At(h), g)
      /\ parent' = h /\ env' = apply_new_parent(Environment, h)
      /\ stage' \in {"fill", "error"}
      /\ fixed'.state = state /\ fixed'.covariants = ParametersOf(fork)
      /\ header' = header /\ count' = count /\ fork' = fork /\ tests' = tests
  BY DEF MakeGenesis, Given, selection
<1>2. PICK f \in Forks_ : fork = Fork(f)
  BY <1>1 DEF ForkInv, StageInv, Started
<1> HIDE DEF h
<1>3. /\ IsHeader(h) /\ Fits(h)
      /\ h.number = Or(g.number, 0) /\ h.gas_used = 0 /\ (Since(h, "Cancun") => h.blob_gas_used = 0)
      /\ h.base_fee = (IF Since(h, "London") THEN Or(g.base_fee, 7) ELSE Missing)
      /\ g.base_fee # Missing => Since(h, "London")
  BY <1>1, <1>2, GenesisFits DEF h
<1>4. Follows(env', h)
  <2>1. Environment \in Env /\ Environment.latest <= h.number
    BY <1>3, EnvironmentIsEnv DEF Missing, IsHeader
  <2> QED
    BY <1>1, <1>3, <2>1, FollowsParent
<1>5. header = Absent /\ count = 0 /\ Started
  BY <1>1 DEF ForkInv, StageInv, Idle
<1> QED
  BY <1>1, <1>3, <1>4, <1>5

LEMMA GenesisKeeps ==
  ASSUME ForkInv, NEW g, g.number \in Optional, GivenFees(g), NEW state, MakeGenesis(g, state),
         state # Absent => state \in StateTests /\ g = GenesisOf(state)
  PROVE  ForkInv'
<1>1. /\ IsHeader(parent') /\ Fits(parent')
      /\ parent'.gas_used = 0 /\ (Since(parent', "Cancun") => parent'.blob_gas_used = 0)
      /\ parent'.base_fee = (IF Since(parent', "London") THEN Or(g.base_fee, 7) ELSE Missing)
      /\ g.base_fee # Missing => Since(parent', "London")
      /\ Follows(env', parent') /\ Started
      /\ fixed'.state = state /\ fixed'.covariants = ParametersOf(fork)
      /\ header' = Absent /\ count' = 0 /\ fork' = fork /\ tests' = tests
      /\ stage' \in {"fill", "error"}
  BY GenesisMade
<1>2. parent' # Absent
  BY <1>1, HeaderIsPresent DEF IsHeader
<1>3. \A f : Since(parent, f)' <=> Since(parent', f)
  BY <1>1 DEF Since, ForkOf
<1>4. tests' \subseteq Forks_ /\ StageInv'
  BY <1>1 DEF ForkInv, StageInv, Started
<1>5. HeadersInv'
  BY <1>1, <1>3 DEF HeadersInv, Fits
<1>6. ChainInv'
  BY <1>1, <1>2 DEF ChainInv
<1>7. LoadInv'
  <2>1. PICK f \in Forks_ : fork = Fork(f)
    BY <1>1 DEF Started
  <2>2. PICK k \in ALL_FORKS : ForkOf(parent') = Class[k]
    <3>1. parent'.number \in Int /\ parent'.timestamp \in Int
      BY <1>1 DEF IsHeader
    <3> QED
      BY <2>1, <3>1, ForkClass DEF ForkOf
  <2>3. Class[k].max_blobs_per_tx * Class[k].blob_gas_per_blob \in Nat
    BY FeesAssumption, TimesNat
  <2>4. ForkOf(parent)' = Class[k]
    BY <1>1, <2>2 DEF ForkOf
  <2>5. 0 <= Class[k].max_blobs_per_tx * Class[k].blob_gas_per_blob
    BY <2>3
  <2> QED
    BY <1>1, <1>3, <2>4, <2>5 DEF LoadInv, GasLimit
<1>8. PayloadInv' /\ CovariantsInv' /\ StateTestFee'
  BY <1>1 DEF PayloadInv, CovariantsInv, StateTestFee
<1>9. StateInv'
  <2>1. GenesisOf(state)' = GenesisOf(state)
    BY <1>1 DEF GenesisOf
  <2> QED
    BY <1>1, <1>3, <2>1 DEF StateInv
<1> QED
  BY <1>4, <1>5, <1>6, <1>7, <1>8, <1>9 DEF ForkInv

LEMMA TargetIsNat ==
  ASSUME NEW f \in Forks_, fork = Fork(f) PROVE TargetBlobGas(AskedOfNone(fork)) \in Nat
<1> DEFINE a == AskedOfNone(fork)
           c == fork_at(fork, ALWAYS_TRANSITIONED_BLOCK_NUMBER, ALWAYS_TRANSITIONED_BLOCK_TIMESTAMP)
<1>1. \A m \in BlobMethods : a[m] = c[m]
  <2> SUFFICES ASSUME NEW m \in BlobMethods PROVE a[m] = c[m]
    OBVIOUS
  <2>1. m \in base_fork_abstract_methods /\ m \notin PreferredMethods
    BY DEF base_fork_abstract_methods, BlobMethods, PreferredMethods
  <2> QED
    BY <2>1, AskedIsNow DEF AskedOfNone
<1>2. PICK k \in ALL_FORKS : c = Class[k]
  BY ForkClass DEF ALWAYS_TRANSITIONED_BLOCK_NUMBER, ALWAYS_TRANSITIONED_BLOCK_TIMESTAMP
<1> HIDE DEF a, c
<1>3. a["target_blobs_per_block"] \in Nat /\ a["blob_gas_per_blob"] \in Nat
  BY <1>1, <1>2, FeesAssumption DEF BlobMethods
<1>4. a.target_blobs_per_block * a.blob_gas_per_blob \in Nat
  BY <1>3, TimesNat
<1> QED
  BY <1>4 DEF TargetBlobGas, a

LEMMA GenesisGiven ==
  ASSUME NEW f \in Forks_, fork = Fork(f), NEW s \in StateTests
  PROVE  GenesisOf(s).number \in Optional /\ GivenFees(GenesisOf(s))
<1> DEFINE target == TargetBlobGas(AskedOfNone(fork))
<1>1. target \in Nat
  BY TargetIsNat
<1>2. s.number \in Nat \ {0} /\ s.base_fee \in Optional /\ s.excess_blob_gas \in Optional
  BY InputsAssumption DEF GivenFees
<1> HIDE DEF target
<1>3. /\ s.number - 1 \in Optional
      /\ (IF s.base_fee = Missing THEN Missing ELSE (s.base_fee * 8) \div 7) \in Optional
      /\ (IF s.excess_blob_gas \in {Missing, 0} THEN Missing ELSE s.excess_blob_gas + target) \in Optional
  BY <1>1, <1>2 DEF Optional, Missing
<1> QED
  BY <1>3 DEF GenesisOf, GivenFees, target

LEMMA AskedValues ==
  ASSUME NEW f \in Forks_, NEW n, NEW t
  PROVE  LET a == Asked(Fork(f), n, t)
             c == fork_at(Fork(f), n, t)
         IN  /\ a.engine_new_payload_version = c.engine_new_payload_version
             /\ a.engine_new_payload_blob_hashes = c.engine_new_payload_blob_hashes
             /\ a.engine_new_payload_beacon_root = c.engine_new_payload_beacon_root
             /\ a.engine_new_payload_requests = c.engine_new_payload_requests
             /\ a.engine_execution_payload_block_access_list = c.engine_execution_payload_block_access_list
             /\ a.forkchoice_updated_override = c.forkchoice_updated_override
             /\ a.tx_types = c.tx_types /\ a.contract_creating_tx_types = c.contract_creating_tx_types
             /\ a.max_blobs_per_tx = c.max_blobs_per_tx
             /\ Covariants(a) = Covariants(c)
<1> DEFINE a == Asked(Fork(f), n, t)
           c == fork_at(Fork(f), n, t)
           M == EngineMethods \union CovariantMethods \union BlobMethods
<1>1. \A m \in M : a[m] = c[m]
  <2> SUFFICES ASSUME NEW m \in M PROVE a[m] = c[m]
    OBVIOUS
  <2>1. m \in base_fork_abstract_methods
    BY DEF base_fork_abstract_methods, RuleMethods, CodeMethods, CovariantMethods
  <2>2. m \notin PreferredMethods
    BY DEF EngineMethods, CovariantMethods, BlobMethods, PreferredMethods
  <2> QED
    BY <2>1, <2>2, AskedIsNow
<1> HIDE DEF a, c
<1>2. /\ a["engine_new_payload_version"] = c["engine_new_payload_version"]
      /\ a["engine_new_payload_blob_hashes"] = c["engine_new_payload_blob_hashes"]
      /\ a["engine_new_payload_beacon_root"] = c["engine_new_payload_beacon_root"]
      /\ a["engine_new_payload_requests"] = c["engine_new_payload_requests"]
      /\ a["engine_execution_payload_block_access_list"] = c["engine_execution_payload_block_access_list"]
      /\ a["forkchoice_updated_override"] = c["forkchoice_updated_override"]
  BY <1>1 DEF EngineMethods
<1>3. /\ a["tx_types"] = c["tx_types"]
      /\ a["contract_creating_tx_types"] = c["contract_creating_tx_types"]
      /\ a["precompiles"] = c["precompiles"] /\ a["system_contracts"] = c["system_contracts"]
      /\ a["evm_code_types"] = c["evm_code_types"] /\ a["call_opcodes"] = c["call_opcodes"]
      /\ a["create_opcodes"] = c["create_opcodes"]
  BY <1>1 DEF CovariantMethods
<1>4. a["max_blobs_per_tx"] = c["max_blobs_per_tx"]
  BY <1>1 DEF BlobMethods
<1>5. Covariants(a) = Covariants(c)
  BY <1>3 DEF Covariants
<1> QED
  BY <1>2, <1>3, <1>4, <1>5 DEF a, c

\* Fill: a block whose header says what follows from its parent.
LEMMA BlockMade ==
  ASSUME ForkInv, NEW b, IsBlock(b), Fill(b)
  PROVE  /\ stage = "fill" /\ IsHeader(parent) /\ Fits(parent) /\ Started
         /\ stage' \in {"fill", "error"} /\ fork' = fork /\ tests' = tests /\ fixed' = fixed
         /\ count' = count + 1 /\ block' = b
         /\ \E g \in ALL_FORKS :
               /\ ForkOf(header') = Class[g] /\ Says(Class[g], parent, b, header')
               /\ Allowed(Class[g], b.tx)
         /\ Later(b, parent)
         /\ parent' = IF b.invalid THEN parent ELSE header'
         /\ \E bal : payload' = Payload(header', bal)
         /\ Follows(env', parent')
<1> DEFINE e == set_fork_requirements(set_environment(b, env))
           access == Listed(At(e), b.access)
           k == Header(e, b.tx)
           h == [k EXCEPT !.bal_of = access.bal]
<1>1. /\ stage = "fill" /\ count < MaxBlocks
      /\ b.number = Missing \/ b.number > env.latest
      /\ b.timestamp = Missing \/ b.timestamp > env.parent_timestamp
      /\ GenerateBlockData(b, e)
  BY DEF Fill
<1>2. /\ IsHeader(parent) /\ Fits(parent) /\ Follows(env, parent)
  BY <1>1 DEF ForkInv, ChainInv, HeadersInv
<1>3. PICK f \in Forks_ : fork = Fork(f)
  BY <1>1 DEF ForkInv, StageInv, Started
<1>4. HasFieldsFor(At(e), b) /\ Allowed(At(e), b.tx) /\ Join(b, e, access, h)
  BY <1>1 DEF GenerateBlockData
<1>5. /\ \E g \in ALL_FORKS : ForkOf(k) = Class[g]
      /\ Says(ForkOf(k), parent, b, k)
  <2>1. parent.difficulty \in Int
    BY <1>2 DEF IsHeader
  <2> QED
    BY <1>2, <1>3, <1>4, <2>1, NewHeader
<1>6. k.number = e.number /\ k.timestamp = e.timestamp
  BY DEF Header
<1>7. /\ h.number = k.number /\ h.timestamp = k.timestamp /\ h.base_fee = k.base_fee
      /\ h.excess = k.excess /\ h.blob_gas_used = k.blob_gas_used /\ h.withdrawals = k.withdrawals
      /\ h.beacon_root = k.beacon_root /\ h.difficulty = k.difficulty /\ h.gas_used = k.gas_used
      /\ h.requests = k.requests /\ h.bal_hash = k.bal_hash
  BY DEF Header
<1> HIDE DEF e, k, h, access
<1>8. ForkOf(h) = ForkOf(k) /\ ForkOf(e) = ForkOf(k)
  BY <1>6, <1>7 DEF ForkOf
<1>9. PICK g \in ALL_FORKS : ForkOf(h) = Class[g]
  BY <1>5, <1>8
<1>10. Says(Class[g], parent, b, h)
  BY <1>5, <1>7, <1>8, <1>9 DEF Says
<1>11. Allowed(Class[g], b.tx)
  BY <1>3, <1>4, <1>8, <1>9, AskedValues DEF Allowed, At, ForkOf
<1>12. Later(b, parent)
  BY <1>1, <1>2 DEF Later, Follows
<1>13. /\ stage' \in {"fill", "error"} /\ fork' = fork /\ tests' = tests /\ fixed' = fixed
       /\ count' = count + 1 /\ block' = b /\ header' = h /\ payload' = Payload(h, access.bal)
       /\ env' = (IF b.invalid THEN env ELSE apply_new_parent(e, h))
       /\ parent' = (IF b.invalid THEN parent ELSE h)
  BY <1>4 DEF Join, selection
<1>14. IsHeader(h) /\ h.number > parent.number
  BY <1>2, <1>3, <1>9, <1>10, <1>12, BlockFits
<1>15. Follows(env', parent')
  <2>1. CASE b.invalid
    BY <1>2, <1>13, <2>1
  <2>2. CASE ~b.invalid
    <3> DEFINE r == set_environment(b, env)
    <3>1. r \in Env /\ r.latest = env.latest
      BY <1>2, NewEnvironment DEF Follows, IsBlock
    <3> HIDE DEF r
    <3>2. e \in Env /\ e.latest = env.latest
      BY <3>1, RequirementsAreEnv DEF e, r
    <3>3. e.latest <= h.number
      BY <1>2, <1>14, <3>2 DEF Follows, IsHeader
    <3>4. Follows(apply_new_parent(e, h), h)
      BY <1>14, <3>2, <3>3, FollowsParent
    <3> QED
      BY <1>13, <2>2, <3>4
  <2> QED
    BY <2>1, <2>2
<1>16. Started
  BY <1>3 DEF Started
<1> QED
  BY <1>1, <1>2, <1>9, <1>10, <1>11, <1>12, <1>13, <1>15, <1>16

LEMMA TimesLe == ASSUME NEW a \in Nat, NEW b \in Nat, NEW n \in Nat, a <= b PROVE a * n <= b * n
  OBVIOUS

\* The genesis of a state test makes its fee the fee of the block.
LEMMA FeeOfBlock ==
  ASSUME NEW fee \in Nat
  PROVE  LET g == (fee * 8) \div 7 IN g \in Nat /\ g - g \div 8 = fee
  OBVIOUS

LEMMA StateTestKeeps ==
  ASSUME ForkInv, NEW s \in StateTests, fixed.state = s, count = 0, NEW b, IsBlock(b), Fill(b),
         b.base_fee = Missing, Since(header', "London")
  PROVE  header'.base_fee = Or(s.base_fee, 7)
<1>1. /\ stage = "fill" /\ IsHeader(parent)
      /\ \E g \in ALL_FORKS : ForkOf(header') = Class[g] /\ Says(Class[g], parent, b, header')
  BY BlockMade
<1>2. PICK g \in ALL_FORKS : ForkOf(header') = Class[g] /\ Says(Class[g], parent, b, header')
  BY <1>1
<1> DEFINE c == Class[g]
           p == parent.base_fee
           given == GenesisOf(s).base_fee
<1>3. "London" \in c.ancestors
  BY <1>2 DEF Since
<1>4. header'.base_fee = IF p = Missing THEN 7 ELSE base_fee_per_gas(c, p, parent.gas_used, GasLimit)
  BY <1>2, <1>3 DEF Says
<1>5. s # Absent
  <2>1. s.number \in Nat
    BY InputsAssumption
  <2> QED
    BY <2>1, HeaderIsPresent
<1>6. /\ parent.gas_used = 0
      /\ p = (IF Since(parent, "London") THEN Or(given, 7) ELSE Missing)
      /\ given # Missing => Since(parent, "London")
  BY <1>1, <1>5 DEF ForkInv, StateInv
<1>7. s.base_fee \in Optional
  BY InputsAssumption DEF GivenFees
<1>8. given = IF s.base_fee = Missing THEN Missing ELSE (s.base_fee * 8) \div 7
  BY DEF GenesisOf
<1> HIDE DEF given, p
<1>9. ASSUME NEW fee \in Nat, p = fee PROVE header'.base_fee = fee - fee \div 8
  <2>1. fee # Missing
    BY DEF Missing
  <2>2. base_fee_per_gas(c, fee, 0, GasLimit) = fee - fee \div 8
    BY <1>3, UnusedFee
  <2> QED
    BY <1>4, <1>6, <1>9, <2>1, <2>2
<1>10. CASE s.base_fee = Missing
  <2>1. p = 7 \/ p = Missing
    BY <1>6, <1>8, <1>10 DEF Or
  <2>2. p = 7 => header'.base_fee = 7 - 7 \div 8
    BY <1>9
  <2>3. header'.base_fee = 7
    BY <1>4, <2>1, <2>2
  <2> QED
    BY <1>10, <2>3 DEF Or
<1>11. CASE s.base_fee # Missing
  <2>1. s.base_fee \in Nat
    BY <1>7, <1>11 DEF Optional
  <2>2. given \in Nat /\ given - given \div 8 = s.base_fee
    BY <1>8, <1>11, <2>1, FeeOfBlock
  <2>3. p = given
    BY <1>6, <2>2 DEF Or, Missing
  <2>4. header'.base_fee = given - given \div 8
    BY <1>9, <2>2, <2>3
  <2> QED
    BY <1>11, <2>2, <2>4 DEF Or
<1> QED
  BY <1>10, <1>11

\* A block of the inputs: what a test gives, or a state test without its fees.
LEMMA BlockKeeps ==
  ASSUME ForkInv, NEW b, IsBlock(b), Fill(b),
         NEW given \in Blocks \union StateTests, b.tx = given.tx,
         fixed.state # Absent => count = 0 /\ b.base_fee = Missing
  PROVE  ForkInv'
<1>1. /\ stage = "fill" /\ IsHeader(parent) /\ Fits(parent) /\ Started
      /\ stage' \in {"fill", "error"} /\ fork' = fork /\ tests' = tests /\ fixed' = fixed
      /\ count' = count + 1 /\ block' = b
      /\ \E g \in ALL_FORKS :
            /\ ForkOf(header') = Class[g] /\ Says(Class[g], parent, b, header')
            /\ Allowed(Class[g], b.tx)
      /\ Later(b, parent)
      /\ parent' = IF b.invalid THEN parent ELSE header'
      /\ \E bal : payload' = Payload(header', bal)
      /\ Follows(env', parent')
  BY BlockMade
<1>2. PICK g \in ALL_FORKS : /\ ForkOf(header') = Class[g] /\ Says(Class[g], parent, b, header')
                             /\ Allowed(Class[g], b.tx)
  BY <1>1
<1>3. PICK f \in Forks_ : fork = Fork(f)
  BY <1>1 DEF Started
<1>4. IsHeader(header') /\ Fits(header')
  BY <1>1, <1>2, <1>3, BlockFits
<1>5. IsHeader(parent') /\ Fits(parent') /\ parent' # Absent /\ header' # Absent
  BY <1>1, <1>4, HeaderIsPresent DEF IsHeader
<1>6. /\ \A n : Since(header, n)' <=> Since(header', n)
      /\ \A n : Since(parent, n)' <=> Since(parent', n)
      /\ ForkOf(header)' = ForkOf(header') /\ ForkOf(parent)' = ForkOf(parent')
  BY <1>1 DEF Since, ForkOf
<1>7. tests' \subseteq Forks_ /\ StageInv'
  <2>1. count \in Nat
    BY DEF ForkInv, StageInv
  <2> QED
    BY <1>1, <2>1 DEF ForkInv, StageInv, Started
<1>8. HeadersInv'
  BY <1>4, <1>5, <1>6 DEF HeadersInv, Fits
<1>9. ChainInv'
  BY <1>1, <1>5 DEF ChainInv
<1>10. LoadInv'
  <2>1. CASE b.invalid
    <3>1. parent # Absent
      BY <1>1 DEF ForkInv, ChainInv
    <3> QED
      BY <1>1, <1>6, <2>1, <3>1 DEF ForkInv, LoadInv
  <2>2. CASE ~b.invalid
    <3> DEFINE c == Class[g]
    <3>1. parent' = header'
      BY <1>1, <2>2
    <3>2. transaction_intrinsic_cost(c, b.tx) <= GasLimit
      BY <1>2, InputsAssumption
    <3>3. header'.gas_used <= GasLimit
      BY <1>2, <3>2 DEF Says, GasLimit
    <3>4. /\ b.tx.blobs \in Nat /\ b.tx.blobs <= c.max_blobs_per_tx
          /\ c.max_blobs_per_tx \in Nat /\ c.blob_gas_per_blob \in Nat
      BY <1>2, FeesAssumption DEF IsBlock, Tx, Allowed
    <3>5. b.tx.blobs * c.blob_gas_per_blob <= c.max_blobs_per_tx * c.blob_gas_per_blob
      BY <3>4, TimesLe
    <3>6. header'.blob_gas_used = If("Cancun" \in c.ancestors, b.tx.blobs * c.blob_gas_per_blob)
      BY <1>2 DEF Says
    <3>7. Since(header', "Cancun") <=> "Cancun" \in c.ancestors
      BY <1>2 DEF Since
    <3>8. ForkOf(parent)' = c
      BY <1>2, <1>6, <3>1
    <3> HIDE DEF c
    <3> QED
      BY <1>6, <3>1, <3>3, <3>5, <3>6, <3>7, <3>8 DEF LoadInv, If
  <2> QED
    BY <2>1, <2>2
<1>11. PayloadInv'
  <2>1. PICK bal : payload' = Payload(header', bal)
    BY <1>1
  <2>2. payload'.version = At(header').engine_new_payload_version
    BY <2>1 DEF Payload
  <2>3. At(header').engine_new_payload_version = ForkOf(header').engine_new_payload_version
    BY <1>3, AskedValues DEF At, ForkOf
  <2> QED
    BY <1>1, <1>5, <1>6, <2>2, <2>3 DEF PayloadInv
<1>12. CovariantsInv'
  BY <1>1 DEF ForkInv, CovariantsInv
<1>13. StateInv' /\ StateTestFee'
  <2>1. fixed.state # Absent => fixed.state \in StateTests
    BY <1>1 DEF ForkInv, StateInv
  <2>2. count' > 0 /\ count' # 0
    BY <1>1 DEF ForkInv, StageInv
  <2>3. StateInv'
    BY <1>1, <2>1, <2>2 DEF StateInv
  <2>4. ASSUME fixed.state # Absent, Since(header', "London")
        PROVE  header'.base_fee = Or(fixed.state.base_fee, 7)
    BY <2>1, <2>4, StateTestKeeps
  <2> QED
    BY <1>1, <1>6, <2>3, <2>4 DEF StateTestFee
<1> QED
  BY <1>7, <1>8, <1>9, <1>10, <1>11, <1>12, <1>13 DEF ForkInv

\* The blocks that are filled are those.
LEMMA FilledBlocks ==
  ASSUME ForkInv, FillStateTest \/ FillBlock
  PROVE  \E b : /\ IsBlock(b) /\ Fill(b)
                /\ \E given \in Blocks \union StateTests : b.tx = given.tx /\ b.access = given.access
                /\ fixed.state # Absent => count = 0 /\ b.base_fee = Missing
<1>1. CASE FillStateTest
  <2> DEFINE s == fixed.state
             b == [s EXCEPT !.base_fee = Missing, !.excess_blob_gas = Missing]
  <2>1. s # Absent /\ count = 0 /\ Fill(b)
    BY <1>1 DEF FillStateTest
  <2>2. s \in StateTests
    BY <2>1 DEF ForkInv, StateInv, Fill
  <2>3. /\ DOMAIN s = {"number", "timestamp", "base_fee", "excess_blob_gas", "tx", "invalid", "access"}
        /\ s.number \in Nat /\ s.timestamp \in Nat /\ s.tx \in Tx
    BY <2>2, InputsAssumption
  <2>4. /\ b.base_fee = Missing /\ b.excess_blob_gas = Missing
        /\ b.number = s.number /\ b.timestamp = s.timestamp /\ b.tx = s.tx /\ b.access = s.access
    <3> HIDE DEF s
    <3> QED
      BY <2>3
  <2> HIDE DEF b
  <2>5. IsBlock(b)
    BY <2>3, <2>4 DEF IsBlock, GivenFees, Optional
  <2> QED
    BY <2>1, <2>2, <2>4, <2>5
<1>2. CASE FillBlock
  <2>1. PICK b \in Blocks : Fill(b)
    BY <1>2 DEF FillBlock
  <2>2. IsBlock(b)
    BY InputsAssumption DEF IsBlock
  <2>3. fixed.state = Absent
    BY <1>2 DEF FillBlock
  <2> QED
    BY <2>1, <2>2, <2>3
<1> QED
  BY <1>1, <1>2

LEMMA ForkStep == ForkInv /\ [ForkNext]_forkVars => ForkInv'
<1> SUFFICES ASSUME ForkInv, [ForkNext]_forkVars PROVE ForkInv'
  OBVIOUS
<1>1. ASSUME fork' = fork, UNCHANGED chain, tests' \subseteq Forks_,
             \/ stage' = stage
             \/ stage \notin {"genesis", "fill"} /\ stage' \in {"collect", "start", "failed", "usage error"}
                /\ Idle
      PROVE  ForkInv'
  <2>1. UNCHANGED <<fixed, env, parent, block, header, payload, count>>
    BY <1>1 DEF chain
  <2>2. StageInv' /\ HeadersInv'
    BY <1>1, <2>1 DEF ForkInv, StageInv, HeadersInv, Started, Idle, Fits, Since, ForkOf
  <2>3. ChainInv' /\ LoadInv'
    BY <1>1, <2>1 DEF ForkInv, ChainInv, LoadInv, Since, ForkOf
  <2>4. PayloadInv' /\ CovariantsInv'
    BY <1>1, <2>1 DEF ForkInv, PayloadInv, CovariantsInv, ForkOf, Idle
  <2>5. StateInv' /\ StateTestFee'
    BY <1>1, <2>1 DEF ForkInv, StateInv, StateTestFee, Since, ForkOf, GenesisOf, Idle
  <2> QED
    BY <1>1, <2>2, <2>3, <2>4, <2>5 DEF ForkInv
<1>2. CASE Configure
  <2>1. stage = "configure" /\ stage' \in {"collect", "usage error"}
    BY <1>2 DEF Configure
  <2>2. tests' = tests /\ fork' = fork /\ UNCHANGED chain
    BY <1>2 DEF Configure, selection
  <2> QED
    BY <1>1, <2>1, <2>2 DEF ForkInv, StageInv
<1>3. CASE Collect
  <2>1. stage = "collect" /\ stage' \in {"start", "failed"} /\ fork' = fork /\ UNCHANGED chain
    BY <1>3 DEF Collect
  <2>2. PICK m \in MarkerSets :
            tests' = tests \/ tests' = get_test_fork_set(m) \intersect selected
    BY <1>3 DEF Collect
  <2>3. get_test_fork_set(m) \subseteq Forks_
    BY DEF get_test_fork_set, Forks_
  <2>4. tests' \subseteq Forks_
    BY <2>2, <2>3 DEF ForkInv
  <2> QED
    BY <1>1, <2>1, <2>4 DEF ForkInv, StageInv
<1>4. CASE Start
  <2>1. PICK f \in tests : fork' = Fork(f)
    BY <1>4 DEF Start
  <2>2. /\ stage = "start" /\ stage' = "genesis" /\ tests' = {}
        /\ UNCHANGED <<fixed, env, parent, block, header, payload, count>>
    BY <1>4 DEF Start, chain
  <2>3. Started' /\ Idle /\ Idle' /\ count = 0
    BY <2>1, <2>2 DEF ForkInv, StageInv, Started, Idle
  <2>4. parent' = Absent /\ header' = Absent /\ count' = 0 /\ fixed' = Absent
    BY <2>3 DEF Idle
  <2>5. StageInv'
    BY <2>2, <2>3, <2>4 DEF StageInv
  <2> QED
    BY <2>2, <2>4, <2>5 DEF ForkInv, HeadersInv, ChainInv, LoadInv, PayloadInv, CovariantsInv,
                            StateInv, StateTestFee
<1>5. CASE BlockchainTest
  <2>1. PICK g \in Geneses : MakeGenesis(g, Absent)
    BY <1>5 DEF BlockchainTest
  <2>2. g.number \in Optional /\ GivenFees(g)
    BY InputsAssumption
  <2> QED
    BY <2>1, <2>2, GenesisKeeps
<1>6. CASE StateTest
  <2>1. PICK s \in StateTests : MakeGenesis(GenesisOf(s), s)
    BY <1>6 DEF StateTest
  <2>2. PICK f \in Forks_ : fork = Fork(f)
    BY <1>6 DEF StateTest, ForkInv, StageInv, Started
  <2>3. GenesisOf(s).number \in Optional /\ GivenFees(GenesisOf(s))
    BY <2>2, GenesisGiven
  <2> QED
    BY <2>1, <2>3, GenesisKeeps
<1>7. CASE FillStateTest \/ FillBlock
  <2>1. PICK b : /\ IsBlock(b) /\ Fill(b)
                 /\ \E given \in Blocks \union StateTests : b.tx = given.tx /\ b.access = given.access
                 /\ fixed.state # Absent => count = 0 /\ b.base_fee = Missing
    BY <1>7, FilledBlocks
  <2>2. PICK given \in Blocks \union StateTests : b.tx = given.tx
    BY <2>1
  <2> QED
    BY <2>1, <2>2, BlockKeeps
<1>8. CASE UNCHANGED forkVars
  BY <1>1, <1>8 DEF forkVars, ForkInv, selection
<1> QED
  BY <1>2, <1>3, <1>4, <1>5, <1>6, <1>7, <1>8 DEF ForkNext

\* The invariant holds of every session.
THEOREM ForkInvariance == ForkSpec => []ForkInv
<1>1. ForkInit => ForkInv
  BY DEF ForkInit, ForkInv, StageInv, HeadersInv, ChainInv, LoadInv, PayloadInv, CovariantsInv,
         StateInv, StateTestFee, Idle
<1> QED
  BY <1>1, ForkStep, PTL DEF ForkSpec

\* Every header has the fields of the fork of its own number and time and none of a
\* later one: the blocks of FixtureHeader and of the t8n tool, and the genesis, which
\* is asked for its fields in three places.
THEOREM HeadersFit == ForkSpec => []HeaderFits
<1>1. ForkInv => HeaderFits
  BY DEF ForkInv, HeadersInv, HeaderFits, Fits
<1> QED
  BY <1>1, ForkInvariance, PTL

\* The one block of a state test runs at the base fee of its environment, through a
\* genesis whose fee is made from it.
THEOREM StateTestsFee == ForkSpec => []StateTestFee
<1>1. ForkInv => StateTestFee
  BY DEF ForkInv
<1> QED
  BY <1>1, ForkInvariance, PTL

------------------------------------------------------------------------------
(* What does not change for the worse over a transition.                      *)

LEMMA CovariantsGrow ==
  ASSUME NEW g \in ALL_FORKS, NEW k \in Class[g].ancestors
  PROVE  LET now == Covariants(Class[g])
             then == Covariants(Class[k])
         IN  \A kind \in DOMAIN now : then[kind] \subseteq now[kind]
<1> DEFINE c == Class[g]
           d == Class[k]
<1>1. \A m \in CovariantMethods : d[m] \subseteq c[m]
  BY ValuesAssumption
<1> HIDE DEF c, d
<1>2. /\ d["tx_types"] \subseteq c["tx_types"]
      /\ d["contract_creating_tx_types"] \subseteq c["contract_creating_tx_types"]
      /\ d["precompiles"] \subseteq c["precompiles"] /\ d["system_contracts"] \subseteq c["system_contracts"]
      /\ d["evm_code_types"] \subseteq c["evm_code_types"] /\ d["call_opcodes"] \subseteq c["call_opcodes"]
      /\ d["create_opcodes"] \subseteq c["create_opcodes"]
  BY <1>1 DEF CovariantMethods
<1> DEFINE Joins(x, ops) == {p \in ops \X x.evm_code_types : p[2] = CodeType(p[1])}
<1>3. /\ Joins(d, d.call_opcodes) \subseteq Joins(c, c.call_opcodes)
      /\ Joins(d, d.create_opcodes) \subseteq Joins(c, c.create_opcodes)
  BY <1>2
<1>4. \A x : Covariants(x) = [tx_types |-> x.tx_types,
                              contract_creating_tx_types |-> x.contract_creating_tx_types,
                              precompiles |-> x.precompiles, system_contracts |-> x.system_contracts,
                              calls |-> Joins(x, x.call_opcodes), creates |-> Joins(x, x.create_opcodes)]
  BY DEF Covariants
<1> HIDE DEF Joins
<1>5. \A kind \in DOMAIN Covariants(c) : Covariants(d)[kind] \subseteq Covariants(c)[kind]
  BY <1>2, <1>3, <1>4
<1> QED
  BY <1>5 DEF c, d

\* The covariant values a test was parametrized with, those of the fork it starts in, are
\* values of the fork of every block.
THEOREM ParametersHold == ForkSpec => []ParametersStayValid
<1>1. ASSUME ForkInv PROVE ParametersStayValid
  <2> SUFFICES ASSUME header # Absent
               PROVE  \A kind \in DOMAIN Covariants(ForkOf(header)) :
                         fixed.covariants[kind] \subseteq Covariants(ForkOf(header))[kind]
    BY DEF ParametersStayValid
  <2>1. IsHeader(header) /\ fixed.covariants = ParametersOf(fork)
    BY <1>1 DEF ForkInv, HeadersInv, CovariantsInv
  <2>2. PICK f \in Forks_ : fork = Fork(f)
    BY <1>1 DEF ForkInv, StageInv, Idle, Started
  <2>3. PICK k \in ALL_FORKS : fork_at(fork, 0, 0) = Class[k]
    BY <2>2, ForkClass
  <2>4. PICK g \in ALL_FORKS : ForkOf(header) = Class[g]
    <3>1. header.number \in Int /\ header.timestamp \in Int
      BY <2>1 DEF IsHeader
    <3> QED
      BY <2>2, <3>1, ForkClass DEF ForkOf
  <2>5. Class[k].ancestors \subseteq Class[g].ancestors
    <3>1. /\ header.number \in Int /\ header.timestamp \in Int
          /\ 0 <= header.number /\ 0 <= header.timestamp
      BY <2>1 DEF IsHeader
    <3>2. fork_at(Fork(f), 0, 0).ancestors
              \subseteq fork_at(Fork(f), header.number, header.timestamp).ancestors
      BY <3>1, ForkAdvances
    <3> QED
      BY <2>2, <2>3, <2>4, <3>2 DEF ForkOf
  <2>6. k \in Class[g].ancestors
    BY <2>5, LineageAssumption
  <2>7. fixed.covariants = Covariants(Class[k])
    BY <2>1, <2>2, <2>3, AskedValues DEF ParametersOf
  <2> QED
    BY <2>4, <2>6, <2>7, CovariantsGrow
<1> QED
  BY <1>1, ForkInvariance, PTL

\* The steps that build a block.
LEMMA BlockSteps ==
  ASSUME ForkInv, [ForkNext]_forkVars, count' > count
  PROVE  \E b : IsBlock(b) /\ Fill(b)
<1>1. count \in Nat
  BY DEF ForkInv, StageInv
<1>2. ASSUME count' = count PROVE FALSE
  BY <1>1, <1>2
<1>3. CASE FillStateTest \/ FillBlock
  BY <1>3, FilledBlocks
<1>4. CASE Configure
  BY <1>2, <1>4 DEF Configure, chain
<1>5. CASE Collect
  BY <1>2, <1>5 DEF Collect, chain
<1>6. CASE Start
  BY <1>2, <1>6 DEF Start, chain
<1>7. CASE BlockchainTest
  BY <1>2, <1>7 DEF BlockchainTest, MakeGenesis
<1>8. CASE StateTest
  BY <1>2, <1>8 DEF StateTest, MakeGenesis
<1>9. CASE UNCHANGED forkVars
  BY <1>2, <1>9 DEF forkVars, chain
<1> QED
  BY <1>3, <1>4, <1>5, <1>6, <1>7, <1>8, <1>9 DEF ForkNext

\* One version of newPayload, and its parameters.
LEMMA PayloadOf ==
  ASSUME NEW f \in Forks_, fork = Fork(f), NEW h, NEW g \in ALL_FORKS, ForkOf(h) = Class[g], NEW bal
  PROVE  LET p == Payload(h, bal)
         IN  /\ p.version = Class[g].engine_new_payload_version
             /\ p.params = CASE p.version < 3 -> {}
                             [] p.version = 3 -> {"blob hashes", "beacon root"}
                             [] p.version > 3 -> {"blob hashes", "beacon root", "requests"}
             /\ p.list <=> p.version >= 5
             /\ p.version >= 4 <=> Since(h, "Prague")
             /\ p.forkchoice \in {p.version, 3} /\ p.forkchoice <= p.version
<1> DEFINE p == Payload(h, bal)
           c == Class[g]
           a == At(h)
           v == c.engine_new_payload_version
<1>1. /\ v \in Nat
      /\ v >= 3 <=> "Cancun" \in c.ancestors
      /\ v >= 4 <=> "Prague" \in c.ancestors
      /\ v >= 5 <=> "Amsterdam" \in c.ancestors
      /\ c.engine_new_payload_blob_hashes <=> "Cancun" \in c.ancestors
      /\ c.engine_new_payload_beacon_root <=> "Cancun" \in c.ancestors
      /\ c.engine_new_payload_requests <=> "Prague" \in c.ancestors
      /\ c.engine_execution_payload_block_access_list <=> "Amsterdam" \in c.ancestors
      /\ c.forkchoice_updated_override = IF "Prague" \in c.ancestors THEN 3 ELSE None
  BY EngineAssumption
<1>2. /\ a.engine_new_payload_version = v
      /\ a.engine_new_payload_blob_hashes = c.engine_new_payload_blob_hashes
      /\ a.engine_new_payload_beacon_root = c.engine_new_payload_beacon_root
      /\ a.engine_new_payload_requests = c.engine_new_payload_requests
      /\ a.engine_execution_payload_block_access_list = c.engine_execution_payload_block_access_list
      /\ a.forkchoice_updated_override = c.forkchoice_updated_override
  BY AskedValues DEF At, ForkOf
<1>3. /\ p.version = a.engine_new_payload_version
      /\ p.forkchoice = engine_forkchoice_updated_version(a)
      /\ p.list = a.engine_execution_payload_block_access_list
      /\ p.params = {x \in {"blob hashes", "beacon root", "requests"} :
                        \/ x = "blob hashes" /\ a.engine_new_payload_blob_hashes
                        \/ x = "beacon root" /\ a.engine_new_payload_beacon_root
                        \/ x = "requests" /\ a.engine_new_payload_requests}
  BY DEF Payload
<1>4. ForkOf(h) = c
  OBVIOUS
<1> HIDE DEF p, a, c, v
<1>5. p.version = v /\ (p.list <=> v >= 5) /\ (v >= 4 <=> Since(h, "Prague"))
  BY <1>1, <1>2, <1>3, <1>4 DEF Since
<1>6. p.forkchoice = IF v >= 4 THEN 3 ELSE v
  <2>1. p.forkchoice = IF c.forkchoice_updated_override # None THEN c.forkchoice_updated_override ELSE v
    BY <1>2, <1>3 DEF engine_forkchoice_updated_version
  <2>2. CASE "Prague" \in c.ancestors
    <3>1. c.forkchoice_updated_override = 3 /\ v >= 4
      BY <1>1, <2>2
    <3> QED
      BY <2>1, <3>1 DEF None
  <2>3. CASE "Prague" \notin c.ancestors
    <3>1. c.forkchoice_updated_override = None /\ ~(v >= 4)
      BY <1>1, <2>3
    <3> QED
      BY <2>1, <3>1
  <2> QED
    BY <2>2, <2>3
<1>7. p.params = CASE v < 3 -> {}
                   [] v = 3 -> {"blob hashes", "beacon root"}
                   [] v > 3 -> {"blob hashes", "beacon root", "requests"}
  <2>1. CASE v < 3
    <3>1. ~a.engine_new_payload_blob_hashes /\ ~a.engine_new_payload_beacon_root
          /\ ~a.engine_new_payload_requests
      BY <1>1, <1>2, <2>1
    <3>2. p.params = {}
      BY <1>3, <3>1
    <3>3. v < 3 /\ ~(v = 3) /\ ~(v > 3)
      BY <1>1, <2>1
    <3> QED
      BY <3>2, <3>3, Zenon
  <2>2. CASE v = 3
    <3>1. a.engine_new_payload_blob_hashes /\ a.engine_new_payload_beacon_root
          /\ ~a.engine_new_payload_requests
      BY <1>1, <1>2, <2>2
    <3>2. p.params = {"blob hashes", "beacon root"}
      BY <1>3, <3>1
    <3>3. ~(v < 3) /\ v = 3 /\ ~(v > 3)
      BY <1>1, <2>2
    <3> QED
      BY <3>2, <3>3, Zenon
  <2>3. CASE v > 3
    <3>1. a.engine_new_payload_blob_hashes /\ a.engine_new_payload_beacon_root
          /\ a.engine_new_payload_requests
      BY <1>1, <1>2, <2>3
    <3>2. p.params = {"blob hashes", "beacon root", "requests"}
      BY <1>3, <3>1
    <3>3. ~(v < 3) /\ ~(v = 3) /\ v > 3
      BY <1>1, <2>3
    <3> QED
      BY <3>2, <3>3, Zenon
  <2>4. v < 3 \/ v = 3 \/ v > 3
    BY <1>1
  <2> QED
    BY <2>1, <2>2, <2>3, <2>4, Zenon
<1>8. p.forkchoice \in {v, 3} /\ p.forkchoice <= v
  BY <1>1, <1>6
<1> QED
  BY <1>5, <1>7, <1>8 DEF p, v, c

\* What PayloadFits and FeesFollow say of a step.
PayloadStep ==
    count' > count =>
        /\ payload'.params =
              CASE payload'.version < 3 -> {}
                [] payload'.version = 3 -> {"blob hashes", "beacon root"}
                [] payload'.version > 3 -> {"blob hashes", "beacon root", "requests"}
        /\ payload'.list <=> payload'.version >= 5
        /\ payload'.version >= 4 <=> header'.requests # Missing
        /\ payload'.forkchoice \in {payload'.version, 3}
        /\ payload'.forkchoice <= payload'.version
        /\ count > 0 /\ ~block.invalid => payload'.version >= payload.version

\* Every Engine API call has the version of its block's fork and just the parameters of
\* that version; from one block of the chain to the next no version goes back.
THEOREM PayloadsFit == ForkSpec => PayloadFits
<1>1. ASSUME ForkInv, [ForkNext]_forkVars PROVE PayloadStep
  <2> SUFFICES ASSUME count' > count PROVE PayloadStep
    BY DEF PayloadStep
  <2>1. PICK b : IsBlock(b) /\ Fill(b)
    BY <1>1, BlockSteps
  <2>2. /\ stage = "fill" /\ IsHeader(parent) /\ Fits(parent) /\ Started
        /\ \E g \in ALL_FORKS : ForkOf(header') = Class[g] /\ Says(Class[g], parent, b, header')
        /\ Later(b, parent)
        /\ \E bal : payload' = Payload(header', bal)
    BY <1>1, <2>1, BlockMade
  <2>3. PICK g \in ALL_FORKS : ForkOf(header') = Class[g] /\ Says(Class[g], parent, b, header')
    BY <2>2
  <2>4. PICK f \in Forks_ : fork = Fork(f)
    BY <2>2 DEF Started
  <2>5. PICK bal : payload' = Payload(header', bal)
    BY <2>2
  <2>6. /\ payload'.version = Class[g].engine_new_payload_version
        /\ payload'.params = CASE payload'.version < 3 -> {}
                               [] payload'.version = 3 -> {"blob hashes", "beacon root"}
                               [] payload'.version > 3 -> {"blob hashes", "beacon root", "requests"}
        /\ payload'.list <=> payload'.version >= 5
        /\ payload'.version >= 4 <=> Since(header', "Prague")
        /\ payload'.forkchoice \in {payload'.version, 3} /\ payload'.forkchoice <= payload'.version
    BY <2>3, <2>4, <2>5, PayloadOf
  <2>7. Fits(header') /\ ForkOf(parent).ancestors \subseteq ForkOf(header').ancestors
    BY <2>1, <2>2, <2>3, <2>4, BlockFits
  <2>8. Since(header', "Prague") <=> header'.requests # Missing
    BY <2>7 DEF Fits
  <2>9. ASSUME count > 0, ~block.invalid PROVE payload'.version >= payload.version
    <3>1. payload.version = ForkOf(parent).engine_new_payload_version
      BY <1>1, <2>2, <2>9 DEF ForkInv, PayloadInv
    <3>2. PICK k \in ALL_FORKS : ForkOf(parent) = Class[k]
      <4>1. parent.number \in Int /\ parent.timestamp \in Int
        BY <2>2 DEF IsHeader
      <4> QED
        BY <2>4, <4>1, ForkClass DEF ForkOf
    <3>3. k \in Class[g].ancestors
      BY <2>3, <2>7, <3>2, LineageAssumption
    <3>4. /\ Class[k].engine_new_payload_version \in Nat /\ Class[g].engine_new_payload_version \in Nat
          /\ Class[k].engine_new_payload_version <= Class[g].engine_new_payload_version
      BY <3>3, EngineAssumption
    <3> QED
      BY <2>6, <3>1, <3>2, <3>4
  <2> QED
    BY <2>6, <2>8, <2>9 DEF PayloadStep
<1>2. [][PayloadStep]_forkVars => PayloadFits
  BY PTL DEF PayloadStep, PayloadFits
<1> QED
  BY <1>1, <1>2, ForkInvariance, PTL DEF ForkSpec

LEMMA DivAtLeast ==
  ASSUME NEW m \in Nat, m > 0, NEW x \in Int, NEW y \in Int, m * y <= x
  PROVE  x \div m \in Int /\ y <= x \div m
  OBVIOUS

LEMMA DivAtMost ==
  ASSUME NEW m \in Nat, m > 0, NEW x \in Int, NEW y \in Int, x <= m * y
  PROVE  x \div m \in Int /\ x \div m <= y
  OBVIOUS

\* Of the blob gas used the part above the target stays, and no more than all of it.
LEMMA PartOfUsed ==
  ASSUME NEW max \in Nat, max > 0, NEW t \in Nat, t <= max, NEW gas \in Nat, NEW used \in Nat,
         used <= max * gas
  PROVE  LET part == (used * (max - t)) \div max
         IN  part \in Int /\ part >= used - t * gas /\ part <= used
<1>1. max * gas \in Nat /\ t * gas \in Nat /\ used * t \in Nat /\ used * max \in Nat
  BY TimesNat
<1>2. used * t <= (max * gas) * t
  BY <1>1, TimesLe
<1>3. (max * gas) * t = max * (t * gas)
  OBVIOUS
<1>4. used * (max - t) = used * max - used * t
  OBVIOUS
<1>5. max * (used - t * gas) = used * max - max * (t * gas)
  OBVIOUS
<1> DEFINE x == used * (max - t)
           y == used - t * gas
<1>6. x \in Int /\ y \in Int
  BY <1>1
<1>7. max * y <= x
  BY <1>1, <1>2, <1>3, <1>4, <1>5
<1>8. x <= max * used
  BY <1>1, <1>4
<1> HIDE DEF x, y
<1>9. x \div max \in Int /\ y <= x \div max
  BY <1>6, <1>7, DivAtLeast
<1>10. x \div max <= used
  BY <1>6, <1>8, DivAtMost
<1> QED
  BY <1>6, <1>9, <1>10 DEF x, y

Pays(new, sum, target, osaka) ==
    IF sum < target THEN new = 0
    ELSE /\ new >= sum - target /\ new <= sum
         /\ new = sum - target \/ osaka

LEMMA ExcessPays ==
  ASSUME NEW g \in ALL_FORKS, "Cancun" \in Class[g].ancestors, NEW excess \in Nat, NEW used \in Nat,
         NEW fee, used <= Class[g].max_blobs_per_block * Class[g].blob_gas_per_blob
  PROVE  Pays(excess_blob_gas(Class[g], excess, used, fee), excess + used, TargetBlobGas(Class[g]),
              "Osaka" \in Class[g].ancestors)
<1> DEFINE c == Class[g]
           max == c.max_blobs_per_block
           t == c.target_blobs_per_block
           gas == c.blob_gas_per_blob
           target == TargetBlobGas(c)
           part == (used * (max - t)) \div max
           new == excess_blob_gas(c, excess, used, fee)
<1>1. /\ max \in Nat /\ max > 0 /\ t \in Nat /\ t <= max /\ gas \in Nat
      /\ c.blob_reserve_price_active => "Osaka" \in c.ancestors
  BY FeesAssumption
<1>2. target = t * gas /\ Target(c) = target
  BY DEF TargetBlobGas, Target
<1>3. target \in Nat
  BY <1>1, <1>2, TimesNat
<1>4. part \in Int /\ part >= used - target /\ part <= used
  <2> HIDE DEF max, t, gas
  <2> QED
    BY <1>1, <1>2, PartOfUsed DEF max, gas
<1>5. new = IF excess + used >= target /\ ReservePriceActive(c, excess, fee) THEN excess + part
            ELSE IF excess + used < target THEN 0 ELSE excess + used - target
  BY <1>2 DEF excess_blob_gas, CancunExcess
<1>6. ReservePriceActive(c, excess, fee) => "Osaka" \in c.ancestors
  BY <1>1 DEF ReservePriceActive
<1> HIDE DEF new, part, target, c
<1>7. Pays(new, excess + used, target, "Osaka" \in c.ancestors)
  BY <1>3, <1>4, <1>5, <1>6 DEF Pays
<1> QED
  BY <1>7 DEF new, target, c

\* What FeesFollow says of a step.
FeesStep ==
    count' > count =>
        /\ Since(header', "London") =>
              LET fee == parent.base_fee
                  new == header'.base_fee
              IN  IF block'.base_fee # Missing THEN new = block'.base_fee
                  ELSE IF fee = Missing THEN new = 7
                  ELSE IF parent.gas_used > GasLimit \div 2
                  THEN new > fee /\ new <= fee + Larger(1, fee \div 8)
                  ELSE new <= fee /\ new >= fee - fee \div 8
        /\ Since(header', "Cancun") =>
              LET sum == parent.excess + parent.blob_gas_used
                  target == TargetBlobGas(ForkOf(header'))
                  new == header'.excess
              IN  IF block'.excess_blob_gas # Missing THEN new = block'.excess_blob_gas
                  ELSE IF parent.excess = Missing \/ sum < target THEN new = 0
                  ELSE /\ new >= sum - target /\ new <= sum
                       /\ new = sum - target \/ Since(header', "Osaka")

\* Over a transition too the fees of a block follow from its parent: the base fee moves
\* by an eighth at most, against the gas left, and starts at 7; the excess of blob gas
\* starts at 0 and pays off the target of the block's own fork.
THEOREM FeesHold == ForkSpec => FeesFollow
<1>1. ASSUME ForkInv, [ForkNext]_forkVars PROVE FeesStep
  <2> SUFFICES ASSUME count' > count PROVE FeesStep
    BY DEF FeesStep
  <2>1. PICK b : IsBlock(b) /\ Fill(b)
    BY <1>1, BlockSteps
  <2>2. /\ stage = "fill" /\ IsHeader(parent) /\ Fits(parent) /\ Started /\ block' = b
        /\ \E g \in ALL_FORKS : ForkOf(header') = Class[g] /\ Says(Class[g], parent, b, header')
        /\ Later(b, parent)
    BY <1>1, <2>1, BlockMade
  <2>3. PICK g \in ALL_FORKS : ForkOf(header') = Class[g] /\ Says(Class[g], parent, b, header')
    BY <2>2
  <2>4. PICK f \in Forks_ : fork = Fork(f)
    BY <2>2 DEF Started
  <2>5. PICK k \in ALL_FORKS : ForkOf(parent) = Class[k]
    <3>1. parent.number \in Int /\ parent.timestamp \in Int
      BY <2>2 DEF IsHeader
    <3> QED
      BY <2>4, <3>1, ForkClass DEF ForkOf
  <2>6. k \in Class[g].ancestors
    <3>1. ForkOf(parent).ancestors \subseteq ForkOf(header').ancestors
      BY <2>1, <2>2, <2>3, <2>4, BlockFits
    <3> QED
      BY <2>3, <2>5, <3>1, LineageAssumption
  <2>7. parent # Absent /\ parent.gas_used \in Nat /\ parent.gas_used <= GasLimit
    BY <1>1, <2>2 DEF ForkInv, ChainInv, LoadInv, IsHeader
  <2> DEFINE c == Class[g]
             h == header'
             fee == parent.base_fee
             used == parent.blob_gas_used
             sum == parent.excess + used
             target == TargetBlobGas(c)
  <2>8. ASSUME "London" \in c.ancestors, b.base_fee = Missing, fee # Missing
        PROVE  IF parent.gas_used > GasLimit \div 2
               THEN h.base_fee > fee /\ h.base_fee <= fee + Larger(1, fee \div 8)
               ELSE h.base_fee <= fee /\ h.base_fee >= fee - fee \div 8
    <3>1. fee \in Nat
      BY <2>2, <2>8 DEF IsHeader, Optional
    <3>2. h.base_fee = base_fee_per_gas(c, fee, parent.gas_used, GasLimit)
      BY <2>3, <2>8 DEF Says
    <3>3. Moves(h.base_fee, fee, parent.gas_used)
      BY <2>7, <2>8, <3>1, <3>2, BaseFeeMoves
    <3>4. GasLimit \div 2 = 50000
      BY DEF GasLimit
    <3> HIDE DEF h, fee
    <3> QED
      BY <2>7, <3>3, <3>4 DEF Moves
  <2>9. ASSUME "Cancun" \in c.ancestors, b.excess_blob_gas = Missing, parent.excess # Missing
        PROVE  Pays(h.excess, sum, target, "Osaka" \in c.ancestors)
    <3>1. Since(parent, "Cancun")
      BY <2>2, <2>9 DEF Fits
    <3>2. parent.excess \in Nat /\ used \in Nat
      BY <2>2, <2>9, <3>1 DEF IsHeader, Optional, Fits
    <3>3. h.excess = excess_blob_gas(c, parent.excess, used, fee)
      BY <2>3, <2>9 DEF Says
    <3>4. used <= Class[k].max_blobs_per_tx * Class[k].blob_gas_per_blob
      BY <1>1, <2>5, <2>7, <3>1 DEF ForkInv, LoadInv
    <3>5. "Cancun" \in Class[k].ancestors
      BY <2>5, <3>1 DEF Since
    <3>6. /\ Class[k].blob_gas_per_blob = c.blob_gas_per_blob
          /\ Class[k].max_blobs_per_tx <= c.max_blobs_per_block
      BY <2>6, <3>5, BlobsAssumption
    <3>7. /\ Class[k].max_blobs_per_tx \in Nat /\ c.max_blobs_per_block \in Nat
          /\ c.blob_gas_per_blob \in Nat
      BY FeesAssumption
    <3>8. Class[k].max_blobs_per_tx * c.blob_gas_per_blob
              <= c.max_blobs_per_block * c.blob_gas_per_blob
      BY <3>6, <3>7, TimesLe
    <3>9. used <= c.max_blobs_per_block * c.blob_gas_per_blob
      <4>1. /\ Class[k].max_blobs_per_tx * c.blob_gas_per_blob \in Nat
            /\ c.max_blobs_per_block * c.blob_gas_per_blob \in Nat
        BY <3>7, TimesNat
      <4> QED
        BY <3>2, <3>4, <3>6, <3>8, <4>1
    <3> QED
      BY <2>9, <3>2, <3>3, <3>9, ExcessPays
  <2>10. /\ block' = b /\ ForkOf(h) = c
         /\ \A n : Since(h, n) <=> n \in c.ancestors
    BY <2>2, <2>3 DEF Since
  <2>11. "London" \in c.ancestors => h.base_fee = IF b.base_fee # Missing THEN b.base_fee
                                                  ELSE IF fee = Missing THEN 7 ELSE h.base_fee
    BY <2>3 DEF Says
  <2>12. "Cancun" \in c.ancestors => h.excess = IF b.excess_blob_gas # Missing THEN b.excess_blob_gas
                                                ELSE IF parent.excess = Missing THEN 0 ELSE h.excess
    BY <2>3 DEF Says
  <2> HIDE DEF c, h, fee, sum, target
  <2>13. "London" \in c.ancestors =>
            IF b.base_fee # Missing THEN h.base_fee = b.base_fee
            ELSE IF fee = Missing THEN h.base_fee = 7
            ELSE IF parent.gas_used > GasLimit \div 2
            THEN h.base_fee > fee /\ h.base_fee <= fee + Larger(1, fee \div 8)
            ELSE h.base_fee <= fee /\ h.base_fee >= fee - fee \div 8
    BY <2>8, <2>11, Zenon
  <2>14. "Cancun" \in c.ancestors =>
            IF b.excess_blob_gas # Missing THEN h.excess = b.excess_blob_gas
            ELSE IF parent.excess = Missing \/ sum < target THEN h.excess = 0
            ELSE /\ h.excess >= sum - target /\ h.excess <= sum
                 /\ h.excess = sum - target \/ "Osaka" \in c.ancestors
    BY <2>9, <2>12 DEF Pays
  <2> QED
    BY <2>10, <2>13, <2>14, Zenon DEF FeesStep, h, fee, sum, target
<1>2. [][FeesStep]_forkVars => FeesFollow
  BY PTL DEF FeesStep, FeesFollow
<1> QED
  BY <1>1, <1>2, ForkInvariance, PTL DEF ForkSpec

------------------------------------------------------------------------------
(* Selection.                                                                 *)

LEMMA TransitionTargets ==
  /\ \A f \in Forks_ : transitions_to(f) \in ALL_FORKS
  /\ \A f \in ALL_FORKS : transitions_to(f) = f
  /\ \A f \in ALL_TRANSITION_FORKS : transitions_to(f) = Transitions[f].to /\ f \notin ALL_FORKS
  BY LineageAssumption DEF transitions_to, Forks_

\* Above each deployed fork there is one that no deployed fork inherits from.
LEMMA LastDeployed ==
  ASSUME NEW f \in get_deployed_forks
  PROVE  \E b \in get_forks_with_no_descendants(get_deployed_forks) : f \in Class[b].ancestors
<1> DEFINE D == get_deployed_forks
           above == {b \in D : f \in Class[b].ancestors}
           rest(b) == ALL_FORKS \ Class[b].ancestors
           T == {rest(b) : b \in above}
           R == StrictSubsetOrdering(ALL_FORKS)
           S == FiniteSubsetsOf(ALL_FORKS)
<1>1. D \subseteq ALL_FORKS
  BY DEF get_deployed_forks
<1>2. f \in above
  BY <1>1, LineageAssumption
<1>3. T # {}
  BY <1>2
<1>4. T \subseteq S
  <2>1. \A b : rest(b) \subseteq ALL_FORKS /\ IsFiniteSet(rest(b))
    BY LineageAssumption, FS_Subset
  <2> QED
    BY <2>1 DEF FiniteSubsetsOf
<1>5. IsWellFoundedOn(R, S)
  BY FS_StrictSubsetOrderingWellFounded
<1>6. PICK x \in T : \A y \in T : <<y, x>> \notin R
  <2> HIDE DEF R, S, T
  <2> QED
    BY <1>3, <1>4, <1>5, WFMin
<1>7. PICK b \in above : x = rest(b)
  OBVIOUS
<1>8. ASSUME NEW g \in D \ {b}, Lt(b, g) PROVE FALSE
  <2>1. b \in ALL_FORKS /\ g \in ALL_FORKS /\ b \in Class[g].ancestors
    BY <1>1, <1>8, TransitionTargets DEF Lt, Inherits
  <2>2. Class[b].ancestors \subseteq Class[g].ancestors
    BY <2>1, LineageAssumption
  <2>3. g \in Class[g].ancestors /\ g \notin Class[b].ancestors
    BY <1>8, <2>1, LineageAssumption
  <2>4. rest(g) \subseteq ALL_FORKS /\ rest(b) \subseteq ALL_FORKS /\ rest(g) \subseteq rest(b)
        /\ rest(g) # rest(b)
    BY <2>1, <2>2, <2>3
  <2>5. <<rest(g), rest(b)>> \in R
    BY <2>4 DEF StrictSubsetOrdering
  <2>6. g \in above
    BY <1>7, <2>2
  <2> QED
    BY <1>6, <1>7, <2>5, <2>6
<1>9. b \in get_forks_with_no_descendants(D)
  BY <1>8 DEF get_forks_with_no_descendants
<1> QED
  BY <1>7, <1>9

LEMMA SelectedForks ==
  ASSUME NEW one, NEW from, NEW until, NEW transitions,
         one \subseteq Forks_, from \subseteq Forks_, until \subseteq Forks_,
         NEW f \in get_selected_fork_set(one, from, until, transitions)
  PROVE  \/ transitions_to(f) \in get_deployed_forks
         \/ \E n \in (one \union from \union until) \ get_deployed_forks : Le(f, n)
<1> DEFINE D == get_deployed_forks
           first == IF from = {} THEN get_forks_with_no_parents(ALL_FORKS) ELSE from
           last == IF until = {} THEN get_last_descendants(D, first) ELSE until
           forks == IF one # {} THEN one ELSE get_from_until_fork_set(first, last)
<1>1. D \subseteq ALL_FORKS
  BY DEF get_deployed_forks
<1>2. PICK g \in forks : f = g \/ (f \in ALL_TRANSITION_FORKS /\ Transitions[f].to = g)
  <2>1. f \in forks \/ f \in TransitionsTo(forks)
    BY DEF get_selected_fork_set
  <2> HIDE DEF forks
  <2> QED
    BY <2>1 DEF TransitionsTo, transition_fork_to
<1>3. CASE one # {}
  <2>1. g \in one
    BY <1>2, <1>3
  <2>2. f # g => g \in ALL_FORKS /\ transitions_to(f) = g
    BY <1>2, LineageAssumption, TransitionTargets
  <2>3. g \in D => transitions_to(f) \in D
    BY <1>1, <2>2, TransitionTargets
  <2>4. Le(f, g)
    BY <2>2, LineageAssumption, TransitionTargets DEF Le, Inherits
  <2> QED
    BY <2>1, <2>3, <2>4
<1>4. CASE one = {}
  <2>1. g \in get_from_until_fork_set(first, last)
    BY <1>2, <1>4
  <2>2. g \in ALL_FORKS /\ \E b \in last : Le(g, b)
    <3> HIDE DEF first, last
    <3> QED
      BY <2>1 DEF get_from_until_fork_set
  <2>3. PICK b \in last : Le(g, b)
    BY <2>2
  <2>4. transitions_to(f) = g
    BY <1>2, <2>2, TransitionTargets
  <2>5. g \in Class[transitions_to(b)].ancestors
    BY <2>2, <2>3, LineageAssumption, TransitionTargets DEF Le, Inherits
  <2>6. b \in D => g \in D
    BY <1>1, <2>5, TransitionTargets, DeployedAssumption
  <2>7. Le(f, b)
    BY <2>4, <2>5 DEF Le, Inherits
  <2>8. b \in D \/ b \in until
    <3>1. get_last_descendants(D, first) \subseteq D
      BY DEF get_last_descendants, get_forks_with_no_descendants
    <3> QED
      BY <3>1
  <2> QED
    BY <2>4, <2>6, <2>7, <2>8
<1> QED
  BY <1>3, <1>4

LEMMA SelectedByDefault ==
  ASSUME NEW transitions
  PROVE  get_selected_fork_set({}, {}, {}, transitions) \intersect ALL_FORKS = get_deployed_forks
<1> DEFINE D == get_deployed_forks
           first == get_forks_with_no_parents(ALL_FORKS)
           last == get_last_descendants(D, first)
           range == get_from_until_fork_set(first, last)
           all == get_selected_fork_set({}, {}, {}, transitions)
<1>1. D \subseteq ALL_FORKS
  BY DEF get_deployed_forks
<1>2. TransitionsTo(range) \intersect ALL_FORKS = {}
  BY TransitionTargets DEF TransitionsTo, transition_fork_to
<1>3. range \subseteq ALL_FORKS
  BY DEF get_from_until_fork_set
<1>4. all = range \union IF transitions THEN TransitionsTo(range) ELSE {}
  BY DEF get_selected_fork_set
<1>5. all \intersect ALL_FORKS = range
  <2> HIDE DEF range, all
  <2> QED
    BY <1>2, <1>3, <1>4
<1>6. range \subseteq D
  <2> SUFFICES ASSUME NEW g \in range PROVE g \in D
    OBVIOUS
  <2>1. PICK b \in last : Le(g, b)
    BY DEF get_from_until_fork_set
  <2>2. b \in D
    BY DEF get_last_descendants, get_forks_with_no_descendants
  <2>3. g \in Class[b].ancestors
    BY <1>1, <1>3, <2>1, <2>2, LineageAssumption, TransitionTargets DEF Le, Inherits
  <2> QED
    BY <2>2, <2>3, DeployedAssumption
<1>7. ASSUME NEW g \in D PROVE g \in range
  <2>1. PICK root \in ALL_FORKS : \A x \in ALL_FORKS : root \in Class[x].ancestors
    BY DeployedAssumption
  <2>2. root \in first
    <3>1. ASSUME NEW x \in ALL_FORKS \ {root}, Lt(x, root) PROVE FALSE
      <4>1. x \in Class[root].ancestors
        BY <3>1, TransitionTargets DEF Lt, Inherits
      <4> QED
        BY <2>1, <4>1, LineageAssumption
    <3> QED
      BY <3>1 DEF get_forks_with_no_parents
  <2>3. PICK b \in get_forks_with_no_descendants(D) : g \in Class[b].ancestors
    BY LastDeployed
  <2>4. b \in D
    BY DEF get_forks_with_no_descendants
  <2>5. Le(root, b) /\ Le(root, g) /\ Le(g, b)
    BY <1>1, <1>7, <2>1, <2>3, <2>4, TransitionTargets DEF Le, Inherits
  <2>6. b \in last
    BY <2>2, <2>5 DEF get_last_descendants
  <2> HIDE DEF first, last
  <2> QED
    BY <1>1, <1>7, <2>2, <2>5, <2>6 DEF get_from_until_fork_set
<1> QED
  BY <1>5, <1>6, <1>7

LEMMA ValidForks ==
  ASSUME NEW m, NEW f \in get_test_fork_set(m)
  PROVE  /\ f \in ALL_TRANSITION_FORKS => f \in m.at \/ m.to # {}
         /\ Inherits(f, "BPO1") => m.bpo
<1>1. ASSUME f \in ALL_TRANSITION_FORKS, m.to = {} PROVE f \in m.at
  <2>1. f \notin ALL_FORKS
    BY <1>1, TransitionTargets
  <2>2. ~NoMarker(m)
    BY <2>1 DEF get_test_fork_set
  <2>3. m.from = {} /\ m.until = {}
    BY <2>1 DEF get_test_fork_set, ValidFrom, ValidUntil
  <2>4. m.at # {}
    BY <1>1, <2>2, <2>3 DEF NoMarker
  <2> QED
    BY <2>4 DEF get_test_fork_set
<1>2. ASSUME Inherits(f, "BPO1"), ~m.bpo PROVE FALSE
  <2>1. f \in Forks_ /\ f \notin BpoForks \union TransitionsTo(BpoForks)
    BY <1>2 DEF get_test_fork_set, ValidForBPOForks, Forks_
  <2>2. "BPO1" \in Class[transitions_to(f)].ancestors
    BY <1>2, DeployedAssumption, TransitionTargets DEF Inherits
  <2>3. transitions_to(f) \in BpoForks
    BY <2>1, <2>2, DeployedAssumption, TransitionTargets DEF BpoForks
  <2>4. f = transitions_to(f) \/ f \in TransitionsTo(BpoForks)
    BY <2>1, <2>3, TransitionTargets DEF TransitionsTo, transition_fork_to, Forks_
  <2> QED
    BY <2>1, <2>3, <2>4
<1> QED
  BY <1>1, <1>2

SelectionInv == SelectedAsAsked /\ (stage \in {"configure", "collect"} => tests = {})

\* A session fills for a fork that is not deployed only when the command line names one it
\* leads up to, and without a range for every deployed one; a test runs at a transition,
\* or at a blob-parameter fork, only when its markers say so.
THEOREM SelectsAsAsked == ForkSpec => []SelectedAsAsked
<1>1. ForkInit => SelectionInv
  BY DEF ForkInit, SelectionInv, SelectedAsAsked
<1>2. ASSUME SelectionInv, [ForkNext]_forkVars PROVE SelectionInv'
  <2>1. CASE Configure
    <3>1. /\ stage = "configure" /\ tests' = tests /\ markers' = markers /\ tests = {}
      BY <1>2, <2>1 DEF Configure, SelectionInv, selection
    <3>2. CASE stage' = "usage error"
      BY <3>1, <3>2 DEF SelectionInv, SelectedAsAsked
    <3>3. CASE stage' # "usage error"
      <4>1. PICK c \in CommandLines :
               /\ selected' = get_selected_fork_set(c.single, c.from, c.until, ~c.skip_transitions)
               /\ named' = c.single \union c.from \union c.until
        BY <2>1, <3>3 DEF Configure
      <4>2. c.single \subseteq Forks_ /\ c.from \subseteq Forks_ /\ c.until \subseteq Forks_
        BY InputsAssumption
      <4>3. \A f \in selected' : \/ transitions_to(f) \in get_deployed_forks
                                 \/ \E n \in named' \ get_deployed_forks : Le(f, n)
        BY <4>1, <4>2, SelectedForks
      <4>4. named' = {} => selected' \intersect ALL_FORKS = get_deployed_forks
        <5> SUFFICES ASSUME named' = {} PROVE selected' \intersect ALL_FORKS = get_deployed_forks
          OBVIOUS
        <5>1. c.single = {} /\ c.from = {} /\ c.until = {}
          BY <4>1
        <5> QED
          BY <4>1, <5>1, SelectedByDefault
      <4> QED
        BY <3>1, <4>3, <4>4 DEF SelectionInv, SelectedAsAsked
    <3> QED
      BY <3>2, <3>3
  <2>2. CASE Collect
    <3>1. stage = "collect" /\ stage' \in {"failed", "start"} /\ selected' = selected /\ named' = named
      BY <2>2 DEF Collect
    <3>2. CASE stage' = "failed"
      <4>1. tests' = tests /\ markers' = markers
        BY <2>2, <3>2 DEF Collect
      <4> QED
        BY <1>2, <3>1, <3>2, <4>1 DEF SelectionInv, SelectedAsAsked
    <3>3. CASE stage' # "failed"
      <4>1. PICK m \in MarkerSets : markers' = m /\ tests' = get_test_fork_set(m) \intersect selected
        BY <2>2, <3>3 DEF Collect
      <4>2. \A f \in tests' : /\ f \in ALL_TRANSITION_FORKS => f \in markers'.at \/ markers'.to # {}
                              /\ Inherits(f, "BPO1") => markers'.bpo
        BY <4>1, ValidForks
      <4> QED
        BY <1>2, <3>1, <3>3, <4>2 DEF SelectionInv, SelectedAsAsked
    <3> QED
      BY <3>2, <3>3
  <2>3. CASE Start
    BY <2>3 DEF Start, SelectionInv, SelectedAsAsked
  <2>4. ASSUME UNCHANGED selection, stage' \notin {"configure", "collect", "start"}
        PROVE  SelectionInv'
    BY <1>2, <2>4 DEF selection, SelectionInv, SelectedAsAsked
  <2>5. CASE BlockchainTest
    <3>1. PICK g : MakeGenesis(g, Absent)
      BY <2>5 DEF BlockchainTest
    <3> QED
      BY <2>4, <3>1 DEF MakeGenesis
  <2>6. CASE StateTest
    <3>1. PICK g, s : MakeGenesis(g, s)
      BY <2>6 DEF StateTest
    <3> QED
      BY <2>4, <3>1 DEF MakeGenesis
  <2>7. CASE FillStateTest
    <3>1. PICK b : Fill(b)
      BY <2>7 DEF FillStateTest
    <3>2. UNCHANGED selection /\ stage' \in {"fill", "error"}
      BY <3>1 DEF Fill, GenerateBlockData, Join
    <3> QED
      BY <2>4, <3>2
  <2>8. CASE FillBlock
    <3>1. PICK b : Fill(b)
      BY <2>8 DEF FillBlock
    <3>2. UNCHANGED selection /\ stage' \in {"fill", "error"}
      BY <3>1 DEF Fill, GenerateBlockData, Join
    <3> QED
      BY <2>4, <3>2
  <2>9. CASE UNCHANGED forkVars
    BY <1>2, <2>9 DEF forkVars, selection, SelectionInv, SelectedAsAsked
  <2> QED
    BY <1>2, <2>1, <2>2, <2>3, <2>5, <2>6, <2>7, <2>8, <2>9 DEF ForkNext
<1>3. SelectionInv => SelectedAsAsked
  BY DEF SelectionInv
<1> QED
  BY <1>1, <1>2, <1>3, PTL DEF ForkSpec

------------------------------------------------------------------------------
(* The access lists of blocks.  Numbers, and folds over sequences.            *)

LEMMA LeastNat ==
  ASSUME NEW T, T \subseteq Nat, T # {}
  PROVE  Min(T) \in T /\ \A y \in T : Min(T) <= y
<1>1. PICK x \in T : \A y \in T : ~(<<y, x>> \in OpToRel(<, Nat))
  BY NatLessThanWellFounded, WFMin
<1>2. \A y \in T : ~(y < x)
  BY <1>1 DEF OpToRel
<1>3. \A y \in T : x <= y
  BY <1>2
<1> QED
  BY <1>3 DEF Min

LEMMA GreatestNat ==
  ASSUME NEW n \in Nat, NEW T \in SUBSET (1..n), T # {}
  PROVE  Max(T) \in T /\ \A y \in T : Max(T) >= y
<1> DEFINE U == {u \in Nat : \A y \in T : y <= u}
           u == Min(U)
<1>1. U \subseteq Nat /\ n \in U
  OBVIOUS
<1>2. u \in U /\ \A v \in U : u <= v
  BY <1>1, LeastNat
<1> HIDE DEF u
<1>3. u \in T
  <2> SUFFICES ASSUME u \notin T PROVE FALSE
    OBVIOUS
  <2>1. PICK y \in T : y \in 1..n /\ y <= u /\ y # u
    BY <1>2
  <2>2. u - 1 \in Nat /\ \A z \in T : z <= u - 1
    BY <1>2, <2>1
  <2> QED
    BY <1>2, <2>2
<1>4. \A y \in T : u >= y
  BY <1>2
<1> QED
  BY <1>3, <1>4 DEF Max

\* The function that a fold over 1..n is defined by exists.
IsFold(f, n, V, base, next) ==
  /\ f \in [SUBSET (1..n) -> V]
  /\ \A s \in SUBSET (1..n) :
       f[s] = IF s = {} THEN base ELSE next[<<Max(s), f[s \ {Max(s)}]>>]

LEMMA FoldExists ==
  ASSUME NEW n \in Nat, NEW V, NEW base \in V, NEW next \in [(1..n) \X V -> V]
  PROVE  \E f : IsFold(f, n, V, base, next)
<1> DEFINE S == SUBSET (1..n)
           Value(f, s) == IF s = {} THEN base ELSE next[<<Max(s), f[s \ {Max(s)}]>>]
           UpTo(k) == \E f \in [S -> V] : \A s \in S : Cardinality(s) <= k => f[s] = Value(f, s)
           bad == {k \in Nat : ~UpTo(k)}
<1>1. \A s \in S : IsFiniteSet(s) /\ Cardinality(s) \in Nat
  <2> SUFFICES ASSUME NEW s \in S PROVE IsFiniteSet(s) /\ Cardinality(s) \in Nat
    OBVIOUS
  <2>1. IsFiniteSet(1..n) /\ s \subseteq 1..n
    BY FS_Interval
  <2>2. IsFiniteSet(s)
    BY <2>1, FS_Subset
  <2> QED
    BY <2>2, FS_CardinalityType
<1>2. ASSUME NEW s \in S, s # {}
      PROVE  /\ Max(s) \in 1..n /\ s \ {Max(s)} \in S
             /\ Cardinality(s \ {Max(s)}) = Cardinality(s) - 1
  BY <1>1, <1>2, GreatestNat, FS_RemoveElement
<1>3. ASSUME NEW f \in [S -> V], NEW s \in S
      PROVE  Value(f, s) \in V
  BY <1>2
<1>4. UpTo(0)
  <2> DEFINE f == [s \in S |-> base]
  <2>1. f \in [S -> V]
    OBVIOUS
  <2>2. ASSUME NEW s \in S, Cardinality(s) <= 0
        PROVE  f[s] = Value(f, s)
    <3>1. s = {}
      BY <1>1, <2>2, FS_EmptySet
    <3> QED
      BY <3>1
  <2> QED
    BY <2>1, <2>2
<1>5. ASSUME NEW k \in Nat, UpTo(k)
      PROVE  UpTo(k + 1)
  <2>1. PICK f \in [S -> V] : \A s \in S : Cardinality(s) <= k => f[s] = Value(f, s)
    BY <1>5
  <2> DEFINE g == [s \in S |-> IF Cardinality(s) <= k THEN f[s] ELSE Value(f, s)]
  <2>2. g \in [S -> V]
    BY <1>3
  <2>3. ASSUME NEW s \in S, Cardinality(s) <= k + 1
        PROVE  g[s] = Value(f, s) /\ Value(g, s) = Value(f, s)
    <3>1. g[s] = Value(f, s)
      BY <2>1
    <3>2. CASE s = {}
      BY <3>1, <3>2
    <3>3. CASE s # {}
      <4>1. s \ {Max(s)} \in S /\ Cardinality(s \ {Max(s)}) <= k
        BY <1>1, <1>2, <2>3, <3>3
      <4>2. g[s \ {Max(s)}] = f[s \ {Max(s)}]
        BY <4>1
      <4> QED
        BY <3>1, <3>3, <4>2
    <3> QED
      BY <3>2, <3>3
  <2> HIDE DEF g, Value
  <2> QED
    BY <2>2, <2>3
<1> HIDE DEF UpTo
<1>6. bad = {}
  <2> SUFFICES ASSUME bad # {} PROVE FALSE
    OBVIOUS
  <2> DEFINE k == Min(bad)
  <2>1. k \in bad /\ \A j \in bad : k <= j
    BY LeastNat
  <2> HIDE DEF k
  <2>2. k # 0 /\ k - 1 \in Nat
    BY <1>4, <2>1
  <2>3. UpTo(k - 1)
    BY <2>1, <2>2
  <2> QED
    BY <1>5, <2>1, <2>2, <2>3
<1>7. UpTo(n)
  BY <1>6
<1>8. \A s \in S : Cardinality(s) <= n
  <2> SUFFICES ASSUME NEW s \in S PROVE Cardinality(s) <= n
    OBVIOUS
  <2>1. IsFiniteSet(1..n) /\ Cardinality(1..n) = n /\ s \subseteq 1..n
    BY FS_Interval
  <2> DEFINE I == 1..n
  <2> HIDE DEF I
  <2>2. Cardinality(s) <= Cardinality(I)
    BY <2>1, FS_Subset DEF I
  <2> QED
    BY <2>1, <2>2 DEF I
<1> QED
  BY <1>7, <1>8 DEF UpTo, IsFold

LEMMA Segments ==
  ASSUME NEW n \in Nat, NEW k \in 1..n
  PROVE  /\ 1..k \in SUBSET (1..n) /\ 1..(k - 1) \in SUBSET (1..n)
         /\ 1..k # {} /\ Max(1..k) = k /\ (1..k) \ {k} = 1..(k - 1)
<1>1. 1..k \in SUBSET (1..n) /\ k \in 1..k /\ (1..k) \ {k} = 1..(k - 1)
  OBVIOUS
<1>2. Max(1..k) \in 1..k /\ \A y \in 1..k : Max(1..k) >= y
  BY <1>1, GreatestNat
<1> QED
  BY <1>1, <1>2

\* Of a sequence in which each is below the next, each is below all that follow.
LEMMA Adjacent ==
  ASSUME NEW n \in Nat, NEW q, \A i \in 1..n : q[i] \in Int, \A i \in 2..n : q[i - 1] < q[i],
         NEW i \in 1..n, NEW j \in 1..n, i < j
  PROVE  q[i] < q[j]
<1> DEFINE bad == {k \in Nat : k \in 1..n /\ i < k /\ ~(q[i] < q[k])}
<1>1. bad = {}
  <2> SUFFICES ASSUME bad # {} PROVE FALSE
    OBVIOUS
  <2> DEFINE k == Min(bad)
  <2>1. k \in bad /\ \A l \in bad : k <= l
    BY LeastNat
  <2> HIDE DEF k
  <2>2. k \in 2..n /\ q[k - 1] < q[k] /\ ~(q[i] < q[k]) /\ i < k /\ k - 1 \in 1..n
    BY <2>1
  <2>3. CASE i = k - 1
    BY <2>2, <2>3
  <2>4. CASE i # k - 1
    <3>1. q[i] < q[k - 1]
      BY <2>1, <2>2, <2>4
    <3> QED
      BY <2>2, <3>1
  <2> QED
    BY <2>3, <2>4
<1> QED
  BY <1>1

\* A walk that takes for each of n entries the first of m that is left and related to
\* it comes to the end just when there is a way to take related entries in order.
Rising(at, n) == \A i, j \in 1..n : i < j => at[i] < at[j]

LEMMA Greedy ==
  ASSUME NEW n \in Nat, NEW m \in Nat, NEW R, NEW c,
         c[0] = 1,
         \A k \in 1..n :
           LET later == {j \in 1..m : j >= c[k - 1] /\ <<k, j>> \in R}
           IN  c[k] = IF c[k - 1] = 0 \/ later = {} THEN 0 ELSE Min(later) + 1
  PROVE  c[n] # 0 <=> \E at \in [1..n -> 1..m] : Rising(at, n) /\ \A i \in 1..n : <<i, at[i]>> \in R
<1> DEFINE later(k) == {j \in 1..m : j >= c[k - 1] /\ <<k, j>> \in R}
<1>1. \A k \in 1..n : c[k] = IF c[k - 1] = 0 \/ later(k) = {} THEN 0 ELSE Min(later(k)) + 1
  OBVIOUS
<1>2. ASSUME NEW k \in 1..n, later(k) # {}
      PROVE  Min(later(k)) \in later(k) /\ \A j \in later(k) : Min(later(k)) <= j
  <2>1. later(k) \subseteq Nat
    OBVIOUS
  <2> HIDE DEF later
  <2> QED
    BY <1>2, <2>1, LeastNat
<1>3. ASSUME c[n] # 0
      PROVE  \E at \in [1..n -> 1..m] : Rising(at, n) /\ \A i \in 1..n : <<i, at[i]>> \in R
  <2> DEFINE bad == {j \in Nat : j <= n /\ c[n - j] = 0}
  <2>1. bad = {}
    <3> SUFFICES ASSUME bad # {} PROVE FALSE
      OBVIOUS
    <3> DEFINE j == Min(bad)
    <3>1. j \in bad /\ \A l \in bad : j <= l
      BY LeastNat
    <3> HIDE DEF j
    <3>2. j # 0 /\ j - 1 \in Nat /\ n - (j - 1) \in 1..n /\ (n - (j - 1)) - 1 = n - j
      BY <1>3, <3>1
    <3> DEFINE k == n - (j - 1)
    <3> HIDE DEF later
    <3>3. c[k] = 0
      <4>1. k \in 1..n /\ c[k - 1] = 0
        BY <3>1, <3>2
      <4> HIDE DEF k
      <4> QED
        BY <1>1, <4>1
    <3>4. j - 1 \in bad
      BY <3>1, <3>2, <3>3
    <3> QED
      BY <3>1, <3>2, <3>4
  <2>2. \A k \in 0..n : c[k] # 0
    <3> SUFFICES ASSUME NEW k \in 0..n, c[k] = 0 PROVE FALSE
      OBVIOUS
    <3>1. n - k \in Nat /\ n - k <= n /\ n - (n - k) = k
      OBVIOUS
    <3> QED
      BY <2>1, <3>1
  <2> DEFINE at == [i \in 1..n |-> Min(later(i))]
  <2>3. \A i \in 1..n : later(i) # {} /\ c[i] = at[i] + 1
    <3> HIDE DEF later
    <3> SUFFICES ASSUME NEW i \in 1..n PROVE later(i) # {} /\ c[i] = at[i] + 1
      OBVIOUS
    <3>1. i \in 0..n /\ i - 1 \in 0..n
      OBVIOUS
    <3> QED
      BY <1>1, <2>2, <3>1
  <2>4. \A i \in 1..n : at[i] \in 1..m /\ at[i] >= c[i - 1] /\ <<i, at[i]>> \in R
    BY <1>2, <2>3
  <2> HIDE DEF at, later
  <2>5. \A i \in 2..n : at[i - 1] < at[i]
    <3> SUFFICES ASSUME NEW i \in 2..n PROVE at[i - 1] < at[i]
      OBVIOUS
    <3>1. i \in 1..n /\ i - 1 \in 1..n
      OBVIOUS
    <3>2. c[i - 1] = at[i - 1] + 1
      BY <2>3, <3>1
    <3>3. at[i] \in 1..m /\ at[i] >= c[i - 1] /\ at[i - 1] \in 1..m
      BY <2>4, <3>1
    <3> QED
      BY <3>2, <3>3
  <2>6. \A i \in 1..n : at[i] \in Int
    <3> SUFFICES ASSUME NEW i \in 1..n PROVE at[i] \in Int
      OBVIOUS
    <3>1. at[i] \in 1..m
      BY <2>4
    <3> QED
      BY <3>1
  <2>7. Rising(at, n)
    BY <2>5, <2>6, Adjacent DEF Rising
  <2>8. at \in [1..n -> 1..m]
    BY <2>4 DEF at
  <2> QED
    BY <2>4, <2>7, <2>8
<1>4. ASSUME NEW at \in [1..n -> 1..m], Rising(at, n), \A i \in 1..n : <<i, at[i]>> \in R
      PROVE  c[n] # 0
  <2> DEFINE Good(k) == c[k] \in Nat /\ c[k] # 0 /\ (k > 0 => c[k] <= at[k] + 1)
             bad == {k \in Nat : k <= n /\ ~Good(k)}
  <2>1. bad = {}
    <3> SUFFICES ASSUME bad # {} PROVE FALSE
      OBVIOUS
    <3> DEFINE k == Min(bad)
    <3>1. k \in bad /\ \A l \in bad : k <= l
      BY LeastNat
    <3> HIDE DEF k
    <3>2. k # 0
      BY <3>1
    <3>3. k \in 1..n /\ k - 1 \in Nat /\ k - 1 <= n /\ k - 1 \notin bad
      BY <3>1, <3>2
    <3>4. Good(k - 1)
      BY <3>3
    <3>5. at[k] \in 1..m /\ at[k] >= c[k - 1]
      <4>1. CASE k - 1 = 0
        BY <3>3, <4>1
      <4>2. CASE k - 1 > 0
        <5>1. k - 1 \in 1..n /\ k - 1 < k
          BY <3>3, <4>2
        <5>2. at[k - 1] < at[k] /\ at[k - 1] \in 1..m /\ at[k] \in 1..m
          BY <1>4, <3>3, <5>1 DEF Rising
        <5> QED
          BY <3>4, <4>2, <5>2
      <4> QED
        BY <3>3, <4>1, <4>2
    <3>6. at[k] \in later(k)
      BY <1>4, <3>3, <3>5
    <3>7. Min(later(k)) \in later(k) /\ Min(later(k)) <= at[k]
      BY <1>2, <3>3, <3>6
    <3>8. c[k] = Min(later(k)) + 1
      <4> HIDE DEF later
      <4> QED
        BY <1>1, <3>3, <3>4, <3>6
    <3>9. Min(later(k)) \in Nat
      BY <3>7
    <3> HIDE DEF later
    <3>10. Good(k)
      BY <3>5, <3>7, <3>8, <3>9
    <3> QED
      BY <3>1, <3>10
  <2> QED
    BY <2>1
<1> QED
  BY <1>3, <1>4

------------------------------------------------------------------------------
(* Walks through an actual list.                                              *)

\* Where a walk stands after each of the entries that are expected.
Walks(c, expected, actual) ==
  /\ c[0] = 1
  /\ \A k \in 1..Len(expected) :
       LET later == {j \in 1..Len(actual) : j >= c[k - 1] /\ actual[j] = expected[k]}
       IN  c[k] = IF c[k - 1] = 0 \/ later = {} THEN 0 ELSE Min(later) + 1
  /\ Walk(expected, actual) <=> c[Len(expected)] # 0

LEMMA WalkRuns ==
  ASSUME NEW X, NEW Y, NEW expected \in Seq(X), NEW actual \in Seq(Y)
  PROVE  \E c : Walks(c, expected, actual)
<1> DEFINE n == Len(expected)
           Onward(at, x) == {j \in DOMAIN actual : j >= at /\ actual[j] = x}
           OneOn(at, x) == IF at = 0 \/ Onward(at, x) = {} THEN 0 ELSE Min(Onward(at, x)) + 1
           next == [p \in (1..n) \X Nat |-> OneOn(p[2], expected[p[1]])]
           Fold(g) == g = [s \in SUBSET (DOMAIN expected) |->
                             IF s = {} THEN 1 ELSE OneOn(g[s \ {Max(s)}], expected[Max(s)])]
           fold == CHOOSE g : Fold(g)
<1>1. n \in Nat /\ DOMAIN expected = 1..n /\ DOMAIN actual = 1..Len(actual)
  OBVIOUS
<1>2. \A at, x : OneOn(at, x) \in Nat
  <2> SUFFICES ASSUME NEW at, NEW x, ~(at = 0 \/ Onward(at, x) = {})
               PROVE  Min(Onward(at, x)) + 1 \in Nat
    OBVIOUS
  <2>1. Onward(at, x) \subseteq Nat
    BY <1>1
  <2> HIDE DEF Onward
  <2>2. Min(Onward(at, x)) \in Nat
    BY <2>1, LeastNat
  <2> QED
    BY <2>2
<1>3. next \in [(1..n) \X Nat -> Nat]
  <2> HIDE DEF OneOn
  <2> QED
    BY <1>2
<1>4. \A i \in 1..n, v \in Nat : next[<<i, v>>] = OneOn(v, expected[i])
  OBVIOUS
<1>5. Walk(expected, actual) <=> fold[DOMAIN expected] # 0
  BY DEF Walk, FoldLeft, MapThenFoldSet
<1> HIDE DEF next, OneOn
<1>6. PICK f : IsFold(f, n, Nat, 1, next)
  <2> HIDE DEF n
  <2>1. 1 \in Nat
    OBVIOUS
  <2> QED
    BY <1>1, <1>3, <2>1, FoldExists
<1>7. Fold(f)
  <2>1. ASSUME NEW s \in SUBSET (1..n), s # {}
        PROVE  next[<<Max(s), f[s \ {Max(s)}]>>] = OneOn(f[s \ {Max(s)}], expected[Max(s)])
    <3>1. Max(s) \in 1..n /\ s \ {Max(s)} \in SUBSET (1..n)
      BY <1>1, <2>1, GreatestNat
    <3> QED
      BY <1>4, <1>6, <3>1 DEF IsFold
  <2> QED
    BY <1>1, <1>6, <2>1 DEF IsFold
<1>8. Fold(fold)
  BY <1>7
<1> HIDE DEF fold
<1> DEFINE c == [k \in 0..n |-> fold[1..k]]
<1>9. c[0] = 1
  <2>1. fold[{}] = 1
    BY <1>8
  <2>2. 1..0 = {}
    OBVIOUS
  <2> QED
    BY <1>1, <2>1, <2>2
<1>10. ASSUME NEW k \in 1..n
       PROVE  c[k] = OneOn(c[k - 1], expected[k])
  <2>1. /\ 1..k \in SUBSET (1..n) /\ 1..k # {} /\ Max(1..k) = k
        /\ (1..k) \ {k} = 1..(k - 1)
    BY <1>1, Segments
  <2>2. fold[1..k] = OneOn(fold[1..(k - 1)], expected[k])
    BY <1>1, <1>8, <2>1
  <2>3. k \in 0..n /\ k - 1 \in 0..n
    BY <1>1
  <2> QED
    BY <2>2, <2>3
<1>11. c[n] = fold[DOMAIN expected]
  BY <1>1
<1> HIDE DEF c
<1>12. \A k \in 1..n :
         LET later == {j \in 1..Len(actual) : j >= c[k - 1] /\ actual[j] = expected[k]}
         IN  c[k] = IF c[k - 1] = 0 \/ later = {} THEN 0 ELSE Min(later) + 1
  BY <1>1, <1>10 DEF OneOn
<1> QED
  BY <1>5, <1>9, <1>11, <1>12 DEF Walks

\* Where a walk through the storage stands after each of the entries that are expected.
WalksSlots(c, expected, actual) ==
  /\ c[0] = 1
  /\ \A k \in 1..Len(expected) :
       LET later == {j \in 1..Len(actual) : j >= c[k - 1] /\ actual[j].slot = expected[k].slot}
       IN  c[k] = IF c[k - 1] = 0 \/ later = {} THEN 0
                  ELSE IF Walk(expected[k].slot_changes, actual[Min(later)].slot_changes)
                  THEN Min(later) + 1 ELSE 0
  /\ WalkSlots(expected, actual) <=> c[Len(expected)] # 0

LEMMA WalkSlotsRuns ==
  ASSUME NEW X, NEW Y, NEW expected \in Seq(X), NEW actual \in Seq(Y)
  PROVE  \E c : WalksSlots(c, expected, actual)
<1> DEFINE n == Len(expected)
           Onward(at, x) == {j \in DOMAIN actual : j >= at /\ actual[j].slot = x.slot}
           OneOn(at, x) == IF at = 0 \/ Onward(at, x) = {} THEN 0
                          ELSE IF Walk(x.slot_changes, actual[Min(Onward(at, x))].slot_changes)
                          THEN Min(Onward(at, x)) + 1 ELSE 0
           next == [p \in (1..n) \X Nat |-> OneOn(p[2], expected[p[1]])]
           Fold(g) == g = [s \in SUBSET (DOMAIN expected) |->
                             IF s = {} THEN 1 ELSE OneOn(g[s \ {Max(s)}], expected[Max(s)])]
           fold == CHOOSE g : Fold(g)
<1>1. n \in Nat /\ DOMAIN expected = 1..n /\ DOMAIN actual = 1..Len(actual)
  OBVIOUS
<1>2. \A at, x : OneOn(at, x) \in Nat
  <2> SUFFICES ASSUME NEW at, NEW x, ~(at = 0 \/ Onward(at, x) = {})
               PROVE  Min(Onward(at, x)) + 1 \in Nat
    OBVIOUS
  <2>1. Onward(at, x) \subseteq Nat
    BY <1>1
  <2> HIDE DEF Onward
  <2>2. Min(Onward(at, x)) \in Nat
    BY <2>1, LeastNat
  <2> QED
    BY <2>2
<1>3. next \in [(1..n) \X Nat -> Nat]
  <2> HIDE DEF OneOn
  <2> QED
    BY <1>2
<1>4. \A i \in 1..n, v \in Nat : next[<<i, v>>] = OneOn(v, expected[i])
  OBVIOUS
<1>5. WalkSlots(expected, actual) <=> fold[DOMAIN expected] # 0
  BY DEF WalkSlots, FoldLeft, MapThenFoldSet
<1> HIDE DEF next, OneOn
<1>6. PICK f : IsFold(f, n, Nat, 1, next)
  <2> HIDE DEF n
  <2>1. 1 \in Nat
    OBVIOUS
  <2> QED
    BY <1>1, <1>3, <2>1, FoldExists
<1>7. Fold(f)
  <2>1. ASSUME NEW s \in SUBSET (1..n), s # {}
        PROVE  next[<<Max(s), f[s \ {Max(s)}]>>] = OneOn(f[s \ {Max(s)}], expected[Max(s)])
    <3>1. Max(s) \in 1..n /\ s \ {Max(s)} \in SUBSET (1..n)
      BY <1>1, <2>1, GreatestNat
    <3> QED
      BY <1>4, <1>6, <3>1 DEF IsFold
  <2> QED
    BY <1>1, <1>6, <2>1 DEF IsFold
<1>8. Fold(fold)
  BY <1>7
<1> HIDE DEF fold
<1> DEFINE c == [k \in 0..n |-> fold[1..k]]
<1>9. c[0] = 1
  <2>1. fold[{}] = 1
    BY <1>8
  <2>2. 1..0 = {}
    OBVIOUS
  <2> QED
    BY <1>1, <2>1, <2>2
<1>10. ASSUME NEW k \in 1..n
       PROVE  c[k] = OneOn(c[k - 1], expected[k])
  <2>1. /\ 1..k \in SUBSET (1..n) /\ 1..k # {} /\ Max(1..k) = k
        /\ (1..k) \ {k} = 1..(k - 1)
    BY <1>1, Segments
  <2>2. fold[1..k] = OneOn(fold[1..(k - 1)], expected[k])
    BY <1>1, <1>8, <2>1
  <2>3. k \in 0..n /\ k - 1 \in 0..n
    BY <1>1
  <2> QED
    BY <2>2, <2>3
<1>11. c[n] = fold[DOMAIN expected]
  BY <1>1
<1> HIDE DEF c
<1>12. \A k \in 1..n :
         LET later == {j \in 1..Len(actual) : j >= c[k - 1] /\ actual[j].slot = expected[k].slot}
         IN  c[k] = IF c[k - 1] = 0 \/ later = {} THEN 0
                  ELSE IF Walk(expected[k].slot_changes, actual[Min(later)].slot_changes)
                  THEN Min(later) + 1 ELSE 0
  BY <1>1, <1>10 DEF OneOn
<1> QED
  BY <1>5, <1>9, <1>11, <1>12 DEF WalksSlots

\* Walk
LEMMA WalkEmbeds ==
  ASSUME NEW X, NEW Y, NEW expected \in Seq(X), NEW actual \in Seq(Y)
  PROVE  Walk(expected, actual) <=> Embeds(expected, actual, LAMBDA x, y : x = y)
<1> DEFINE n == Len(expected)
           m == Len(actual)
           R == {p \in (1..n) \X (1..m) : expected[p[1]] = actual[p[2]]}
<1>1. n \in Nat /\ m \in Nat /\ DOMAIN expected = 1..n /\ DOMAIN actual = 1..m
  OBVIOUS
<1>2. PICK c : Walks(c, expected, actual)
  BY WalkRuns
<1>3. \A i \in 1..n, j \in 1..m : <<i, j>> \in R <=> actual[j] = expected[i]
  OBVIOUS
<1> HIDE DEF R
<1>4. ASSUME NEW k \in 1..n
      PROVE  LET later == {j \in 1..m : j >= c[k - 1] /\ <<k, j>> \in R}
             IN  c[k] = IF c[k - 1] = 0 \/ later = {} THEN 0 ELSE Min(later) + 1
  <2> DEFINE later == {j \in 1..m : j >= c[k - 1] /\ <<k, j>> \in R}
             found == {j \in 1..m : j >= c[k - 1] /\ actual[j] = expected[k]}
  <2>1. later = found
    BY <1>3
  <2>2. c[k] = IF c[k - 1] = 0 \/ found = {} THEN 0 ELSE Min(found) + 1
    BY <1>2 DEF Walks
  <2> QED
    BY <2>1, <2>2
<1>5. c[0] = 1 /\ (Walk(expected, actual) <=> c[n] # 0)
  BY <1>2 DEF Walks
<1> HIDE DEF n, m
<1>6. c[n] # 0 <=> \E at \in [1..n -> 1..m] : Rising(at, n) /\ \A i \in 1..n : <<i, at[i]>> \in R
  BY <1>1, <1>4, <1>5, Greedy
<1>7. ASSUME NEW at \in [1..n -> 1..m]
      PROVE  (\A i \in 1..n : <<i, at[i]>> \in R) <=> \A i \in 1..n : expected[i] = actual[at[i]]
  BY <1>3
<1> QED
  BY <1>1, <1>5, <1>6, <1>7 DEF Embeds, Rising

\* WalkSlots, in a list that has each slot once.
LEMMA SlotsEmbed ==
  ASSUME NEW expected \in Seq(StorageSlot), NEW actual \in Seq(StorageSlot),
         \A i, j \in DOMAIN actual : actual[i].slot = actual[j].slot => i = j
  PROVE  WalkSlots(expected, actual) <=> Embeds(expected, actual, LAMBDA x, y : SameSlot(x, y))
<1> DEFINE n == Len(expected)
           m == Len(actual)
           R == {p \in (1..n) \X (1..m) : SameSlot(expected[p[1]], actual[p[2]])}
<1>1. n \in Nat /\ m \in Nat /\ DOMAIN expected = 1..n /\ DOMAIN actual = 1..m
  OBVIOUS
<1>2. PICK c : WalksSlots(c, expected, actual)
  BY WalkSlotsRuns
<1>3. \A i \in 1..n, j \in 1..m : <<i, j>> \in R <=> SameSlot(expected[i], actual[j])
  OBVIOUS
<1> HIDE DEF R
<1>4. ASSUME NEW i \in 1..n, NEW j \in 1..m
      PROVE  SameSlot(expected[i], actual[j])
               <=> /\ actual[j].slot = expected[i].slot
                   /\ Walk(expected[i].slot_changes, actual[j].slot_changes)
  <2>1. expected[i].slot_changes \in Seq(TxChange) /\ actual[j].slot_changes \in Seq(TxChange)
    <3>1. expected[i] \in StorageSlot /\ actual[j] \in StorageSlot
      BY <1>1
    <3> QED
      BY <3>1 DEF StorageSlot
  <2> QED
    BY <2>1, WalkEmbeds DEF SameSlot
<1>5. ASSUME NEW k \in 1..n
      PROVE  LET later == {j \in 1..m : j >= c[k - 1] /\ <<k, j>> \in R}
             IN  c[k] = IF c[k - 1] = 0 \/ later = {} THEN 0 ELSE Min(later) + 1
  <2> DEFINE later == {j \in 1..m : j >= c[k - 1] /\ <<k, j>> \in R}
             found == {j \in 1..m : j >= c[k - 1] /\ actual[j].slot = expected[k].slot}
  <2>1. c[k] = IF c[k - 1] = 0 \/ found = {} THEN 0
               ELSE IF Walk(expected[k].slot_changes, actual[Min(found)].slot_changes)
               THEN Min(found) + 1 ELSE 0
    BY <1>2 DEF WalksSlots
  <2>2. \A j \in later : j \in found /\ Walk(expected[k].slot_changes, actual[j].slot_changes)
    BY <1>3, <1>4
  <2>3. \A j \in found :
          Walk(expected[k].slot_changes, actual[j].slot_changes) => j \in later
    BY <1>3, <1>4
  <2>4. \A i, j \in found : i = j
    BY <1>1
  <2>5. found # {} => Min(found) \in found
    <3>1. found \subseteq Nat
      OBVIOUS
    <3> HIDE DEF found
    <3> QED
      BY <3>1, LeastNat
  <2>6. later # {} => Min(later) \in later
    <3>1. later \subseteq Nat
      OBVIOUS
    <3> HIDE DEF later
    <3> QED
      BY <3>1, LeastNat
  <2> HIDE DEF later, found
  <2>7. CASE c[k - 1] = 0 \/ found = {}
    <3>1. c[k] = 0
      BY <2>1, <2>7
    <3>2. found = {} => later = {}
      BY <2>2
    <3> QED
      BY <2>7, <3>1, <3>2 DEF later
  <2>8. CASE ~(c[k - 1] = 0 \/ found = {})
    <3>1. CASE later = {}
      <4>1. c[k] = 0
        BY <2>1, <2>3, <2>5, <2>8, <3>1
      <4> QED
        BY <3>1, <4>1 DEF later
    <3>2. CASE later # {}
      <4>1. Min(later) = Min(found)
        BY <2>2, <2>4, <2>5, <2>6, <2>8, <3>2
      <4>2. c[k] = Min(later) + 1
        BY <2>1, <2>2, <2>6, <2>8, <3>2, <4>1
      <4> QED
        BY <2>8, <3>2, <4>2 DEF later
    <3> QED
      BY <3>1, <3>2
  <2> QED
    BY <2>7, <2>8
<1>6. c[0] = 1 /\ (WalkSlots(expected, actual) <=> c[n] # 0)
  BY <1>2 DEF WalksSlots
<1> HIDE DEF n, m
<1>7. c[n] # 0 <=> \E at \in [1..n -> 1..m] : Rising(at, n) /\ \A i \in 1..n : <<i, at[i]>> \in R
  BY <1>1, <1>5, <1>6, Greedy
<1>8. ASSUME NEW at \in [1..n -> 1..m]
      PROVE  (\A i \in 1..n : <<i, at[i]>> \in R) <=> \A i \in 1..n : SameSlot(expected[i], actual[at[i]])
  BY <1>3
<1> QED
  BY <1>1, <1>6, <1>7, <1>8 DEF Embeds, Rising

\* _validate_bal_ordering
LEMMA AscendingIsInOrder ==
  ASSUME NEW q \in Seq(Nat)
  PROVE  Ascending(q) <=> InOrder(q)
<1>1. Len(q) \in Nat /\ DOMAIN q = 1..Len(q) /\ \A i \in 1..Len(q) : q[i] \in Int
  OBVIOUS
<1>2. ASSUME Ascending(q) PROVE InOrder(q)
  <2>1. \A i \in 2..Len(q) : q[i - 1] < q[i]
    BY <1>2 DEF Ascending
  <2> SUFFICES ASSUME NEW i \in 1..Len(q), NEW j \in 1..Len(q), i < j PROVE q[i] < q[j]
    BY <1>1 DEF InOrder
  <2> QED
    BY <1>1, <2>1, Adjacent
<1>3. ASSUME InOrder(q) PROVE Ascending(q)
  <2> SUFFICES ASSUME NEW i \in 2..Len(q) PROVE q[i - 1] < q[i]
    BY DEF Ascending
  <2>1. i \in DOMAIN q /\ i - 1 \in DOMAIN q /\ i - 1 < i
    BY <1>1
  <2> QED
    BY <1>3, <2>1 DEF InOrder
<1> QED
  BY <1>2, <1>3

LEMMA NumbersOf ==
  /\ \A q \in Seq(TxChange) : Indices(q) \in Seq(Nat)
  /\ \A q \in Seq(StorageSlot) : [i \in DOMAIN q |-> q[i].slot] \in Seq(Nat)
  /\ \A q \in Seq(BalAccount) : [i \in DOMAIN q |-> q[i].address] \in Seq(Nat)
<1>1. \A q \in Seq(TxChange) : Indices(q) \in Seq(Nat)
  <2> SUFFICES ASSUME NEW q \in Seq(TxChange) PROVE Indices(q) \in Seq(Nat)
    OBVIOUS
  <2>1. Len(q) \in Nat /\ DOMAIN q = 1..Len(q) /\ \A i \in 1..Len(q) : q[i] \in TxChange
    OBVIOUS
  <2>2. \A i \in 1..Len(q) : q[i].tx_index \in Nat
    BY <2>1 DEF TxChange
  <2>3. Indices(q) \in [1..Len(q) -> Nat]
    BY <2>1, <2>2 DEF Indices
  <2> QED
    BY <2>1, <2>3
<1>2. \A q \in Seq(StorageSlot) : [i \in DOMAIN q |-> q[i].slot] \in Seq(Nat)
  <2> SUFFICES ASSUME NEW q \in Seq(StorageSlot) PROVE [i \in DOMAIN q |-> q[i].slot] \in Seq(Nat)
    OBVIOUS
  <2>1. Len(q) \in Nat /\ DOMAIN q = 1..Len(q) /\ \A i \in 1..Len(q) : q[i] \in StorageSlot
    OBVIOUS
  <2>2. \A i \in 1..Len(q) : q[i].slot \in Nat
    BY <2>1 DEF StorageSlot
  <2>3. [i \in DOMAIN q |-> q[i].slot] \in [1..Len(q) -> Nat]
    BY <2>1, <2>2
  <2> QED
    BY <2>1, <2>3
<1>3. \A q \in Seq(BalAccount) : [i \in DOMAIN q |-> q[i].address] \in Seq(Nat)
  <2> SUFFICES ASSUME NEW q \in Seq(BalAccount) PROVE [i \in DOMAIN q |-> q[i].address] \in Seq(Nat)
    OBVIOUS
  <2>1. Len(q) \in Nat /\ DOMAIN q = 1..Len(q) /\ \A i \in 1..Len(q) : q[i] \in BalAccount
    OBVIOUS
  <2>2. \A i \in 1..Len(q) : q[i].address \in Nat
    BY <2>1 DEF BalAccount
  <2>3. [i \in DOMAIN q |-> q[i].address] \in [1..Len(q) -> Nat]
    BY <2>1, <2>2
  <2> QED
    BY <2>1, <2>3
<1> QED
  BY <1>1, <1>2, <1>3

LEMMA MembersOf ==
  ASSUME NEW X, NEW q \in Seq(X)
  PROVE  \A x \in ToSet(q) : x \in X
  BY DEF ToSet

\* The changes of an account, field by field.
LEMMA ChangesAre ==
  ASSUME NEW changes \in Changes
  PROVE  /\ changes = [f \in Fields |-> changes[f]]
         /\ \A f \in ByTransaction : changes[f] \in Seq(TxChange)
         /\ changes["storage_changes"] \in Seq(StorageSlot) /\ changes["storage_reads"] \in Seq(Nat)
<1>1. changes = [f \in Fields |-> changes[f]]
  BY DEF Changes, Fields, ByTransaction
<1>2. \A f \in ByTransaction : changes[f] \in Seq(TxChange)
  BY DEF Changes, ByTransaction
<1>3. changes["storage_changes"] \in Seq(StorageSlot) /\ changes["storage_reads"] \in Seq(Nat)
  BY DEF Changes
<1> QED
  BY <1>1, <1>2, <1>3

LEMMA ListedAccounts ==
  ASSUME NEW bal \in Seq(BalAccount)
  PROVE  \A a \in ToSet(bal) : a.changes \in Changes
<1> SUFFICES ASSUME NEW a \in ToSet(bal) PROVE a.changes \in Changes
  OBVIOUS
<1>1. a \in BalAccount
  BY MembersOf
<1> QED
  BY <1>1 DEF BalAccount

LEMMA OrderThroughout ==
  ASSUME NEW bal \in Seq(BalAccount)
  PROVE  _validate_bal_ordering(bal) <=> InOrderThroughout(bal)
<1>1. \A a \in ToSet(bal) : a.changes \in Changes
  BY ListedAccounts
<1>2. Ascending([i \in DOMAIN bal |-> bal[i].address]) <=> InOrder([i \in DOMAIN bal |-> bal[i].address])
  BY NumbersOf, AscendingIsInOrder
<1>3. ASSUME NEW a \in ToSet(bal)
      PROVE  LET storage == a.changes["storage_changes"]
             IN  /\ \A f \in ByTransaction :
                      Ascending(Indices(a.changes[f])) <=> InOrder(Indices(a.changes[f]))
                 /\ Ascending([i \in DOMAIN storage |-> storage[i].slot])
                      <=> InOrder([i \in DOMAIN storage |-> storage[i].slot])
                 /\ \A s \in ToSet(storage) :
                      Ascending(Indices(s.slot_changes)) <=> InOrder(Indices(s.slot_changes))
                 /\ Ascending(a.changes["storage_reads"]) <=> InOrder(a.changes["storage_reads"])
  <2> DEFINE storage == a.changes["storage_changes"]
  <2>1. /\ \A f \in ByTransaction : a.changes[f] \in Seq(TxChange)
        /\ storage \in Seq(StorageSlot) /\ a.changes["storage_reads"] \in Seq(Nat)
    BY <1>1, <1>3, ChangesAre
  <2>2. \A f \in ByTransaction : Ascending(Indices(a.changes[f])) <=> InOrder(Indices(a.changes[f]))
    BY <2>1, NumbersOf, AscendingIsInOrder
  <2> HIDE DEF storage
  <2>3. Ascending([i \in DOMAIN storage |-> storage[i].slot])
          <=> InOrder([i \in DOMAIN storage |-> storage[i].slot])
    BY <2>1, NumbersOf, AscendingIsInOrder
  <2>4. \A s \in ToSet(storage) : Ascending(Indices(s.slot_changes)) <=> InOrder(Indices(s.slot_changes))
    <3> SUFFICES ASSUME NEW s \in ToSet(storage)
                 PROVE  Ascending(Indices(s.slot_changes)) <=> InOrder(Indices(s.slot_changes))
      OBVIOUS
    <3>1. s \in StorageSlot
      BY <2>1, MembersOf
    <3>2. s.slot_changes \in Seq(TxChange)
      BY <3>1 DEF StorageSlot
    <3> QED
      BY <3>2, NumbersOf, AscendingIsInOrder
  <2>5. Ascending(a.changes["storage_reads"]) <=> InOrder(a.changes["storage_reads"])
    BY <2>1, AscendingIsInOrder
  <2> QED
    BY <2>2, <2>3, <2>4, <2>5 DEF storage
<1> QED
  BY <1>2, <1>3 DEF _validate_bal_ordering, InOrderThroughout

\* In a list in order each account is once, and in its storage each slot.
LEMMA OnceEach ==
  ASSUME NEW bal \in Seq(BalAccount), InOrderThroughout(bal)
  PROVE  /\ \A a, b \in ToSet(bal) : a.address = b.address => a = b
         /\ \A a \in ToSet(bal) : \A i, j \in DOMAIN a.changes["storage_changes"] :
              a.changes["storage_changes"][i].slot = a.changes["storage_changes"][j].slot => i = j
<1> DEFINE Once(q) == \A i, j \in DOMAIN q : q[i] = q[j] => i = j
<1>1. ASSUME NEW q \in Seq(Nat), InOrder(q)
      PROVE  Once(q)
  <2> SUFFICES ASSUME NEW i \in DOMAIN q, NEW j \in DOMAIN q, q[i] = q[j], i # j PROVE FALSE
    OBVIOUS
  <2>1. i \in Nat /\ j \in Nat /\ q[i] \in Nat
    OBVIOUS
  <2>2. q[i] < q[j] \/ q[j] < q[i]
    BY <1>1, <2>1 DEF InOrder
  <2> QED
    BY <2>1, <2>2
<1>2. ASSUME NEW a \in ToSet(bal), NEW b \in ToSet(bal), a.address = b.address
      PROVE  a = b
  <2> DEFINE q == [i \in DOMAIN bal |-> bal[i].address]
  <2>1. q \in Seq(Nat) /\ InOrder(q)
    BY NumbersOf DEF InOrderThroughout
  <2>2. \A i, j \in DOMAIN q : q[i] = q[j] => i = j
    <3> HIDE DEF q
    <3> QED
      BY <1>1, <2>1
  <2>3. PICK i \in DOMAIN bal, j \in DOMAIN bal : bal[i] = a /\ bal[j] = b
    BY <1>2 DEF ToSet
  <2> QED
    BY <1>2, <2>2, <2>3
<1>3. ASSUME NEW a \in ToSet(bal)
      PROVE  \A i, j \in DOMAIN a.changes["storage_changes"] :
              a.changes["storage_changes"][i].slot = a.changes["storage_changes"][j].slot => i = j
  <2> DEFINE storage == a.changes["storage_changes"]
             q == [i \in DOMAIN storage |-> storage[i].slot]
  <2>1. storage \in Seq(StorageSlot) /\ InOrder(q)
    BY <1>3, ListedAccounts, ChangesAre DEF InOrderThroughout
  <2>2. q \in Seq(Nat)
    <3> HIDE DEF storage
    <3> QED
      BY <2>1, NumbersOf
  <2>3. \A i, j \in DOMAIN q : q[i] = q[j] => i = j
    <3> HIDE DEF q
    <3> QED
      BY <1>1, <2>1, <2>2
  <2> QED
    BY <2>3
<1> QED
  BY <1>2, <1>3

\* What an account is to say to be as expected, by the documentation.
AccountFits(e, changes) ==
  /\ \A f \in e.set :
       /\ e.changes[f] = <<>> <=> changes[f] = <<>>
       /\ Embeds(e.changes[f], changes[f], LAMBDA x, y : IF f = "storage_changes" THEN SameSlot(x, y) ELSE x = y)
  /\ \A f \in Fields \ {"storage_changes"} : \A x \in ToSet(e.absent_values[f]) : x \notin ToSet(changes[f])
  /\ \A s \in ToSet(e.absent_values["storage_changes"]), t \in ToSet(changes["storage_changes"]) :
       s.slot = t.slot => \A x \in ToSet(s.slot_changes) : x \notin ToSet(t.slot_changes)

\* _compare_account_expectations
LEMMA AccountCompared ==
  ASSUME NEW e, IsExpectation(e), NEW changes \in Changes,
         \A i, j \in DOMAIN changes["storage_changes"] :
            changes["storage_changes"][i].slot = changes["storage_changes"][j].slot => i = j
  PROVE  _compare_account_expectations(e, changes) <=> AccountFits(e, changes)
<1>1. validate_against(e.absent_values, changes)
        <=> /\ \A f \in Fields \ {"storage_changes"} :
                 \A x \in ToSet(e.absent_values[f]) : x \notin ToSet(changes[f])
            /\ \A s \in ToSet(e.absent_values["storage_changes"]), t \in ToSet(changes["storage_changes"]) :
                 s.slot = t.slot => \A x \in ToSet(s.slot_changes) : x \notin ToSet(t.slot_changes)
  <2>1. ASSUME NEW f \in Fields \ {"storage_changes"}
        PROVE  ToSet(changes[f]) \intersect ToSet(e.absent_values[f]) = {}
                 <=> \A x \in ToSet(e.absent_values[f]) : x \notin ToSet(changes[f])
    OBVIOUS
  <2>2. \A s, t : ToSet(t.slot_changes) \intersect ToSet(s.slot_changes) = {}
                   <=> \A x \in ToSet(s.slot_changes) : x \notin ToSet(t.slot_changes)
    OBVIOUS
  <2> QED
    BY <2>1, <2>2 DEF validate_against
<1>2. ASSUME NEW f \in e.set
      PROVE  /\ e.changes[f] = <<>> => changes[f] = <<>>
             /\ IF f = "storage_changes" THEN WalkSlots(e.changes[f], changes[f])
                ELSE Walk(e.changes[f], changes[f])
             <=>
             /\ e.changes[f] = <<>> <=> changes[f] = <<>>
             /\ Embeds(e.changes[f], changes[f],
                       LAMBDA x, y : IF f = "storage_changes" THEN SameSlot(x, y) ELSE x = y)
  <2> DEFINE expected == e.changes[f]
             actual == changes[f]
             Walked == IF f = "storage_changes" THEN WalkSlots(expected, actual) ELSE Walk(expected, actual)
             Found == Embeds(expected, actual, LAMBDA x, y : IF f = "storage_changes" THEN SameSlot(x, y)
                                                             ELSE x = y)
  <2>1. f \in Fields
    BY <1>2 DEF IsExpectation
  <2>2. Walked <=> Found
    <3>1. CASE f = "storage_changes"
      <4>1. expected \in Seq(StorageSlot) /\ actual \in Seq(StorageSlot)
        BY <3>1, ChangesAre DEF IsExpectation
      <4>2. \A i, j \in DOMAIN actual : actual[i].slot = actual[j].slot => i = j
        BY <3>1
      <4> HIDE DEF expected, actual
      <4>3. WalkSlots(expected, actual) <=> Embeds(expected, actual, LAMBDA x, y : SameSlot(x, y))
        BY <4>1, <4>2, SlotsEmbed
      <4> QED
        BY <3>1, <4>3 DEF Embeds
    <3>2. CASE f \in ByTransaction
      <4>1. expected \in Seq(TxChange) /\ actual \in Seq(TxChange) /\ f # "storage_changes"
        BY <3>2, ChangesAre DEF IsExpectation, ByTransaction
      <4> HIDE DEF expected, actual
      <4>2. Walk(expected, actual) <=> Embeds(expected, actual, LAMBDA x, y : x = y)
        BY <4>1, WalkEmbeds
      <4> QED
        BY <4>1, <4>2 DEF Embeds
    <3>3. CASE f = "storage_reads"
      <4>1. expected \in Seq(Nat) /\ actual \in Seq(Nat) /\ f # "storage_changes"
        BY <3>3, ChangesAre DEF IsExpectation
      <4> HIDE DEF expected, actual
      <4>2. Walk(expected, actual) <=> Embeds(expected, actual, LAMBDA x, y : x = y)
        BY <4>1, WalkEmbeds
      <4> QED
        BY <4>1, <4>2 DEF Embeds
    <3> QED
      BY <2>1, <3>1, <3>2, <3>3 DEF Fields
  <2>3. ASSUME Found, actual = <<>> PROVE expected = <<>>
    <3>1. \A at : at \in [DOMAIN expected -> DOMAIN actual] => DOMAIN expected = {}
      <4>1. DOMAIN actual = {}
        <5> HIDE DEF actual, Found
        <5> QED
          BY <2>3
      <4> HIDE DEF expected, actual
      <4> QED
        BY <4>1
    <3>2. DOMAIN expected = {}
      <4> HIDE DEF expected, actual
      <4> QED
        BY <2>3, <3>1 DEF Embeds
    <3>3. expected \in Seq(TxChange) \union Seq(StorageSlot) \union Seq(Nat)
      <4>1. f \in ByTransaction \/ f = "storage_changes" \/ f = "storage_reads"
        BY <2>1 DEF Fields
      <4>2. e.changes \in Changes
        BY DEF IsExpectation
      <4> QED
        BY <4>1, <4>2, ChangesAre
    <3> HIDE DEF expected
    <3> QED
      BY <3>2, <3>3
  <2> HIDE DEF Walked, Found
  <2>4. /\ expected = <<>> => actual = <<>>
        /\ Walked
        <=>
        /\ expected = <<>> <=> actual = <<>>
        /\ Found
    BY <2>2, <2>3
  <2> QED
    BY <2>4 DEF Walked, Found
<1> QED
  BY <1>1, <1>2 DEF _compare_account_expectations, AccountFits

\* verify_against says what its documentation says, for any list and expectations.
LEMMA VerifyFits ==
  ASSUME NEW bal, bal \in Seq(BalAccount), NEW expectations,
         \A address \in DOMAIN expectations : IsExpectation(expectations[address])
  PROVE  verify_against(bal, expectations) <=> FitsExpectation(bal, expectations)
<1> DEFINE There(address) == {a \in ToSet(bal) : a.address = address}
           Verified(e, address) ==
             IF e.excluded THEN There(address) = {}
             ELSE /\ e.set # {} \/ e.absent_values # NotAbsent
                  /\ \E a \in There(address) : _compare_account_expectations(e, a.changes)
           AllAt(f, address) == UNION {ToSet(a.changes[f]) : a \in There(address)}
           Fitting(e, address) ==
             /\ e.excluded <=> ~Has(bal, {address})
             /\ ~e.excluded => e # Unset
             /\ \A a \in There(address), f \in e.set :
                  /\ e.changes[f] = <<>> <=> a.changes[f] = <<>>
                  /\ Embeds(e.changes[f], a.changes[f],
                            LAMBDA x, y : IF f = "storage_changes" THEN SameSlot(x, y) ELSE x = y)
             /\ \A f \in Fields \ {"storage_changes"} :
                  \A x \in ToSet(e.absent_values[f]) : x \notin AllAt(f, address)
             /\ \A s \in ToSet(e.absent_values["storage_changes"]), t \in AllAt("storage_changes", address) :
                  s.slot = t.slot => \A x \in ToSet(s.slot_changes) : x \notin ToSet(t.slot_changes)
<1>1. verify_against(bal, expectations)
        <=> /\ _validate_bal_ordering(bal)
            /\ \A address \in DOMAIN expectations : Verified(expectations[address], address)
  BY DEF verify_against
<1>2. FitsExpectation(bal, expectations)
        <=> /\ InOrderThroughout(bal)
            /\ \A address \in DOMAIN expectations : Fitting(expectations[address], address)
  BY DEF FitsExpectation
<1>3. ASSUME InOrderThroughout(bal), NEW e, IsExpectation(e), NEW address
      PROVE  Verified(e, address) <=> Fitting(e, address)
  <2>1. Has(bal, {address}) <=> There(address) # {}
    BY DEF Has
  <2>2. ~e.excluded => (e # Unset <=> e.set # {} \/ e.absent_values # NotAbsent)
    <3>1. e = [set |-> e.set, changes |-> e.changes, excluded |-> e.excluded, absent_values |-> e.absent_values]
      BY <1>3 DEF IsExpectation
    <3>2. e.set = {} => e.changes = NotAbsent
      <4> SUFFICES ASSUME e.set = {} PROVE e.changes = NotAbsent
        OBVIOUS
      <4>1. e.changes \in Changes /\ \A f \in Fields : e.changes[f] = <<>>
        BY <1>3 DEF IsExpectation
      <4>2. e.changes = [f \in Fields |-> e.changes[f]]
        BY <4>1, ChangesAre
      <4> QED
        BY <4>1, <4>2 DEF NotAbsent
    <3>3. e.excluded \in BOOLEAN
      BY <1>3 DEF IsExpectation
    <3>4. /\ Unset.set = {} /\ Unset.absent_values = NotAbsent
          /\ Unset = [set |-> {}, changes |-> NotAbsent, excluded |-> FALSE, absent_values |-> NotAbsent]
      BY DEF Unset
    <3> HIDE DEF Has
    <3> QED
      BY <3>1, <3>2, <3>3, <3>4
  <2>3. CASE There(address) = {}
    <3>1. \A f : AllAt(f, address) = {}
      BY <2>3
    <3>2. Verified(e, address) <=> e.excluded
      BY <2>3
    <3>3. Fitting(e, address) <=> e.excluded
      <4> HIDE DEF AllAt
      <4> QED
        BY <2>1, <2>3, <3>1
    <3> QED
      BY <3>2, <3>3
  <2>4. CASE There(address) # {}
    <3>1. PICK a \in There(address) : TRUE
      BY <2>4
    <3>2. There(address) = {a}
      BY <1>3, <3>1, OnceEach
    <3>3. \A f : AllAt(f, address) = ToSet(a.changes[f])
      BY <3>2
    <3>4. a \in ToSet(bal)
      BY <3>1
    <3> HIDE DEF There
    <3>5. _compare_account_expectations(e, a.changes) <=> AccountFits(e, a.changes)
      <4>1. a.changes \in Changes
        BY <3>4, ListedAccounts
      <4>2. \A i, j \in DOMAIN a.changes["storage_changes"] :
               a.changes["storage_changes"][i].slot = a.changes["storage_changes"][j].slot => i = j
        BY <1>3, <3>4, OnceEach
      <4> QED
        BY <1>3, <4>1, <4>2, AccountCompared
    <3>6. Verified(e, address)
            <=> ~e.excluded /\ (e.set # {} \/ e.absent_values # NotAbsent) /\ AccountFits(e, a.changes)
      BY <2>4, <3>2, <3>5
    <3>7. Fitting(e, address) <=> ~e.excluded /\ (~e.excluded => e # Unset) /\ AccountFits(e, a.changes)
      <4> HIDE DEF AllAt
      <4> QED
        BY <2>1, <2>4, <3>2, <3>3 DEF AccountFits
    <3> QED
      BY <2>2, <3>6, <3>7
  <2> QED
    BY <2>3, <2>4
<1> HIDE DEF Verified, Fitting
<1> QED
  BY <1>1, <1>2, <1>3, OrderThroughout

------------------------------------------------------------------------------
(* The list of a block.                                                       *)

\* A list that no modifier changes.
LEMMA Unmodified == \A bal : compose(<<>>, bal) = [raised |-> FALSE, bal |-> bal]
<1> SUFFICES ASSUME NEW bal PROVE compose(<<>>, bal) = [raised |-> FALSE, bal |-> bal]
  OBVIOUS
<1> DEFINE base == [raised |-> FALSE, bal |-> bal]
           Op(r, m) == IF r.raised \/ ~Applies(m, r.bal) THEN [r EXCEPT !.raised = TRUE]
                       ELSE [r EXCEPT !.bal = Modified(m, @)]
           empties == SUBSET (DOMAIN <<>>)
           Fold(g) == g = [s \in empties |-> IF s = {} THEN base
                                             ELSE Op(g[s \ {Max(s)}], <<>>[Max(s)])]
           fold == CHOOSE g : Fold(g)
<1>1. empties = {{}}
  OBVIOUS
<1>2. compose(<<>>, bal) = fold[DOMAIN <<>>]
  BY DEF compose, FoldLeft, MapThenFoldSet
<1> HIDE DEF base, Op, empties
<1>3. Fold([s \in empties |-> base])
  BY <1>1
<1>4. Fold(fold)
  BY <1>3
<1> HIDE DEF fold
<1>5. fold[{}] = base
  BY <1>1, <1>4
<1> QED
  BY <1>2, <1>5 DEF base

\* FixtureHeader.model_post_init finds every field in a header that fits.
LEMMA RequiredFields ==
  ASSUME NEW f \in Forks_, fork = Fork(f), NEW h, IsHeader(h), Fits(h)
  PROVE  HasRequired(h)
<1> DEFINE a == At(h)
           c == ForkOf(h)
<1>1. PICK g \in ALL_FORKS : c = Class[g]
  <2>1. h.number \in Int /\ h.timestamp \in Int
    BY DEF IsHeader
  <2> QED
    BY <2>1, ForkClass DEF ForkOf
<1>2. /\ a.base_fee = c.base_fee /\ a.withdrawals = c.withdrawals
      /\ a.excess_blob_gas = c.excess_blob_gas /\ a.blob_gas_used = c.blob_gas_used
      /\ a.beacon_root = c.beacon_root /\ a.requests = c.requests /\ a.bal_hash = c.bal_hash
  BY AskedFields DEF At, ForkOf
<1>3. /\ c.base_fee <=> Since(h, "London")
      /\ c.withdrawals <=> Since(h, "Shanghai")
      /\ c.excess_blob_gas <=> Since(h, "Cancun")
      /\ c.blob_gas_used <=> Since(h, "Cancun")
      /\ c.beacon_root <=> Since(h, "Cancun")
      /\ c.requests <=> Since(h, "Prague")
      /\ c.bal_hash <=> Since(h, "Amsterdam")
  BY <1>1, FieldsAssumption DEF Since
<1> HIDE DEF a, c
<1> QED
  BY <1>2, <1>3 DEF Fits, HasRequired, a

\* Whether the lists of a block are verified, and what its header and payload say of them.
LEMMA BlockListed ==
  ASSUME NEW b, Fill(b)
  PROVE  /\ block' = b /\ (b.access.checked => At(header').bal_hash)
         /\ payload' = Payload(header', Listed(At(header'), b.access).bal)
         /\ header'.bal_of = Listed(At(header'), b.access).bal
         /\ stage' = IF HasRequired(header') /\ ~Listed(At(header'), b.access).fails THEN "fill" ELSE "error"
<1> DEFINE e == set_fork_requirements(set_environment(b, env))
           access == Listed(At(e), b.access)
           h == [Header(e, b.tx) EXCEPT !.bal_of = access.bal]
<1>1. (b.access.checked => At(e).bal_hash) /\ Join(b, e, access, h)
  BY DEF Fill, GenerateBlockData
<1>2. h.number = e.number /\ h.timestamp = e.timestamp /\ h.bal_of = access.bal
  BY DEF Header
<1> HIDE DEF e, h
<1>3. At(h) = At(e)
  BY <1>2 DEF At
<1>4. /\ block' = b /\ header' = h /\ payload' = Payload(h, access.bal)
      /\ stage' = IF HasRequired(h) /\ ~access.fails THEN "fill" ELSE "error"
  BY <1>1 DEF Join
<1> QED
  BY <1>1, <1>2, <1>3, <1>4

\* The list of the tool, modified, is the one of the header and of the payload.
LEMMA ListKeeps ==
  ASSUME ForkInv, NEW b, IsBlock(b), Fill(b),
         NEW given \in Blocks \union StateTests, b.access = given.access
  PROVE  AccessListFits'
<1> DEFINE bal == b.access.bal
           modifiers == b.access.modifiers
           expectations == b.access.expectations
           a == At(header')
           listed == Listed(a, b.access)
<1>1. /\ IsHeader(parent) /\ Fits(parent) /\ Started
      /\ \E g \in ALL_FORKS : ForkOf(header') = Class[g] /\ Says(Class[g], parent, b, header')
      /\ Later(b, parent)
  BY BlockMade
<1>2. PICK g \in ALL_FORKS : ForkOf(header') = Class[g] /\ Says(Class[g], parent, b, header')
  BY <1>1
<1>3. PICK f \in Forks_ : fork = Fork(f)
  BY <1>1 DEF Started
<1>4. IsHeader(header') /\ Fits(header')
  BY <1>1, <1>2, <1>3, BlockFits
<1>5. HasRequired(header')
  BY <1>3, <1>4, RequiredFields
<1>6. /\ block' = b /\ (b.access.checked => a.bal_hash)
      /\ payload' = Payload(header', listed.bal)
      /\ header'.bal_of = listed.bal
      /\ stage' = IF ~listed.fails THEN "fill" ELSE "error"
  BY <1>5, BlockListed
<1>7. /\ payload'.list = a.engine_execution_payload_block_access_list
      /\ payload'.accesses = IF a.engine_execution_payload_block_access_list THEN listed.bal ELSE <<>>
  BY <1>6 DEF Payload
<1>8. a.engine_execution_payload_block_access_list <=> a.bal_hash
  <2> DEFINE c == Class[g]
  <2>1. /\ a.engine_execution_payload_block_access_list = c.engine_execution_payload_block_access_list
        /\ a.bal_hash = c.bal_hash
    BY <1>2, <1>3, AskedValues, AskedFields DEF At, ForkOf
  <2>2. /\ c.engine_execution_payload_block_access_list <=> "Amsterdam" \in c.ancestors
        /\ c.bal_hash <=> "Amsterdam" \in c.ancestors
    BY FieldsAssumption, EngineAssumption
  <2> QED
    BY <2>1, <2>2
<1>9. verify_against(bal, expectations) <=> FitsExpectation(bal, expectations)
  BY AccessAssumption, VerifyFits
<1>10. modifiers = <<>> => compose(modifiers, bal).bal = bal
  BY Unmodified
<1>11. /\ ~a.bal_hash => listed.bal = <<>> /\ ~listed.fails
       /\ a.bal_hash /\ ~b.access.checked => listed.bal = bal /\ ~listed.fails
       /\ a.bal_hash /\ b.access.checked =>
             /\ listed.bal = compose(modifiers, bal).bal
             /\ listed.fails <=> ~verify_against(bal, expectations) \/ compose(modifiers, bal).raised
  BY DEF Listed
<1> HIDE DEF a, listed
<1>12. b.access.checked =>
          (stage' = "fill" <=> FitsExpectation(bal, expectations) /\ ~compose(modifiers, bal).raised)
  <2>1. stage' = "fill" <=> ~listed.fails
    BY <1>6
  <2> HIDE DEF bal, modifiers, expectations
  <2> QED
    BY <1>6, <1>9, <1>11, <2>1
<1>13. payload'.list => payload'.accesses = header'.bal_of
  BY <1>6, <1>7
<1>14. modifiers = <<>> => payload'.accesses = IF payload'.list THEN bal ELSE <<>>
  <2> HIDE DEF bal, modifiers, expectations
  <2> QED
    BY <1>7, <1>8, <1>10, <1>11
<1> QED
  BY <1>6, <1>12, <1>13, <1>14 DEF AccessListFits

\* A block is filled just when the list of the tool is in order and lists what the test
\* expects: the greedy walk of verify_against finds a way through the list whenever there
\* is one; and its payload carries the list that its header has the hash of.
THEOREM AccessListsFit == ForkSpec => []AccessListFits
<1>1. ForkInit => AccessListFits
  BY DEF ForkInit, AccessListFits
<1>2. ASSUME AccessListFits, ForkInv, [ForkNext]_forkVars PROVE AccessListFits'
  <2>1. ASSUME UNCHANGED chain, stage' = stage \/ header = Absent PROVE AccessListFits'
    BY <1>2, <2>1 DEF AccessListFits, chain
  <2>2. stage \in {"configure", "collect", "start", "genesis"} => header = Absent
    BY <1>2 DEF ForkInv, StageInv, Idle
  <2>3. CASE Configure \/ Collect \/ Start
    BY <2>1, <2>2, <2>3 DEF Configure, Collect, Start
  <2>4. CASE BlockchainTest \/ StateTest
    <3>1. header' = Absent
      BY <2>2, <2>4 DEF BlockchainTest, StateTest, MakeGenesis
    <3> QED
      BY <3>1 DEF AccessListFits
  <2>5. CASE FillStateTest \/ FillBlock
    <3>1. PICK b : /\ IsBlock(b) /\ Fill(b)
                   /\ \E given \in Blocks \union StateTests : b.tx = given.tx /\ b.access = given.access
      BY <1>2, <2>5, FilledBlocks
    <3>2. PICK given \in Blocks \union StateTests : b.access = given.access
      BY <3>1
    <3> QED
      BY <1>2, <3>1, <3>2, ListKeeps
  <2>6. CASE UNCHANGED forkVars
    BY <2>1, <2>6 DEF forkVars
  <2> QED
    BY <1>2, <2>3, <2>4, <2>5, <2>6 DEF ForkNext
<1> QED
  BY <1>1, <1>2, ForkInvariance, PTL DEF ForkSpec

------------------------------------------------------------------------------
(* The ruleset: the client that is started for a fixture.                     *)

\* What a client knows, in its order.
KnownForks == Numbered_ \o <<"Paris">> \o Timed

LEMMA ConcatAt ==
  ASSUME NEW S, NEW a \in Seq(S), NEW b \in Seq(S)
  PROVE  /\ a \o b \in Seq(S) /\ Len(a \o b) = Len(a) + Len(b)
         /\ \A i \in 1..(Len(a) + Len(b)) :
               (a \o b)[i] = IF i <= Len(a) THEN a[i] ELSE b[i - Len(a)]
  BY ConcatProperties, Zenon

LEMMA KnownForksAre ==
  /\ DOMAIN KnownForks = 1..19
  /\ \A i \in 1..9 : KnownForks[i] = Numbered_[i] /\ KnownForks[i + 10] = Timed[i]
  /\ KnownForks[10] = "Paris"
<1> DEFINE Names == {Numbered_[i] : i \in 1..9} \union {"Paris"} \union {Timed[i] : i \in 1..9}
           paris == <<"Paris">>
           first == Numbered_ \o paris
           all == first \o Timed
<1>1. Numbered_ \in Seq(Names) /\ Len(Numbered_) = 9
  <2>1. DOMAIN Numbered_ = 1..9 /\ Len(Numbered_) = 9 /\ Numbered_ = [i \in 1..9 |-> Numbered_[i]]
    BY DEF Numbered_
  <2>2. \A i \in 1..9 : Numbered_[i] \in Names
    OBVIOUS
  <2> HIDE DEF Names
  <2> QED
    BY <2>1, <2>2
<1>2. Timed \in Seq(Names) /\ Len(Timed) = 9
  <2>1. DOMAIN Timed = 1..9 /\ Len(Timed) = 9 /\ Timed = [i \in 1..9 |-> Timed[i]]
    BY DEF Timed
  <2>2. \A i \in 1..9 : Timed[i] \in Names
    OBVIOUS
  <2> HIDE DEF Names
  <2> QED
    BY <2>1, <2>2
<1>3. paris \in Seq(Names) /\ Len(paris) = 1 /\ paris[1] = "Paris"
  OBVIOUS
<1> HIDE DEF Names, paris
<1>4. /\ first \in Seq(Names) /\ Len(first) = Len(Numbered_) + Len(paris)
      /\ \A i \in 1..(Len(Numbered_) + Len(paris)) :
            first[i] = IF i <= Len(Numbered_) THEN Numbered_[i] ELSE paris[i - Len(Numbered_)]
  BY <1>1, <1>3, ConcatAt, Zenon
<1> HIDE DEF first
<1>5. Len(first) = 10 /\ first[10] = "Paris" /\ \A i \in 1..9 : first[i] = Numbered_[i]
  BY <1>1, <1>3, <1>4
<1>6. /\ all \in Seq(Names) /\ Len(all) = Len(first) + Len(Timed)
      /\ \A i \in 1..(Len(first) + Len(Timed)) :
            all[i] = IF i <= Len(first) THEN first[i] ELSE Timed[i - Len(first)]
  <2>1. first \in Seq(Names)
    BY <1>4
  <2>2. Timed \in Seq(Names)
    BY <1>2
  <2> QED
    BY <2>1, <2>2, ConcatAt, Zenon
<1> HIDE DEF all
<1>7. DOMAIN all = 1..19 /\ all[10] = "Paris"
  BY <1>2, <1>5, <1>6
<1>8. ASSUME NEW i \in 1..9 PROVE all[i] = Numbered_[i] /\ all[i + 10] = Timed[i]
  <2>1. i \in 1..19 /\ i <= 10 /\ i + 10 \in 1..19 /\ ~(i + 10 <= 10) /\ i + 10 - 10 = i
    OBVIOUS
  <2>2. \A j \in 1..19 : all[j] = IF j <= 10 THEN first[j] ELSE Timed[j - 10]
    BY <1>2, <1>5, <1>6
  <2>3. all[i] = first[i] /\ all[i + 10] = Timed[i + 10 - 10]
    BY <2>1, <2>2
  <2> QED
    BY <1>5, <2>1, <2>3
<1> QED
  BY <1>7, <1>8 DEF KnownForks, all, first, paris

LEMMA ForkNames ==
  /\ DOMAIN Numbered_ = 1..9 /\ DOMAIN Timed = 1..9
  /\ \A i, j \in 1..9 : Numbered_[i] = Numbered_[j] => i = j
  /\ \A i, j \in 1..9 : Timed[i] = Timed[j] => i = j
  /\ \A i, j \in 1..9 : Numbered_[i] # Timed[j]
  /\ \A i \in 1..9 : Numbered_[i] \notin {"Paris", "DAO", "Frontier"} /\ Timed[i] # "Paris"
<1>1. DOMAIN Numbered_ = 1..9 /\ DOMAIN Timed = 1..9
  BY DEF Numbered_, Timed
<1>4. \A i \in 1..9 : i = 1 \/ i = 2 \/ i = 3 \/ i = 4 \/ i = 5 \/ i = 6 \/ i = 7 \/ i = 8 \/ i = 9
  OBVIOUS
<1>5. \A i, j \in 1..9 : Numbered_[i] = Numbered_[j] => i = j
  BY <1>4 DEF Numbered_
<1>6. \A i, j \in 1..9 : Timed[i] = Timed[j] => i = j
  BY <1>4 DEF Timed
<1>7. \A i, j \in 1..9 : Numbered_[i] # Timed[j]
  BY <1>4 DEF Timed, Numbered_
<1>8. \A i \in 1..9 : Numbered_[i] \notin {"Paris", "DAO", "Frontier"} /\ Timed[i] # "Paris"
  BY <1>4 DEF Timed, Numbered_
<1> QED
  BY <1>1, <1>5, <1>6, <1>7, <1>8

LEMMA FirstNumbersAre ==
  ASSUME NEW n \in 0..9
  PROVE  /\ DOMAIN FirstNumbers(n) = {Numbered_[i] : i \in 1..9}
         /\ \A i \in 1..9 : FirstNumbers(n)[Numbered_[i]] = IF i <= n THEN 0 ELSE NotYet
<1> DEFINE zero == [f \in Named_(Numbered_, 1, n) |-> 0]
           never == [f \in Named_(Numbered_, n + 1, 9) |-> NotYet]
<1>1. FirstNumbers(n) = zero ++ never
  BY DEF FirstNumbers
<1>2. DOMAIN zero = {Numbered_[i] : i \in 1..n} /\ \A i \in 1..n : zero[Numbered_[i]] = 0
  BY DEF Named_
<1>3. DOMAIN never = {Numbered_[i] : i \in (n + 1)..9} /\ \A i \in (n + 1)..9 : never[Numbered_[i]] = NotYet
  BY DEF Named_
<1> HIDE DEF zero, never
<1>4. /\ DOMAIN FirstNumbers(n) = DOMAIN zero \union DOMAIN never
      /\ \A f \in DOMAIN zero \union DOMAIN never :
            FirstNumbers(n)[f] = IF f \in DOMAIN zero THEN zero[f] ELSE never[f]
  BY <1>1 DEF ++
<1>5. (1..n) \union ((n + 1)..9) = 1..9
  OBVIOUS
<1>6. DOMAIN FirstNumbers(n) = {Numbered_[i] : i \in 1..9}
  BY <1>2, <1>3, <1>4, <1>5
<1>7. \A i \in 1..9 : Numbered_[i] \in DOMAIN zero <=> i <= n
  BY <1>2, ForkNames
<1>8. \A i \in 1..9 : FirstNumbers(n)[Numbered_[i]] = IF i <= n THEN 0 ELSE NotYet
  BY <1>2, <1>3, <1>4, <1>6, <1>7
<1> QED
  BY <1>6, <1>8

\* The times of the timed forks, the last perhaps at a time of its own.
ZeroAt(times, k) == DOMAIN times = {Timed[i] : i \in 1..k} /\ \A i \in 1..k : times[Timed[i]] = 0

LEMMA FirstTimesAre ==
  ASSUME NEW k \in 0..9
  PROVE  ZeroAt(FirstTimes(k), k)
BY DEF FirstTimes, Named_, ZeroAt

TransitionsAt(times, k) ==
    /\ DOMAIN times = {Timed[i] : i \in 1..k}
    /\ \A i \in 1..k : times[Timed[i]] = IF i = k THEN 15000 ELSE 0

LEMMA TransitionTimesAre ==
  ASSUME NEW k \in 1..9
  PROVE  TransitionsAt(ThenAtTransition(k - 1), k)
<1> DEFINE first == FirstTimes(k - 1)
           last == [f \in {Timed[k]} |-> 15000]
<1>1. ThenAtTransition(k - 1) = first ++ last
  <2>1. k - 1 + 1 = k
    OBVIOUS
  <2> QED
    BY <2>1 DEF ThenAtTransition, TransitionTime
<1>2. k - 1 \in 0..9
  OBVIOUS
<1>3. DOMAIN first = {Timed[i] : i \in 1..(k - 1)} /\ \A i \in 1..(k - 1) : first[Timed[i]] = 0
  <2>1. ZeroAt(first, k - 1)
    BY <1>2, FirstTimesAre
  <2> QED
    BY <2>1 DEF ZeroAt
<1>4. DOMAIN last = {Timed[k]} /\ last[Timed[k]] = 15000
  OBVIOUS
<1> HIDE DEF first, last
<1>5. /\ DOMAIN ThenAtTransition(k - 1) = DOMAIN first \union DOMAIN last
      /\ \A f \in DOMAIN first \union DOMAIN last :
            ThenAtTransition(k - 1)[f] = IF f \in DOMAIN first THEN first[f] ELSE last[f]
  BY <1>1 DEF ++
<1>6. 1..k = (1..(k - 1)) \union {k}
  OBVIOUS
<1>7. Timed[k] \notin DOMAIN first
  BY <1>3, ForkNames
<1>8. DOMAIN ThenAtTransition(k - 1) = {Timed[i] : i \in 1..k}
  <2>1. DOMAIN ThenAtTransition(k - 1) = {Timed[i] : i \in 1..(k - 1)} \union {Timed[k]}
    BY <1>3, <1>4, <1>5
  <2> QED
    BY <1>6, <2>1
<1>9. \A i \in 1..k : ThenAtTransition(k - 1)[Timed[i]] = IF i = k THEN 15000 ELSE 0
  <2>1. \A i \in 1..(k - 1) : Timed[i] \in DOMAIN first
    BY <1>3
  <2> QED
    BY <1>3, <1>4, <1>5, <1>6, <1>7, <2>1
<1> QED
  BY <1>8, <1>9 DEF TransitionsAt

\* A fork that is active, and none after it, is the client's.
Active(rules, number, time, f) ==
  \/ f \in DOMAIN rules.number /\ rules.number[f] <= number
  \/ f \in DOMAIN rules.time /\ rules.time[f] <= time

LEMMA NewestFork ==
  ASSUME NEW rules, NEW number, NEW time
  PROVE  /\ \A i \in 1..19 :
               /\ Active(rules, number, time, KnownForks[i])
               /\ \A j \in 1..19 : j > i => ~Active(rules, number, time, KnownForks[j])
               => ClientFork(rules, number, time) = KnownForks[i]
         /\ (\A i \in 1..19 : ~Active(rules, number, time, KnownForks[i]))
               => ClientFork(rules, number, time) = "Frontier"
<1> DEFINE active == {i \in 1..19 : Active(rules, number, time, KnownForks[i])}
           newest == CHOOSE i \in active : \A j \in active : j <= i
<1>1. ClientFork(rules, number, time) = IF active = {} THEN "Frontier" ELSE KnownForks[newest]
  <2>1. ClientFork(rules, number, time) =
          LET on(f) == Active(rules, number, time, f)
              set == {i \in DOMAIN KnownForks : on(KnownForks[i])}
          IN  IF set = {} THEN "Frontier" ELSE KnownForks[CHOOSE i \in set : \A j \in set : j <= i]
    BY DEF ClientFork, KnownForks, Active
  <2> QED
    BY <2>1, KnownForksAre
<1>2. ASSUME NEW i \in 1..19, Active(rules, number, time, KnownForks[i]),
             \A j \in 1..19 : j > i => ~Active(rules, number, time, KnownForks[j])
      PROVE  ClientFork(rules, number, time) = KnownForks[i]
  <2>1. i \in active /\ \A j \in active : j <= i
    BY <1>2
  <2>2. newest \in active /\ \A j \in active : j <= newest
    BY <2>1
  <2>3. active \subseteq Int
    OBVIOUS
  <2> HIDE DEF active, newest
  <2>4. newest = i
    BY <2>1, <2>2, <2>3
  <2> QED
    BY <1>1, <2>1, <2>4
<1>3. ASSUME \A i \in 1..19 : ~Active(rules, number, time, KnownForks[i])
      PROVE  ClientFork(rules, number, time) = "Frontier"
  <2>1. active = {}
    BY <1>3
  <2> QED
    BY <1>1, <2>1
<1> QED
  BY <1>2, <1>3

\* The entries of the table, by the names of the forks.
ParisToPragueNames ==
    {"Paris", "Shanghai", "Cancun", "Prague", "ParisToShanghaiAtTime15k", "ShanghaiToCancunAtTime15k",
     "CancunToPragueAtTime15k"}
OsakaToBPO2Names ==
    {"Osaka", "BPO1", "BPO2", "PragueToOsakaAtTime15k", "OsakaToBPO1AtTime15k",
     "BPO1ToBPO2AtTime15k"}
BPO3ToAmsterdamNames == {"BPO3", "BPO4", "Amsterdam", "BPO2ToBPO3AtTime15k", "BPO3ToBPO4AtTime15k"}

LEMMA ParisToPragueIs ==
  /\ DOMAIN ParisToPrague = ParisToPragueNames
  /\ ParisToPrague["Paris"] = Rules(Merged, NoTimes, "Frontier")
  /\ \A f \in {"Shanghai", "Cancun", "Prague"} : ParisToPrague[f] = At0(f)
  /\ ParisToPrague["ParisToShanghaiAtTime15k"] = To("Shanghai")
  /\ ParisToPrague["ShanghaiToCancunAtTime15k"] = To("Cancun")
  /\ ParisToPrague["CancunToPragueAtTime15k"] = To("Prague")
<1> DEFINE a == [f \in {"Paris"} |-> Rules(Merged, NoTimes, "Frontier")]
           b == [f \in {"Shanghai", "Cancun", "Prague"} |-> At0(f)]
           c == [f \in {"ParisToShanghaiAtTime15k"} |-> To("Shanghai")]
           d == [f \in {"ShanghaiToCancunAtTime15k"} |-> To("Cancun")]
           e == [f \in {"CancunToPragueAtTime15k"} |-> To("Prague")]
<1>1. ParisToPrague = (((a ++ b) ++ c) ++ d) ++ e
  BY DEF ParisToPrague
<1>2. DOMAIN a = {"Paris"} /\ a["Paris"] = Rules(Merged, NoTimes, "Frontier")
  OBVIOUS
<1>3. DOMAIN b = {"Shanghai", "Cancun", "Prague"} /\ \A f \in {"Shanghai", "Cancun", "Prague"} : b[f] = At0(f)
  OBVIOUS
<1>4. DOMAIN c = {"ParisToShanghaiAtTime15k"} /\ c["ParisToShanghaiAtTime15k"] = To("Shanghai")
  OBVIOUS
<1>5. DOMAIN d = {"ShanghaiToCancunAtTime15k"} /\ d["ShanghaiToCancunAtTime15k"] = To("Cancun")
  OBVIOUS
<1>6. DOMAIN e = {"CancunToPragueAtTime15k"} /\ e["CancunToPragueAtTime15k"] = To("Prague")
  OBVIOUS
<1> HIDE DEF a, b, c, d, e
<1>7. DOMAIN ParisToPrague = ParisToPragueNames
  BY <1>1, <1>2, <1>3, <1>4, <1>5, <1>6 DEF ++, ParisToPragueNames
<1>8. \A f \in DOMAIN a \union DOMAIN b : (((a ++ b) ++ c) ++ d ++ e)[f] = (a ++ b)[f]
  BY DEF ++
<1>9. ParisToPrague["Paris"] = Rules(Merged, NoTimes, "Frontier")
  BY <1>1, <1>2, <1>8 DEF ++
<1>10. \A f \in {"Shanghai", "Cancun", "Prague"} : ParisToPrague[f] = At0(f)
  BY <1>1, <1>2, <1>3, <1>8 DEF ++
<1>11. ParisToPrague["ParisToShanghaiAtTime15k"] = To("Shanghai")
  BY <1>1, <1>2, <1>3, <1>4 DEF ++
<1>12. ParisToPrague["ShanghaiToCancunAtTime15k"] = To("Cancun")
  BY <1>1, <1>2, <1>3, <1>4, <1>5 DEF ++
<1>13. ParisToPrague["CancunToPragueAtTime15k"] = To("Prague")
  BY <1>1, <1>2, <1>3, <1>4, <1>5, <1>6 DEF ++
<1> QED
  BY <1>7, <1>9, <1>10, <1>11, <1>12, <1>13

LEMMA OsakaToBPO2Is ==
  /\ DOMAIN OsakaToBPO2 = OsakaToBPO2Names
  /\ \A f \in {"Osaka", "BPO1", "BPO2"} : OsakaToBPO2[f] = At0(f)
  /\ OsakaToBPO2["PragueToOsakaAtTime15k"] = To("Osaka")
  /\ OsakaToBPO2["OsakaToBPO1AtTime15k"] = To("BPO1")
  /\ OsakaToBPO2["BPO1ToBPO2AtTime15k"] = To("BPO2")
<1> DEFINE a == [f \in {"Osaka", "BPO1", "BPO2"} |-> At0(f)]
           b == [f \in {"PragueToOsakaAtTime15k"} |-> To("Osaka")]
           c == [f \in {"OsakaToBPO1AtTime15k"} |-> To("BPO1")]
           d == [f \in {"BPO1ToBPO2AtTime15k"} |-> To("BPO2")]
<1>1. OsakaToBPO2 = ((a ++ b) ++ c) ++ d
  BY DEF OsakaToBPO2
<1>2. DOMAIN a = {"Osaka", "BPO1", "BPO2"} /\ \A f \in {"Osaka", "BPO1", "BPO2"} : a[f] = At0(f)
  OBVIOUS
<1>3. DOMAIN b = {"PragueToOsakaAtTime15k"} /\ b["PragueToOsakaAtTime15k"] = To("Osaka")
  OBVIOUS
<1>4. DOMAIN c = {"OsakaToBPO1AtTime15k"} /\ c["OsakaToBPO1AtTime15k"] = To("BPO1")
  OBVIOUS
<1>5. DOMAIN d = {"BPO1ToBPO2AtTime15k"} /\ d["BPO1ToBPO2AtTime15k"] = To("BPO2")
  OBVIOUS
<1> HIDE DEF a, b, c, d
<1>6. DOMAIN OsakaToBPO2 = OsakaToBPO2Names
  BY <1>1, <1>2, <1>3, <1>4, <1>5 DEF ++, OsakaToBPO2Names
<1>7. \A f \in {"Osaka", "BPO1", "BPO2"} : OsakaToBPO2[f] = At0(f)
  BY <1>1, <1>2 DEF ++
<1>8. OsakaToBPO2["PragueToOsakaAtTime15k"] = To("Osaka")
  BY <1>1, <1>2, <1>3 DEF ++
<1>9. OsakaToBPO2["OsakaToBPO1AtTime15k"] = To("BPO1")
  BY <1>1, <1>2, <1>3, <1>4 DEF ++
<1>10. OsakaToBPO2["BPO1ToBPO2AtTime15k"] = To("BPO2")
  BY <1>1, <1>2, <1>3, <1>4, <1>5 DEF ++
<1> QED
  BY <1>6, <1>7, <1>8, <1>9, <1>10

LEMMA BPO3ToAmsterdamIs ==
  /\ DOMAIN BPO3ToAmsterdam = BPO3ToAmsterdamNames
  /\ \A f \in {"BPO3", "BPO4", "Amsterdam"} : BPO3ToAmsterdam[f] = At0(f)
  /\ BPO3ToAmsterdam["BPO2ToBPO3AtTime15k"] = To("BPO3")
  /\ BPO3ToAmsterdam["BPO3ToBPO4AtTime15k"] = To("BPO4")
<1> DEFINE a == [f \in {"BPO3", "BPO4", "Amsterdam"} |-> At0(f)]
           b == [f \in {"BPO2ToBPO3AtTime15k"} |-> To("BPO3")]
           c == [f \in {"BPO3ToBPO4AtTime15k"} |-> To("BPO4")]
<1>1. BPO3ToAmsterdam = (a ++ b) ++ c
  BY DEF BPO3ToAmsterdam
<1>2. DOMAIN a = {"BPO3", "BPO4", "Amsterdam"} /\ \A f \in {"BPO3", "BPO4", "Amsterdam"} : a[f] = At0(f)
  OBVIOUS
<1>3. DOMAIN b = {"BPO2ToBPO3AtTime15k"} /\ b["BPO2ToBPO3AtTime15k"] = To("BPO3")
  OBVIOUS
<1>4. DOMAIN c = {"BPO3ToBPO4AtTime15k"} /\ c["BPO3ToBPO4AtTime15k"] = To("BPO4")
  OBVIOUS
<1> HIDE DEF a, b, c
<1>5. DOMAIN BPO3ToAmsterdam = BPO3ToAmsterdamNames
  BY <1>1, <1>2, <1>3, <1>4 DEF ++, BPO3ToAmsterdamNames
<1>6. \A f \in {"BPO3", "BPO4", "Amsterdam"} : BPO3ToAmsterdam[f] = At0(f)
  BY <1>1, <1>2 DEF ++
<1>7. BPO3ToAmsterdam["BPO2ToBPO3AtTime15k"] = To("BPO3")
  BY <1>1, <1>2, <1>3 DEF ++
<1>8. BPO3ToAmsterdam["BPO3ToBPO4AtTime15k"] = To("BPO4")
  BY <1>1, <1>2, <1>3, <1>4 DEF ++
<1> QED
  BY <1>5, <1>6, <1>7, <1>8

LEMMA RulesetIs ==
  /\ DOMAIN ruleset =
       {"Frontier", "Homestead"} \union {Numbered_[i] : i \in 4..9} \union {"BerlinToLondonAt5"}
       \union ParisToPragueNames \union OsakaToBPO2Names \union BPO3ToAmsterdamNames
  /\ \A f \in {"Frontier", "Homestead"} : ruleset[f] = Before_(f)
  /\ \A i \in 4..9 : ruleset[Numbered_[i]] = ByNumber(Numbered_[i])
  /\ ruleset["BerlinToLondonAt5"] = BerlinToLondon
  /\ \A f \in ParisToPragueNames : ruleset[f] = ParisToPrague[f]
  /\ \A f \in OsakaToBPO2Names : ruleset[f] = OsakaToBPO2[f]
  /\ \A f \in BPO3ToAmsterdamNames : ruleset[f] = BPO3ToAmsterdam[f]
<1> DEFINE numbered == {"Byzantium", "Constantinople", "ConstantinopleFix", "Istanbul", "Berlin", "London"}
           a == [f \in {"Frontier", "Homestead"} |-> Before_(f)]
           b == [f \in numbered |-> ByNumber(f)]
           c == [f \in {"BerlinToLondonAt5"} |-> BerlinToLondon]
<1>1. ruleset = ((((a ++ b) ++ c) ++ ParisToPrague) ++ OsakaToBPO2) ++ BPO3ToAmsterdam
  <2>1. ByzantiumToIstanbul \union BerlinAndLondon = numbered
    <3>1. ByzantiumToIstanbul = {Numbered_[4], Numbered_[5], Numbered_[6], Numbered_[7]}
      BY DEF ByzantiumToIstanbul, Named_
    <3> QED
      BY <3>1 DEF BerlinAndLondon, Numbered_
  <2> QED
    BY <2>1 DEF ruleset
<1>2. {Numbered_[i] : i \in 4..9} = numbered
  <2>1. {Numbered_[i] : i \in 4..9} =
          {Numbered_[4], Numbered_[5], Numbered_[6], Numbered_[7], Numbered_[8], Numbered_[9]}
    <3>1. \A i \in 4..9 : i = 4 \/ i = 5 \/ i = 6 \/ i = 7 \/ i = 8 \/ i = 9
      OBVIOUS
    <3> QED
      BY <3>1
  <2> QED
    BY <2>1 DEF Numbered_
<1>3. DOMAIN a = {"Frontier", "Homestead"} /\ \A f \in {"Frontier", "Homestead"} : a[f] = Before_(f)
  OBVIOUS
<1>4. DOMAIN b = numbered /\ \A f \in numbered : b[f] = ByNumber(f)
  OBVIOUS
<1>5. DOMAIN c = {"BerlinToLondonAt5"} /\ c["BerlinToLondonAt5"] = BerlinToLondon
  OBVIOUS
<1> HIDE DEF a, b, c
<1>6. DOMAIN ruleset =
        {"Frontier", "Homestead"} \union numbered \union {"BerlinToLondonAt5"}
        \union ParisToPragueNames \union OsakaToBPO2Names \union BPO3ToAmsterdamNames
  BY <1>1, <1>3, <1>4, <1>5, ParisToPragueIs, OsakaToBPO2Is, BPO3ToAmsterdamIs DEF ++
<1>7. \A f \in {"Frontier", "Homestead"} : ruleset[f] = Before_(f)
  BY <1>1, <1>3 DEF ++
<1>8. \A f \in numbered : ruleset[f] = ByNumber(f)
  BY <1>1, <1>3, <1>4 DEF ++
<1>9. ruleset["BerlinToLondonAt5"] = BerlinToLondon
  BY <1>1, <1>3, <1>4, <1>5 DEF ++
<1>10. \A f \in ParisToPragueNames : ruleset[f] = ParisToPrague[f]
  BY <1>1, <1>3, <1>4, <1>5, ParisToPragueIs DEF ++, ParisToPragueNames
<1>11. \A f \in OsakaToBPO2Names : ruleset[f] = OsakaToBPO2[f]
  BY <1>1, <1>3, <1>4, <1>5, ParisToPragueIs, OsakaToBPO2Is DEF ++, ParisToPragueNames, OsakaToBPO2Names
<1>12. \A f \in BPO3ToAmsterdamNames : ruleset[f] = BPO3ToAmsterdam[f]
  BY <1>1, <1>3, <1>4, <1>5, ParisToPragueIs, OsakaToBPO2Is, BPO3ToAmsterdamIs
     DEF ++, ParisToPragueNames, OsakaToBPO2Names, BPO3ToAmsterdamNames
<1>13. \A i \in 4..9 : ruleset[Numbered_[i]] = ByNumber(Numbered_[i])
  BY <1>2, <1>8
<1> QED
  BY <1>2, <1>6, <1>7, <1>9, <1>10, <1>11, <1>12, <1>13

\* So every fork of the table is one of these, with these rules.
LEMMA TableIs ==
  ASSUME NEW f \in DOMAIN ruleset
  PROVE  \/ f \in {"Frontier", "Homestead"} /\ ruleset[f] = Before_(f)
         \/ \E i \in 4..9 : f = Numbered_[i] /\ ruleset[f] = ByNumber(f)
         \/ f = "BerlinToLondonAt5" /\ ruleset[f] = BerlinToLondon
         \/ f = "Paris" /\ ruleset[f] = Rules(Merged, NoTimes, "Frontier")
         \/ \E k \in 1..9 : f = Timed[k] /\ ruleset[f] = At0(f)
         \/ \E k \in 1..8 : f = TimedTransitions[k] /\ ruleset[f] = To(Timed[k])
<1>1. /\ Timed[1] = "Shanghai" /\ Timed[2] = "Cancun" /\ Timed[3] = "Prague" /\ Timed[4] = "Osaka"
      /\ Timed[5] = "BPO1" /\ Timed[6] = "BPO2" /\ Timed[7] = "BPO3" /\ Timed[8] = "BPO4"
      /\ Timed[9] = "Amsterdam"
  BY DEF Timed
<1>2. /\ TimedTransitions[1] = "ParisToShanghaiAtTime15k"
      /\ TimedTransitions[2] = "ShanghaiToCancunAtTime15k"
      /\ TimedTransitions[3] = "CancunToPragueAtTime15k"
      /\ TimedTransitions[4] = "PragueToOsakaAtTime15k"
      /\ TimedTransitions[5] = "OsakaToBPO1AtTime15k"
      /\ TimedTransitions[6] = "BPO1ToBPO2AtTime15k"
      /\ TimedTransitions[7] = "BPO2ToBPO3AtTime15k"
      /\ TimedTransitions[8] = "BPO3ToBPO4AtTime15k"
  BY DEF TimedTransitions
<1>3. CASE f \in {"Frontier", "Homestead"} \union {Numbered_[i] : i \in 4..9} \union {"BerlinToLondonAt5"}
  BY <1>3, RulesetIs
<1>4. CASE f \in ParisToPragueNames
  <2>1. ruleset[f] = ParisToPrague[f]
    BY <1>4, RulesetIs
  <2> QED
    BY <1>1, <1>2, <1>4, <2>1, ParisToPragueIs DEF ParisToPragueNames
<1>5. CASE f \in OsakaToBPO2Names
  <2>1. ruleset[f] = OsakaToBPO2[f]
    BY <1>5, RulesetIs
  <2> QED
    BY <1>1, <1>2, <1>5, <2>1, OsakaToBPO2Is DEF OsakaToBPO2Names
<1>6. CASE f \in BPO3ToAmsterdamNames
  <2>1. ruleset[f] = BPO3ToAmsterdam[f]
    BY <1>6, RulesetIs
  <2> QED
    BY <1>1, <1>2, <1>6, <2>1, BPO3ToAmsterdamIs DEF BPO3ToAmsterdamNames
<1> QED
  BY <1>3, <1>4, <1>5, <1>6, RulesetIs

LEMMA PlaceIs ==
  \A i \in 1..9 : Place(Numbered_, Numbered_[i]) = i /\ Place(Timed, Timed[i]) = i
<1> SUFFICES ASSUME NEW i \in 1..9
             PROVE  Place(Numbered_, Numbered_[i]) = i /\ Place(Timed, Timed[i]) = i
  OBVIOUS
<1>1. \A q : DOMAIN q = 1..9 /\ (\A j \in 1..9 : q[j] = q[i] => j = i) => Place(q, q[i]) = i
  BY DEF Place
<1> QED
  BY <1>1, ForkNames

\* The newest fork by number, before the merge, and by time, after it.
LEMMA NumberedClient ==
  ASSUME NEW rules, NEW number, NEW time, NEW n \in 0..9,
         \A i \in 1..9 : Active(rules, number, time, Numbered_[i]) <=> i <= n,
         ~Active(rules, number, time, "Paris"),
         \A i \in 1..9 : ~Active(rules, number, time, Timed[i])
  PROVE  ClientFork(rules, number, time) = IF n = 0 THEN "Frontier" ELSE Numbered_[n]
<1> DEFINE On(f) == Active(rules, number, time, f)
<1>1. \A i \in 1..9 : (On(KnownForks[i]) <=> i <= n) /\ KnownForks[i] = Numbered_[i]
  BY KnownForksAre
<1>2. \A i \in 10..19 : ~On(KnownForks[i])
  <2>1. \A i \in 10..19 : i = 10 \/ (i - 10 \in 1..9 /\ i = (i - 10) + 10)
    OBVIOUS
  <2>2. \A i \in 1..9 : ~On(KnownForks[i + 10])
    BY KnownForksAre
  <2>3. ~On(KnownForks[10])
    BY KnownForksAre
  <2> HIDE DEF On
  <2> QED
    BY <2>1, <2>2, <2>3
<1>3. CASE n = 0
  <2>1. \A i \in 1..19 : ~On(KnownForks[i])
    BY <1>1, <1>2, <1>3
  <2> QED
    BY <1>3, <2>1, NewestFork
<1>4. CASE n > 0
  <2>1. On(KnownForks[n]) /\ \A j \in 1..19 : j > n => ~On(KnownForks[j])
    <3> HIDE DEF On
    <3> QED
      BY <1>1, <1>2, <1>4
  <2>2. n \in 1..19
    BY <1>4
  <2>3. ClientFork(rules, number, time) = KnownForks[n]
    BY <2>1, <2>2, NewestFork
  <2> QED
    BY <1>1, <1>4, <2>3
<1> QED
  BY <1>3, <1>4

LEMMA TimedClient ==
  ASSUME NEW rules, NEW number, NEW time, NEW m \in 0..9,
         Active(rules, number, time, "Paris"),
         \A i \in 1..9 : Active(rules, number, time, Timed[i]) <=> i <= m
  PROVE  ClientFork(rules, number, time) = IF m = 0 THEN "Paris" ELSE Timed[m]
<1> DEFINE On(f) == Active(rules, number, time, f)
<1>1. \A i \in 1..9 : (On(KnownForks[i + 10]) <=> i <= m) /\ KnownForks[i + 10] = Timed[i]
  BY KnownForksAre
<1>2. \A j \in 1..19 : j > m + 10 => ~On(KnownForks[j])
  <2>1. \A j \in 1..19 : j > m + 10 => j - 10 \in 1..9 /\ j = (j - 10) + 10 /\ j - 10 > m
    OBVIOUS
  <2> HIDE DEF On
  <2>2. \A j \in 1..19 : j > m + 10 => (On(KnownForks[(j - 10) + 10]) <=> j - 10 <= m)
    BY <1>1, <2>1
  <2> QED
    BY <2>1, <2>2
<1>3. On(KnownForks[m + 10]) /\ KnownForks[m + 10] = IF m = 0 THEN "Paris" ELSE Timed[m]
  <2>1. CASE m = 0
    BY <2>1, KnownForksAre
  <2>2. CASE m > 0
    <3> HIDE DEF On
    <3> QED
      BY <1>1, <2>2
  <2> QED
    BY <2>1, <2>2
<1>4. m + 10 \in 1..19
  OBVIOUS
<1> QED
  BY <1>2, <1>3, <1>4, NewestFork

\* The first n numbered forks at 0, the others not yet, and no time: the client's is the
\* last of them.
LEMMA FirstNumbersClient ==
  ASSUME NEW n \in 0..9, NEW rules, NEW number \in Nat, number < NotYet, NEW time,
         rules.number = FirstNumbers(n) \/ rules.number = FirstNumbers(n) ++ [DAO |-> NotYet],
         rules.time = NoTimes
  PROVE  ClientFork(rules, number, time) = IF n = 0 THEN "Frontier" ELSE Numbered_[n]
<1>1. /\ DOMAIN rules.number \subseteq {Numbered_[i] : i \in 1..9} \union {"DAO"}
      /\ \A i \in 1..9 : /\ Numbered_[i] \in DOMAIN rules.number
                         /\ rules.number[Numbered_[i]] = IF i <= n THEN 0 ELSE NotYet
  <2>1. CASE rules.number = FirstNumbers(n)
    BY <2>1, FirstNumbersAre
  <2>2. CASE rules.number = FirstNumbers(n) ++ [DAO |-> NotYet]
    <3>1. /\ DOMAIN rules.number = DOMAIN FirstNumbers(n) \union {"DAO"}
          /\ \A x \in DOMAIN FirstNumbers(n) : rules.number[x] = FirstNumbers(n)[x]
      <4> DEFINE dao == [DAO |-> NotYet]
      <4>1. DOMAIN dao = {"DAO"} /\ rules.number = FirstNumbers(n) ++ dao
        BY <2>2
      <4> HIDE DEF dao
      <4> QED
        BY <4>1 DEF ++
    <3> QED
      BY <3>1, FirstNumbersAre
  <2> QED
    BY <2>1, <2>2
<1>2. DOMAIN rules.time = {}
  BY DEF NoTimes
<1>3. \A i \in 1..9 : Active(rules, number, time, Numbered_[i]) <=> i <= n
  BY <1>1, <1>2 DEF Active, NotYet
<1>4. ~Active(rules, number, time, "Paris")
  BY <1>1, <1>2, ForkNames DEF Active
<1>5. \A i \in 1..9 : ~Active(rules, number, time, Timed[i])
  <2>1. \A i \in 1..9 : Timed[i] # "DAO"
    BY DEF Timed
  <2> QED
    BY <1>1, <1>2, <2>1, ForkNames DEF Active
<1> QED
  BY <1>3, <1>4, <1>5, NumberedClient

\* With a block of its own for London.
LEMMA BerlinToLondonClient ==
  ASSUME NEW rules, NEW number \in Nat, NEW time,
         rules.number = BerlinToLondon.number, rules.time = BerlinToLondon.time
  PROVE  ClientFork(rules, number, time) = IF number >= 5 THEN "London" ELSE "Berlin"
<1> DEFINE n == IF number >= 5 THEN 9 ELSE 8
           london == [London |-> 5]
<1>1. DOMAIN london = {"London"} /\ london["London"] = 5
  OBVIOUS
<1>2. rules.number = london ++ FirstNumbers(8) /\ DOMAIN rules.time = {}
  BY DEF BerlinToLondon, Rules, NoTimes
<1>3. Numbered_[9] = "London" /\ Numbered_[8] = "Berlin"
  BY DEF Numbered_
<1> HIDE DEF london
<1>4. /\ DOMAIN rules.number = {Numbered_[i] : i \in 1..9}
      /\ \A i \in 1..9 : rules.number[Numbered_[i]] = IF i = 9 THEN 5 ELSE 0
  <2>1. /\ DOMAIN rules.number = {"London"} \union DOMAIN FirstNumbers(8)
        /\ rules.number["London"] = 5
        /\ \A x \in DOMAIN FirstNumbers(8) : x # "London" => rules.number[x] = FirstNumbers(8)[x]
    BY <1>1, <1>2 DEF ++
  <2>2. \A i \in 1..9 : i # 9 => Numbered_[i] # "London"
    BY <1>3, ForkNames
  <2>3. /\ DOMAIN FirstNumbers(8) = {Numbered_[i] : i \in 1..9}
        /\ \A i \in 1..9 : FirstNumbers(8)[Numbered_[i]] = IF i <= 8 THEN 0 ELSE NotYet
    BY FirstNumbersAre
  <2> QED
    BY <1>3, <2>1, <2>2, <2>3
<1>5. \A i \in 1..9 : Active(rules, number, time, Numbered_[i]) <=> i <= n
  BY <1>2, <1>4 DEF Active
<1>6. ~Active(rules, number, time, "Paris") /\ \A i \in 1..9 : ~Active(rules, number, time, Timed[i])
  BY <1>2, <1>4, ForkNames DEF Active
<1>7. n \in 0..9
  OBVIOUS
<1>8. ClientFork(rules, number, time) = IF n = 0 THEN "Frontier" ELSE Numbered_[n]
  <2> HIDE DEF n
  <2> QED
    BY <1>5, <1>6, <1>7, NumberedClient
<1> QED
  BY <1>3, <1>8

\* From the merge on, with the times of the first timed forks.
LEMMA MergedIs ==
  /\ DOMAIN Merged = {Numbered_[i] : i \in 1..9} \union {"Paris"}
  /\ Merged["Paris"] = 0
<1> DEFINE paris == [Paris |-> 0]
<1>1. DOMAIN paris = {"Paris"} /\ paris["Paris"] = 0 /\ Merged = FirstNumbers(9) ++ paris
  BY DEF Merged
<1> HIDE DEF paris
<1>2. DOMAIN FirstNumbers(9) = {Numbered_[i] : i \in 1..9}
  BY FirstNumbersAre
<1>3. "Paris" \notin DOMAIN FirstNumbers(9)
  BY <1>2, ForkNames
<1> QED
  BY <1>1, <1>2, <1>3 DEF ++

LEMMA MergedClient ==
  ASSUME NEW m \in 0..9, NEW rules, NEW number \in Nat, NEW time \in Nat, rules.number = Merged,
         \/ rules.time = FirstTimes(m)
         \/ m < 9 /\ rules.time = ThenAtTransition(m) /\ time < 15000
         \/ m > 0 /\ rules.time = ThenAtTransition(m - 1) /\ time >= 15000
  PROVE  ClientFork(rules, number, time) = IF m = 0 THEN "Paris" ELSE Timed[m]
<1>1. Active(rules, number, time, "Paris")
  BY MergedIs DEF Active
<1>2. \A i \in 1..9 : Timed[i] \notin DOMAIN rules.number
  BY MergedIs, ForkNames
<1>3. \A i \in 1..9 : (Timed[i] \in DOMAIN rules.time /\ rules.time[Timed[i]] <= time) <=> i <= m
  <2>1. CASE rules.time = FirstTimes(m)
    <3>1. ZeroAt(FirstTimes(m), m)
      BY FirstTimesAre
    <3>2. \A i \in 1..9 : Timed[i] \in {Timed[j] : j \in 1..m} <=> i <= m
      BY ForkNames
    <3> QED
      BY <2>1, <3>1, <3>2 DEF ZeroAt
  <2>2. CASE m < 9 /\ rules.time = ThenAtTransition(m) /\ time < 15000
    <3>1. m + 1 \in 1..9 /\ m + 1 - 1 = m
      BY <2>2
    <3>2. TransitionsAt(ThenAtTransition(m + 1 - 1), m + 1)
      BY <3>1, TransitionTimesAre
    <3>3. \A i \in 1..9 : Timed[i] \in {Timed[j] : j \in 1..(m + 1)} <=> i <= m + 1
      BY <2>2, ForkNames
    <3> QED
      BY <2>2, <3>1, <3>2, <3>3 DEF TransitionsAt
  <2>3. CASE m > 0 /\ rules.time = ThenAtTransition(m - 1) /\ time >= 15000
    <3>1. TransitionsAt(ThenAtTransition(m - 1), m)
      BY <2>3, TransitionTimesAre
    <3>2. \A i \in 1..9 : Timed[i] \in {Timed[j] : j \in 1..m} <=> i <= m
      BY ForkNames
    <3> QED
      BY <2>3, <3>1, <3>2 DEF TransitionsAt
  <2> QED
    BY <2>1, <2>2, <2>3
<1>4. \A i \in 1..9 : Active(rules, number, time, Timed[i]) <=> i <= m
  BY <1>2, <1>3 DEF Active
<1> QED
  BY <1>1, <1>4, TimedClient

\* The parameters of a fork, and of those it inherits from, are among its own.
HasEntry(c, entries) ==
    \E entry \in entries :
        /\ entry.fork = c.name /\ entry.max = c.max_blobs_per_block
        /\ entry.target = c.target_blobs_per_block
        /\ entry.fraction = c.blob_base_fee_update_fraction

LEMMA EntryGiven ==
  ASSUME NEW g \in ALL_FORKS, NEW a \in Class[g].ancestors, "Cancun" \in Class[a].ancestors
  PROVE  HasEntry(Class[a], BlobEntries(Class[g]))
<1> DEFINE entry == [fork |-> a, target |-> Class[a].target_blobs_per_block,
                     max |-> Class[a].max_blobs_per_block,
                     fraction |-> Class[a].blob_base_fee_update_fraction]
<1>1. a \in ALL_FORKS /\ Class[a].name = a
  BY LineageAssumption
<1>2. Class[a].supports_blobs
  BY <1>1, AllocationAssumption
<1>3. entry \in BlobEntries(Class[g])
  BY <1>2 DEF BlobEntries
<1>4. /\ entry.fork = a /\ entry.max = Class[a].max_blobs_per_block
      /\ entry.target = Class[a].target_blobs_per_block
      /\ entry.fraction = Class[a].blob_base_fee_update_fraction
  OBVIOUS
<1> HIDE DEF entry
<1> QED
  BY <1>1, <1>3, <1>4 DEF HasEntry

\* The forks that have an entry without blobs are before Cancun.
LEMMA MainnetNames ==
  /\ DOMAIN Timed = 1..9 /\ DOMAIN Numbered_ = 1..9
  /\ \A i \in 1..9 : Numbered_[i] \in Mainnet /\ Timed[i] \in Mainnet
  /\ "Frontier" \in Mainnet /\ "Paris" \in Mainnet
  /\ ToSet(Timed) = {Timed[i] : i \in 1..9}
BY ForkNames DEF Mainnet, ToSet

\* The fork of f that a block falls in.
Serves(f, number, time) ==
    LET rules == environment(f)
        c == fork_at(Fork(f), number, time)
    IN  /\ ClientFork(rules, number, time) = c.name
        /\ "Cancun" \in c.ancestors => HasEntry(c, rules.blobs)

LEMMA PlainServes ==
  ASSUME NEW f \in Forks_, f \in DOMAIN ruleset, f \in Mainnet, NEW number, NEW time,
         ClientFork(environment(f), number, time) = f,
         f \in {Timed[i] : i \in 1..9} => ruleset[f].up_to = f
  PROVE  Serves(f, number, time)
<1>1. f \in ALL_FORKS
  BY NamesAssumption DEF Forks_
<1>2. fork_at(Fork(f), number, time) = Class[f] /\ Class[f].name = f /\ f \in Class[f].ancestors
  BY <1>1, LineageAssumption DEF Fork, fork_at
<1>3. ASSUME "Cancun" \in Class[f].ancestors PROVE HasEntry(Class[f], environment(f).blobs)
  <2>1. f \in {Timed[i] : i \in 1..9}
    BY <1>1, <1>3, NamesAssumption, MainnetNames
  <2>2. environment(f).blobs = BlobEntries(Class[f])
    BY <2>1 DEF environment, get_blob_schedule_entries
  <2> QED
    BY <1>1, <1>2, <1>3, <2>2, EntryGiven
<1> QED
  BY <1>2, <1>3 DEF Serves

LEMMA ClientServes ==
  ASSUME NEW f \in Forks_, f \in DOMAIN ruleset, NEW number \in Nat, number < NotYet, NEW time \in Nat
  PROVE  Serves(f, number, time)
<1> DEFINE rules == environment(f)
<1>1. rules.number = ruleset[f].number /\ rules.time = ruleset[f].time
  BY DEF environment
<1>2. \A a, b, c : /\ Rules(a, b, c).number = a /\ Rules(a, b, c).time = b /\ Rules(a, b, c).up_to = c
  BY DEF Rules
<1> HIDE DEF rules
<1>3. CASE f \in {"Frontier", "Homestead"} /\ ruleset[f] = Before_(f)
  <2> DEFINE n == IF f = "Frontier" THEN 0 ELSE 1
  <2>1. rules.number = FirstNumbers(n) ++ [DAO |-> NotYet] /\ rules.time = NoTimes
    BY <1>1, <1>3 DEF Before_, Rules
  <2>2. n \in 0..9
    OBVIOUS
  <2>3. ClientFork(rules, number, time) = IF n = 0 THEN "Frontier" ELSE Numbered_[n]
    <3> HIDE DEF n
    <3> QED
      BY <2>1, <2>2, FirstNumbersClient
  <2>4. ClientFork(rules, number, time) = f
    BY <1>3, <2>3 DEF Numbered_
  <2>5. f \in Mainnet /\ f \notin {Timed[i] : i \in 1..9}
    <3>1. Numbered_[1] = "Homestead"
      BY DEF Numbered_
    <3>2. \A i \in 1..9 : Timed[i] # "Frontier"
      BY DEF Timed
    <3> QED
      BY <1>3, <3>1, <3>2, MainnetNames, ForkNames
  <2> QED
    BY <2>4, <2>5, PlainServes DEF rules
<1>4. CASE \E i \in 4..9 : f = Numbered_[i] /\ ruleset[f] = ByNumber(f)
  <2>1. PICK i \in 4..9 : f = Numbered_[i] /\ ruleset[f] = ByNumber(f)
    BY <1>4
  <2>2. rules.number = FirstNumbers(i) /\ rules.time = NoTimes
    BY <1>1, <1>2, <2>1, PlaceIs DEF ByNumber
  <2>3. ClientFork(rules, number, time) = f
    BY <2>1, <2>2, FirstNumbersClient
  <2>4. f \in Mainnet /\ f \notin {Timed[k] : k \in 1..9}
    BY <2>1, MainnetNames, ForkNames
  <2> QED
    BY <2>3, <2>4, PlainServes DEF rules
<1>5. CASE f = "BerlinToLondonAt5" /\ ruleset[f] = BerlinToLondon
  <2>1. ClientFork(rules, number, time) = IF number >= 5 THEN "London" ELSE "Berlin"
    BY <1>1, <1>5, BerlinToLondonClient
  <2>2. f \notin ALL_FORKS /\ f \in ALL_TRANSITION_FORKS
    BY <1>5, NamesAssumption DEF Forks_
  <2>3. /\ Transitions[f].from = "Berlin" /\ Transitions[f].at_block = 5
        /\ Transitions[f].to = "London" /\ Transitions[f].at_timestamp = 0
    BY <1>5, <2>2, NamesAssumption DEF Goes
  <2>4. "London" \in ALL_FORKS /\ "Berlin" \in ALL_FORKS
    BY <2>2, <2>3, LineageAssumption
  <2>5. fork_at(Fork(f), number, time) = IF number >= 5 THEN Class["London"] ELSE Class["Berlin"]
    BY <2>2, <2>3 DEF fork_at, Fork, Reached
  <2>6. "Cancun" \notin Class["London"].ancestors /\ "Cancun" \notin Class["Berlin"].ancestors
    <3>1. "London" = Numbered_[9] /\ "Berlin" = Numbered_[8]
      BY DEF Numbered_
    <3> QED
      BY <2>4, <3>1, NamesAssumption, MainnetNames, ForkNames
  <2>7. Class["London"].name = "London" /\ Class["Berlin"].name = "Berlin"
    BY <2>4, LineageAssumption
  <2> QED
    BY <2>1, <2>5, <2>6, <2>7 DEF Serves, rules
<1>6. CASE f = "Paris" /\ ruleset[f] = Rules(Merged, NoTimes, "Frontier")
  <2>1. NoTimes = FirstTimes(0)
    BY DEF NoTimes, FirstTimes, Named_
  <2>2. ClientFork(rules, number, time) = "Paris"
    BY <1>1, <1>2, <1>6, <2>1, MergedClient
  <2> QED
    BY <1>6, <2>2, PlainServes, MainnetNames, ForkNames DEF rules
<1>7. CASE \E k \in 1..9 : f = Timed[k] /\ ruleset[f] = At0(f)
  <2>1. PICK k \in 1..9 : f = Timed[k] /\ ruleset[f] = At0(f)
    BY <1>7
  <2>2. rules.number = Merged /\ rules.time = FirstTimes(k) /\ ruleset[f].up_to = f
    BY <1>1, <1>2, <2>1, PlaceIs DEF At0
  <2>3. ClientFork(rules, number, time) = f
    BY <2>1, <2>2, MergedClient
  <2> QED
    BY <2>1, <2>2, <2>3, PlainServes, MainnetNames DEF rules
<1>8. CASE \E k \in 1..8 : f = TimedTransitions[k] /\ ruleset[f] = To(Timed[k])
  <2>1. PICK k \in 1..8 : f = TimedTransitions[k] /\ ruleset[f] = To(Timed[k])
    BY <1>8
  <2> DEFINE from == IF k = 1 THEN "Paris" ELSE Timed[k - 1]
             to == Timed[k]
  <2>2. rules.number = Merged /\ rules.time = ThenAtTransition(k - 1) /\ ruleset[f].up_to = to
    BY <1>1, <1>2, <2>1, PlaceIs DEF To
  <2>3. ClientFork(rules, number, time) = IF time >= 15000 THEN to ELSE from
    <3>1. CASE time >= 15000
      BY <2>2, <3>1, MergedClient
    <3>2. CASE ~(time >= 15000)
      <4>1. k - 1 \in 0..9 /\ k - 1 < 9 /\ time < 15000
        BY <3>2
      <4>2. ClientFork(rules, number, time) = IF k - 1 = 0 THEN "Paris" ELSE Timed[k - 1]
        BY <2>2, <4>1, MergedClient
      <4> QED
        BY <3>2, <4>2
    <3> QED
      BY <3>1, <3>2
  <2>4. f \notin ALL_FORKS /\ f \in ALL_TRANSITION_FORKS
    <3>1. f \in ToSet(TimedTransitions)
      BY <2>1 DEF ToSet, TimedTransitions
    <3> QED
      BY <3>1, NamesAssumption DEF Forks_
  <2>5. /\ Transitions[f].from = from /\ Transitions[f].at_block = 0
        /\ Transitions[f].to = to /\ Transitions[f].at_timestamp = 15000
    BY <2>1, <2>4, NamesAssumption DEF Goes
  <2> HIDE DEF from, to
  <2>6. /\ to \in ALL_FORKS /\ from \in Class[to].ancestors /\ to \in Class[to].ancestors
        /\ from \in ALL_FORKS /\ Class[to].name = to /\ Class[from].name = from
    BY <2>4, <2>5, LineageAssumption
  <2>7. fork_at(Fork(f), number, time) = IF time >= 15000 THEN Class[to] ELSE Class[from]
    BY <2>4, <2>5 DEF fork_at, Fork, Reached
  <2>8. rules.blobs = BlobEntries(Class[to])
    BY <2>2 DEF rules, environment, get_blob_schedule_entries
  <2>9. \A a \in {from, to} : "Cancun" \in Class[a].ancestors => HasEntry(Class[a], rules.blobs)
    BY <2>6, <2>8, EntryGiven
  <2> QED
    BY <2>3, <2>6, <2>7, <2>9 DEF Serves, rules
<1> QED
  BY <1>3, <1>4, <1>5, <1>6, <1>7, <1>8, TableIs

------------------------------------------------------------------------------
(* What is fixed before the first block.                                      *)

FixedInv ==
    stage = "fill" \/ header # Absent =>
        /\ fixed.pre = AskedOfNone(fork).pre_allocation_blockchain
        /\ fixed.schedule = blob_schedule(fork) /\ fixed.rules = environment(fork.name)

\* The fork of a block is one that the fork after the transition inherits from, for which
\* the chain is allocated.
LEMMA ForkBefore ==
  ASSUME NEW f \in Forks_, NEW n, NEW t
  PROVE  \E g \in ALL_FORKS : \E a \in Class[g].ancestors :
            /\ Fork(f).to = Class[g] /\ fork_at(Fork(f), n, t) = Class[a] /\ Fork(f).name = f
            /\ AskedOfNone(Fork(f)).pre_allocation_blockchain = Class[g].pre_allocation_blockchain
<1>1. CASE f \in ALL_FORKS
  <2>1. f \in Class[f].ancestors
    BY <1>1, LineageAssumption
  <2>2. /\ Fork(f).to = Class[f] /\ Fork(f).name = f /\ fork_at(Fork(f), n, t) = Class[f]
        /\ AskedOfNone(Fork(f)) = Class[f]
    BY <1>1 DEF Fork, fork_at, AskedOfNone, Asked
  <2> QED
    BY <1>1, <2>1, <2>2
<1>2. CASE f \notin ALL_FORKS
  <2> DEFINE from == Class[Transitions[f].from]
             g == Transitions[f].to
             to == Class[g]
  <2>1. f \in ALL_TRANSITION_FORKS
    BY <1>2 DEF Forks_
  <2>2. g \in ALL_FORKS /\ Transitions[f].from \in to.ancestors /\ g \in to.ancestors
    BY <2>1, LineageAssumption
  <2>3. /\ Fork(f).before = Transitioned(from, to, from) /\ Fork(f).after = Transitioned(from, to, to)
        /\ Fork(f).from = from /\ Fork(f).to = to /\ Fork(f).name = f
    BY <1>2 DEF Fork
  <2> HIDE DEF from
  <2>4. \A now : Transitioned(from, to, now).pre_allocation_blockchain = to.pre_allocation_blockchain
    BY DEF Transitioned, PreferredMethods
  <2>5. AskedOfNone(Fork(f)).pre_allocation_blockchain = to.pre_allocation_blockchain
    <3>1. AskedOfNone(Fork(f)) \in {Fork(f).before, Fork(f).after}
      BY DEF AskedOfNone, Asked
    <3> HIDE DEF to
    <3> QED
      BY <2>3, <2>4, <3>1
  <2>6. fork_at(Fork(f), n, t) \in {from, to}
    BY <2>3 DEF fork_at
  <2> QED
    BY <2>2, <2>3, <2>5, <2>6 DEF from
<1> QED
  BY <1>1, <1>2

LEMMA FixedServes ==
  ASSUME ForkInv, FixedInv
  PROVE  ServesEveryBlock
<1> SUFFICES ASSUME header # Absent PROVE ServesEveryBlock
  BY DEF ServesEveryBlock
<1> DEFINE c == ForkOf(header)
<1>1. IsHeader(header)
  BY DEF ForkInv, HeadersInv
<1>2. PICK f \in Forks_ : fork = Fork(f)
  BY DEF ForkInv, StageInv, Idle, Started
<1>3. PICK g \in ALL_FORKS : \E a \in Class[g].ancestors :
        /\ fork.to = Class[g] /\ c = Class[a] /\ fork.name = f
        /\ AskedOfNone(fork).pre_allocation_blockchain = Class[g].pre_allocation_blockchain
  BY <1>2, ForkBefore DEF ForkOf
<1>4. PICK a \in Class[g].ancestors :
        /\ fork.to = Class[g] /\ c = Class[a] /\ fork.name = f
        /\ AskedOfNone(fork).pre_allocation_blockchain = Class[g].pre_allocation_blockchain
  BY <1>3
<1>5. /\ fixed.pre = Class[g].pre_allocation_blockchain /\ fixed.schedule = BlobEntries(Class[g])
      /\ fixed.rules = environment(f)
  BY <1>4 DEF FixedInv, blob_schedule
<1>6. c.system_contracts \union c.pre_allocation_blockchain \subseteq fixed.pre
  BY <1>5, <1>4, AllocationAssumption
<1>7. "Cancun" \in c.ancestors => HasEntry(c, fixed.schedule)
  BY <1>5, <1>4, EntryGiven
<1>8. ASSUME fixed.rules # NoClient, header.number < NotYet
      PROVE  /\ ClientFork(fixed.rules, header.number, header.timestamp) = c.name
             /\ "Cancun" \in c.ancestors => HasEntry(c, fixed.rules.blobs)
  <2>1. f \in DOMAIN ruleset
    BY <1>5, <1>8 DEF environment
  <2>2. Serves(f, header.number, header.timestamp)
    BY <1>1, <1>8, <2>1, ClientServes DEF IsHeader
  <2> QED
    BY <1>2, <1>5, <2>2 DEF Serves, ForkOf
<1> QED
  BY <1>6, <1>7, <1>8 DEF ServesEveryBlock, HasEntry, Since

\* The pre-allocation, the blob schedule and the client of a fixture, which are made for its
\* fork before any block, are right for the fork of every block: those of a transition fork
\* too, whatever its entry in the ruleset says of it.
THEOREM ServesThroughout == ForkSpec => []ServesEveryBlock
<1>1. ForkInit => FixedInv
  BY DEF ForkInit, FixedInv
<1>2. ASSUME FixedInv, ForkInv, [ForkNext]_forkVars PROVE FixedInv'
  <2>1. ASSUME UNCHANGED <<fork, fixed>>, stage = "fill" \/ (stage' # "fill" /\ header' = header)
        PROVE  FixedInv'
    BY <1>2, <2>1 DEF FixedInv
  <2>2. stage \in {"configure", "collect", "start", "genesis"} => header = Absent
    BY <1>2 DEF ForkInv, StageInv, Idle
  <2>3. CASE Configure \/ Collect
    BY <2>1, <2>3 DEF Configure, Collect, chain
  <2>4. CASE Start
    BY <2>2, <2>4 DEF Start, chain, FixedInv
  <2>5. CASE BlockchainTest \/ StateTest
    <3>1. PICK g, state : MakeGenesis(g, state)
      BY <2>5 DEF BlockchainTest, StateTest
    <3>2. /\ fork' = fork /\ fixed'.pre = AskedOfNone(fork).pre_allocation_blockchain
          /\ fixed'.schedule = blob_schedule(fork) /\ fixed'.rules = environment(fork.name)
      BY <3>1 DEF MakeGenesis
    <3> QED
      BY <3>2 DEF FixedInv
  <2>6. CASE FillStateTest \/ FillBlock
    <3>1. PICK b : Fill(b)
      BY <2>6 DEF FillStateTest, FillBlock
    <3> QED
      BY <2>1, <3>1 DEF Fill, GenerateBlockData, Join
  <2>7. CASE UNCHANGED forkVars
    BY <1>2, <2>7 DEF forkVars, chain, FixedInv
  <2> QED
    BY <1>2, <2>3, <2>4, <2>5, <2>6, <2>7 DEF ForkNext
<1>3. FixedInv /\ ForkInv => ServesEveryBlock
  BY FixedServes
<1> QED
  BY <1>1, <1>2, <1>3, ForkInvariance, PTL DEF ForkSpec

==============================================================================
