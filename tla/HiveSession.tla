----------------------------- MODULE HiveSession -----------------------------
(* The three nested session fixtures of `execute hive`: the test suite, the   *)
(* base test in it and the client in that test (pytest_plugins/pytest_hive/   *)
(* pytest_hive.py, pytest_plugins/execute/rpc/hive.py).                       *)
(*                                                                            *)
(* Each fixture has the same shape.  Under the base lock a worker loads the   *)
(* object another one recorded, or starts it and records it; then, under the  *)
(* users lock, it counts itself in.  At teardown it counts itself out under   *)
(* the users lock, and the last one ends the object and removes both files.   *)
(* The client's fixture leaves a sentinel while a start is under way, so that *)
(* a start that failed is not tried again.                                    *)
(*                                                                            *)
(* The files of users are only touched under their lock and are written in    *)
(* one step here.  An object is the number of its start.                      *)
EXTENDS Integers, FiniteSets

CONSTANTS Workers,              \* the pytest-xdist workers
          Nobody,               \* holds a free lock
          Depth,                \* nested fixtures: 3 in execute hive
          Sentinel,             \* the levels whose start leaves a sentinel: {3}
          MaxErrors,            \* bound: starts that fail
          MaxCrashes            \* bound: workers that are killed

Levels == 1..Depth

ASSUME NobodyAssumption == Nobody \notin Workers
ASSUME WorkersAssumption == IsFiniteSet(Workers)
ASSUME DepthAssumption == Depth \in Nat \ {0} /\ Sentinel \subseteq Levels
ASSUME BoundsAssumption == MaxErrors \in Nat /\ MaxCrashes \in Nat

VARIABLES
  \* files and locks, by level
  base,                         \* the object recorded in the base file, 0 without file
  err,                          \* the sentinel exists
  users,                        \* the count in the users file, NoFile without file
  baseLock, usersLock,
  \* the hive server, by level
  started, alive,               \* objects started so far; those not ended
  together,                     \* all workers are set up before one tears down
  \* each worker
  pc, at, obj,                  \* where it is, at which level; its object of each level
  errors, crashes

files == <<base, err, users>>
locks == <<baseLock, usersLock>>
server == <<started, alive>>
bounds == <<errors, crashes>>
vars == <<files, locks, server, together, pc, at, obj, bounds>>

NoFile == -1

Init == /\ base = [k \in Levels |-> 0]
        /\ err = [k \in Levels |-> FALSE]
        /\ users = [k \in Levels |-> NoFile]
        /\ baseLock = [k \in Levels |-> Nobody]
        /\ usersLock = [k \in Levels |-> Nobody]
        /\ started = [k \in Levels |-> 0]
        /\ alive = [k \in Levels |-> {}]
        /\ pc = [w \in Workers |-> "lookup"]
        /\ at = [w \in Workers |-> 1]
        /\ obj = [w \in Workers |-> [k \in Levels |-> 0]]
        /\ together \in BOOLEAN
        /\ errors = 0 /\ crashes = 0

SettingUp == {"lookup", "load", "start", "record", "join"}

Goto(w, there) == pc' = [pc EXCEPT ![w] = there]
Release(locks_, k) == [locks_ EXCEPT ![k] = Nobody]

\* On to the teardown of the level below, or the end of the worker's session: pytest
\* tears down every fixture that was set up, whatever the one above it raised.
Down(w) == IF at[w] = 1
           THEN Goto(w, "done") /\ UNCHANGED at
           ELSE Goto(w, "leave") /\ at' = [at EXCEPT ![w] = @ - 1]

------------------------------------------------------------------------------
(* Setup.                                                                     *)

\* Mutant: the base files are looked up without the lock.
LookupUnlocked(w) ==
  LET k == at[w] IN
  /\ pc[w] = "lookup"
  /\ ~err[k]
  /\ baseLock' = [baseLock EXCEPT ![k] = w]
  /\ \/ base[k] # 0 /\ Goto(w, "load") /\ UNCHANGED err
     \/ base[k] = 0 /\ Goto(w, "start") /\ err' = [err EXCEPT ![k] = k \in Sentinel]
  /\ UNCHANGED <<together, base, users, usersLock, server, at, obj, bounds>>

\* base_file.exists(), under the base lock; the sentinel is tested before it and set
\* before a start.
Lookup(w) ==
  LET k == at[w] IN
  /\ pc[w] = "lookup"
  /\ baseLock[k] = Nobody
  /\ ~err[k]
  /\ baseLock' = [baseLock EXCEPT ![k] = w]
  /\ \/ base[k] # 0 /\ Goto(w, "load") /\ UNCHANGED err
     \/ base[k] = 0 /\ Goto(w, "start") /\ err' = [err EXCEPT ![k] = k \in Sentinel]
  /\ UNCHANGED <<together, base, users, usersLock, server, at, obj, bounds>>

\* The sentinel of a start that failed: the fixture fails at once.
Refused(w) ==
  /\ pc[w] = "lookup"
  /\ baseLock[at[w]] = Nobody
  /\ err[at[w]]
  /\ Down(w)
  /\ UNCHANGED <<together, files, locks, server, obj, bounds>>

\* open(base_file): the last user may have removed it since, under the other lock.
Load(w) ==
  LET k == at[w] IN
  /\ pc[w] = "load"
  /\ baseLock' = Release(baseLock, k)
  /\ \/ /\ base[k] # 0
        /\ obj' = [obj EXCEPT ![w][k] = base[k]]
        /\ Goto(w, "join")
        /\ UNCHANGED at
     \/ base[k] = 0 /\ Down(w) /\ UNCHANGED obj
  /\ UNCHANGED <<together, files, usersLock, server, bounds>>

ParentAlive(w) == IF at[w] = 1 THEN TRUE ELSE obj[w][at[w] - 1] \in alive[at[w] - 1]

\* start_suite, start_test or start_client; then the sentinel goes.
Start(w) ==
  LET k == at[w] IN
  /\ pc[w] = "start"
  /\ ParentAlive(w)
  /\ started' = [started EXCEPT ![k] = @ + 1]
  /\ alive' = [alive EXCEPT ![k] = @ \union {started[k] + 1}]
  /\ obj' = [obj EXCEPT ![w][k] = started[k] + 1]
  /\ err' = [err EXCEPT ![k] = FALSE]
  /\ Goto(w, "record")
  /\ UNCHANGED <<together, base, users, locks, at, bounds>>

\* Mutants: the fixture goes on without an object; the lock is not freed.
StartErrorIgnored(w) ==
  /\ pc[w] = "start"
  /\ errors < MaxErrors
  /\ errors' = errors + 1
  /\ baseLock' = Release(baseLock, at[w])
  /\ Goto(w, "join")
  /\ UNCHANGED <<together, files, usersLock, server, at, obj, crashes>>
StartErrorLocked(w) ==
  /\ pc[w] = "start"
  /\ errors < MaxErrors
  /\ errors' = errors + 1
  /\ Down(w)
  /\ UNCHANGED <<together, files, locks, server, obj, crashes>>

\* The start raises, or the client does not come up: hive refuses a start in what has
\* ended.  A sentinel stays.
StartError(w) ==
  /\ pc[w] = "start"
  /\ \/ ParentAlive(w) /\ errors < MaxErrors /\ errors' = errors + 1
     \/ ~ParentAlive(w) /\ UNCHANGED errors
  /\ baseLock' = Release(baseLock, at[w])
  /\ Down(w)
  /\ UNCHANGED <<together, files, usersLock, server, obj, crashes>>

Record(w) ==
  LET k == at[w] IN
  /\ pc[w] = "record"
  /\ base' = [base EXCEPT ![k] = obj[w][k]]
  /\ baseLock' = Release(baseLock, k)
  /\ Goto(w, "join")
  /\ UNCHANGED <<together, err, users, usersLock, server, at, obj, bounds>>

\* The worker counts itself in.
Join(w) ==
  LET k == at[w] IN
  /\ pc[w] = "join"
  /\ usersLock[k] = Nobody
  /\ users' = [users EXCEPT ![k] = IF @ = NoFile THEN 1 ELSE @ + 1]
  /\ IF k = Depth
     THEN Goto(w, "run") /\ UNCHANGED at
     ELSE Goto(w, "lookup") /\ at' = [at EXCEPT ![w] = @ + 1]
  /\ UNCHANGED <<together, base, err, locks, server, obj, bounds>>

------------------------------------------------------------------------------
(* Teardown.                                                                  *)

\* The worker has run its last test.
Finish(w) ==
  /\ pc[w] = "run"
  /\ Goto(w, "leave")
  /\ UNCHANGED <<together, files, locks, server, at, obj, bounds>>

MayLeave == together => \A v \in Workers : pc[v] \notin SettingUp

\* The count goes down; the last user keeps the lock and ends the object.
Leave(w) ==
  LET k == at[w] IN
  /\ pc[w] = "leave"
  /\ MayLeave
  /\ usersLock[k] = Nobody
  /\ users[k] # NoFile
  /\ users' = [users EXCEPT ![k] = @ - 1]
  /\ IF users[k] = 1
     THEN usersLock' = [usersLock EXCEPT ![k] = w] /\ Goto(w, "end") /\ UNCHANGED at
     ELSE Down(w) /\ UNCHANGED usersLock
  /\ UNCHANGED <<together, base, err, baseLock, server, obj, bounds>>

\* suite.end(), test.end() or client.stop().
End(w) ==
  LET k == at[w] IN
  /\ pc[w] = "end"
  /\ obj[w][k] \in alive[k]
  /\ alive' = [alive EXCEPT ![k] = @ \ {obj[w][k]}]
  /\ Goto(w, "unlink")
  /\ UNCHANGED <<together, files, locks, started, at, obj, bounds>>

\* It has ended already: the call raises, the files stay.
EndError(w) ==
  LET k == at[w] IN
  /\ pc[w] = "end"
  /\ obj[w][k] \notin alive[k]
  /\ usersLock' = Release(usersLock, k)
  /\ Down(w)
  /\ UNCHANGED <<together, files, baseLock, server, obj, bounds>>

\* Mutant: the users file stays, and with it the count.
UnlinkBase(w) ==
  LET k == at[w] IN
  /\ pc[w] = "unlink"
  /\ base' = [base EXCEPT ![k] = 0]
  /\ usersLock' = Release(usersLock, k)
  /\ Down(w)
  /\ UNCHANGED <<together, users, err, baseLock, server, obj, bounds>>

\* base_file.unlink() and users_file.unlink(), still under the users lock.
Unlink(w) ==
  LET k == at[w] IN
  /\ pc[w] = "unlink"
  /\ base' = [base EXCEPT ![k] = 0]
  /\ users' = [users EXCEPT ![k] = IF base[k] = 0 THEN @ ELSE NoFile]
  /\ usersLock' = Release(usersLock, k)
  /\ Down(w)
  /\ UNCHANGED <<together, err, baseLock, server, obj, bounds>>

------------------------------------------------------------------------------
\* A worker is killed: its locks are freed, its count and its sentinel stay.
Crash(w) ==
  /\ pc[w] \notin {"done", "killed"}
  /\ crashes < MaxCrashes
  /\ crashes' = crashes + 1
  /\ Goto(w, "killed")
  /\ baseLock' = [k \in Levels |-> IF baseLock[k] = w THEN Nobody ELSE baseLock[k]]
  /\ usersLock' = [k \in Levels |-> IF usersLock[k] = w THEN Nobody ELSE usersLock[k]]
  /\ UNCHANGED <<together, files, server, at, obj, errors>>

Setup(w) == Lookup(w) \/ Refused(w) \/ Load(w) \/ Start(w) \/ StartError(w) \/ Record(w)
            \/ Join(w)
Teardown(w) == Finish(w) \/ Leave(w) \/ End(w) \/ EndError(w) \/ Unlink(w)

Stopped(w) == pc[w] \in {"done", "killed"}

Next == \E w \in Workers : Setup(w) \/ Teardown(w) \/ Crash(w)

Spec == Init /\ [][Next]_vars

\* Every worker runs its tests to the end, and a free lock is taken by one who waits.
FairSpec == Spec /\ \A w \in Workers : WF_vars(Setup(w) \/ Teardown(w))

------------------------------------------------------------------------------
(* Properties.                                                                *)

TypeOK ==
  /\ base \in [Levels -> Nat] /\ err \in [Levels -> BOOLEAN]
  /\ users \in [Levels -> Nat \union {NoFile}]
  /\ baseLock \in [Levels -> Workers \union {Nobody}]
  /\ usersLock \in [Levels -> Workers \union {Nobody}]
  /\ started \in [Levels -> Nat] /\ alive \in [Levels -> SUBSET Nat]
  /\ pc \in [Workers -> SettingUp \union {"run", "leave", "end", "unlink", "done", "killed"}]
  /\ at \in [Workers -> Levels]
  /\ obj \in [Workers -> [Levels -> Nat]] /\ together \in BOOLEAN
  /\ errors \in 0..MaxErrors /\ crashes \in 0..MaxCrashes

\* Workers counted in at a level and not yet out.
Counted(w, k) == \/ pc[w] \in SettingUp /\ k < at[w]
                 \/ pc[w] \in {"run", "leave"} /\ k <= at[w]
                 \/ pc[w] \in {"end", "unlink"} /\ k < at[w]
Users(k) == {w \in Workers : Counted(w, k)}

\* The users file counts the workers that joined and did not leave, however joins, leaves
\* and failing fixtures mix.  A killed worker leaves the count too high, never too low.
CountRight ==
  \A k \in Levels :
    LET count == IF users[k] = NoFile THEN 0 ELSE users[k]
    IN  /\ Cardinality(Users(k)) <= count
        /\ crashes = 0 => Cardinality(Users(k)) = count

\* Hive never runs two of the same object, two suites, base tests or clients that would
\* each see a part of the session, unless a worker was killed before it recorded its start.
OneAlive == crashes = 0 => \A k \in Levels : Cardinality(alive[k]) <= 1

\* "Test (base) used to deploy the main client to be used throughout all tests": a worker
\* that runs its tests does so in a suite, a test and a client that have not ended.
UsedIsAlive == \A w \in Workers : pc[w] = "run" => \A k \in Levels : obj[w][k] \in alive[k]

\* As long as all workers are set up before one tears down (each gets tests enough), every
\* one that runs its tests does so in objects that have not ended, even when starts fail or
\* a worker is killed.
TogetherAlive == together => UsedIsAlive

\* When all workers have come to their end nothing runs on in hive and no file is left
\* over, whether or not some start failed, unless a worker was killed or one was late.
NothingLeft ==
  together /\ crashes = 0 /\ (\A w \in Workers : Stopped(w))
    => \A k \in Levels : alive[k] = {} /\ base[k] = 0 /\ users[k] = NoFile

\* Every worker comes to its end: no fixture waits for ever on a lock, or on the others.
AllStop == <>(\A w \in Workers : Stopped(w))
==============================================================================
