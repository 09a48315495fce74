--------------------------- MODULE FixtureCollector --------------------------
(* From the fixtures of the tests to the JSON files and their index: the      *)
(* collector of a module's tests (src/ethereum_test_fixtures/collector.py),   *)
(* the merge into a file that other workers write as well (file.py), and the  *)
(* end of the session (src/pytest_plugins/filler/filler.py).                  *)
(*                                                                            *)
(* A fixture is the test it comes from.  A file is the set of its tests; the  *)
(* paths in torn were truncated, and hold no JSON.                            *)
EXTENDS Integers, FiniteSets

CONSTANTS Workers,          \* the processes of pytest-xdist
          Nobody,           \* holds a free lock
          Tests,            \* the tests selected, each with its fixture format
          FunctionOf,       \* of a test: its function and the folder of its format
          ModuleOf,         \* of a test
          FlushInterval,    \* flush_interval: 1000 in fill, 0 to never flush
          MaxFaults         \* bound: writes that fail and workers that are killed

ASSUME CollectorAssumption ==
  /\ Nobody \notin Workers /\ IsFiniteSet(Tests)
  /\ FlushInterval \in Nat /\ MaxFaults \in Nat

VARIABLES single,           \* --single-fixture-per-file
          todo,             \* tests that no worker has taken
          phase,            \* "filling", "indexed" or "broken"
          pc,               \* of each worker: where it is
          scope,            \* the scope of its collector, NoScope without one
          mem,              \* its all_fixtures: the tests of each path
          left,             \* the paths that its dump has still to write
          flushing,         \* the dump was started by add_fixture
          read,             \* what it has read from the file it holds
          file, torn, lock, \* of each path
          verified,         \* paths given to the fixture consumer
          index,            \* the tests in the index
          faults,
          errors,           \* pytest has reported an error
          lost              \* auxiliary: tests in a collector that came to its end unsaved

input == <<single>>
worker == <<pc, scope, mem, left, flushing, read>>
disk == <<file, torn, lock>>
session == <<phase, verified, index, faults, errors, lost>>
vars == <<input, todo, worker, disk, session>>

NoScope == <<>>

\* get_fixture_basename: a file for each function of a module, or for each test.
Path(t) == IF single THEN <<FunctionOf[t], t>> ELSE <<FunctionOf[t]>>
Paths == {<<FunctionOf[t], t>> : t \in Tests} \union {<<FunctionOf[t]>> : t \in Tests}

\* get_fixture_collection_scope: a collector for each module, or for each test.
ScopeOf(t) == IF single THEN <<ModuleOf[t], t>> ELSE <<ModuleOf[t]>>

Empty == [p \in Paths |-> {}]
Keys(fixtures) == {p \in Paths : fixtures[p] # {}}

Init == /\ single \in BOOLEAN
        /\ todo = Tests
        /\ phase = "filling"
        /\ pc = [w \in Workers |-> "tests"]
        /\ scope = [w \in Workers |-> NoScope]
        /\ mem = [w \in Workers |-> Empty]
        /\ left = [w \in Workers |-> {}]
        /\ flushing = [w \in Workers |-> FALSE]
        /\ read = [w \in Workers |-> {}]
        /\ file = Empty /\ torn = {} /\ lock = [p \in Paths |-> Nobody]
        /\ verified = {} /\ index = {}
        /\ faults = 0
        /\ errors = FALSE
        /\ lost = {}

Dumping == {"dump", "locked", "writing"}

Goto(w, there) == pc' = [pc EXCEPT ![w] = there]

------------------------------------------------------------------------------
(* Tests.                                                                     *)

\* add_fixture: the collector is dumped in between when it holds too many files.
AddFixture(w, t) ==
  LET fixtures == [mem[w] EXCEPT ![Path(t)] = @ \union {t}] IN
  /\ mem' = [mem EXCEPT ![w] = fixtures]
  /\ IF FlushInterval > 0 /\ Cardinality(Keys(fixtures)) >= FlushInterval
     THEN /\ left' = [left EXCEPT ![w] = Keys(fixtures)]
          /\ flushing' = [flushing EXCEPT ![w] = TRUE]
          /\ Goto(w, "dump")
     ELSE UNCHANGED <<left, flushing, pc>>

\* A worker runs a test with the collector of its scope.
RunTest(w) ==
  /\ pc[w] = "tests"
  /\ \E t \in todo :
       /\ scope[w] \in {NoScope, ScopeOf(t)}
       /\ todo' = todo \ {t}
       /\ scope' = [scope EXCEPT ![w] = ScopeOf(t)]
       /\ AddFixture(w, t)
  /\ UNCHANGED <<input, read, disk, session>>

\* The next test of the worker is of another scope, or there is none: the fixture
\* fixture_collector is torn down.
Teardown(w) ==
  /\ pc[w] = "tests" /\ scope[w] # NoScope
  /\ todo = {} \/ \E t \in todo : ScopeOf(t) # scope[w]
  /\ left' = [left EXCEPT ![w] = Keys(mem[w])]
  /\ Goto(w, "dump")
  /\ UNCHANGED <<input, todo, scope, mem, flushing, read, disk, session>>

\* The collector is gone, and what it has not saved is not saved any more.
Discard(w) ==
  /\ lost' = lost \union UNION {mem[w][p] : p \in IF pc[w] \in Dumping THEN left[w] ELSE Paths}
  /\ mem' = [mem EXCEPT ![w] = Empty]
  /\ left' = [left EXCEPT ![w] = {}]
  /\ flushing' = [flushing EXCEPT ![w] = FALSE]
  /\ scope' = [scope EXCEPT ![w] = NoScope]

------------------------------------------------------------------------------
(* dump_fixtures.                                                             *)

\* Mutant: the exception is swallowed.
RaiseSilent(w) == /\ Goto(w, "tests")
                  /\ Discard(w)
                  /\ UNCHANGED errors

\* An exception in a dump.  The test that flushed fails, and its collector goes on with all
\* it holds; the teardown fails, and the collector is gone.
Raise(w) ==
  /\ errors' = TRUE
  /\ Goto(w, "tests")
  /\ IF flushing[w]
     THEN /\ left' = [left EXCEPT ![w] = {}]
          /\ flushing' = [flushing EXCEPT ![w] = FALSE]
          /\ UNCHANGED <<mem, scope, lost>>
     ELSE Discard(w)

\* collect_into_file: the lock, and the tests that are in the file.
Open(w) ==
  /\ pc[w] = "dump"
  /\ \E p \in left[w] :
       /\ lock[p] = Nobody /\ p \notin torn
       /\ lock' = [lock EXCEPT ![p] = w]
       /\ read' = [read EXCEPT ![w] = file[p]]
  /\ Goto(w, "locked")
  /\ UNCHANGED <<input, todo, scope, mem, left, flushing, file, torn, session>>

\* The file is no JSON: the lock is freed and the exception is raised.
OpenTorn(w) ==
  /\ pc[w] = "dump"
  /\ \E p \in left[w] : lock[p] = Nobody /\ p \in torn
  /\ Raise(w)
  /\ UNCHANGED <<input, todo, read, disk, phase, verified, index, faults>>

\* open(file_path, "w")
Truncate(w) ==
  /\ pc[w] = "locked"
  /\ \E p \in Paths : /\ lock[p] = w
                      /\ file' = [file EXCEPT ![p] = {}]
                      /\ torn' = torn \union {p}
  /\ Goto(w, "writing")
  /\ UNCHANGED <<input, todo, scope, mem, left, flushing, read, lock, session>>

\* Mutant: what was read from the file is not written back.
WriteOwn(w) ==
  /\ pc[w] = "writing"
  /\ \E p \in Paths : /\ lock[p] = w
                      /\ file' = [file EXCEPT ![p] = mem[w][p]]
                      /\ torn' = torn \ {p}
                      /\ lock' = [lock EXCEPT ![p] = Nobody]
                      /\ left' = [left EXCEPT ![w] = @ \ {p}]
  /\ Goto(w, "dump")
  /\ UNCHANGED <<input, todo, scope, mem, flushing, read, session>>

\* json.dump of both, and the lock is freed.
Write(w) ==
  /\ pc[w] = "writing"
  /\ \E p \in Paths : /\ lock[p] = w
                      /\ file' = [file EXCEPT ![p] = read[w] \union mem[w][p]]
                      /\ torn' = torn \ {p}
                      /\ lock' = [lock EXCEPT ![p] = Nobody]
                      /\ left' = [left EXCEPT ![w] = @ \ {p}]
  /\ Goto(w, "dump")
  /\ UNCHANGED <<input, todo, scope, mem, flushing, read, session>>

\* The read or the write fails: the file stays as it is, or torn.
WriteError(w) ==
  /\ pc[w] \in {"locked", "writing"} /\ faults < MaxFaults
  /\ faults' = faults + 1
  /\ lock' = [p \in Paths |-> IF lock[p] = w THEN Nobody ELSE lock[p]]
  /\ Raise(w)
  /\ UNCHANGED <<input, todo, read, file, torn, phase, verified, index>>

\* all_fixtures.clear(): on with the test that flushed, or with the teardown.
Dumped(w) ==
  /\ pc[w] = "dump" /\ left[w] = {}
  /\ mem' = [mem EXCEPT ![w] = Empty]
  /\ flushing' = [flushing EXCEPT ![w] = FALSE]
  /\ Goto(w, IF flushing[w] THEN "tests" ELSE "verify")
  /\ UNCHANGED <<input, todo, scope, left, read, disk, session>>

\* verify_fixture_files, with --verify-fixtures: what all_fixtures holds.
Verify(w) ==
  /\ pc[w] = "verify"
  /\ verified' = verified \union Keys(mem[w])
  /\ scope' = [scope EXCEPT ![w] = NoScope]
  /\ Goto(w, "tests")
  /\ UNCHANGED <<input, todo, mem, left, flushing, read, disk, phase, index, faults, errors, lost>>

------------------------------------------------------------------------------
(* The end.                                                                   *)

Finish(w) ==
  /\ pc[w] = "tests" /\ scope[w] = NoScope /\ todo = {}
  /\ Goto(w, "done")
  /\ UNCHANGED <<input, todo, scope, mem, left, flushing, read, disk, session>>

\* A worker is killed: its locks are freed, its test is reported as failed.
Crash(w) ==
  /\ pc[w] \notin {"done", "killed"} /\ faults < MaxFaults
  /\ faults' = faults + 1
  /\ errors' = TRUE
  /\ Discard(w)
  /\ lock' = [p \in Paths |-> IF lock[p] = w THEN Nobody ELSE lock[p]]
  /\ Goto(w, "killed")
  /\ UNCHANGED <<input, todo, read, file, torn, phase, verified, index>>

\* pytest_sessionfinish of the controller: the index of all files, if they can be parsed.
EndSession ==
  /\ phase = "filling" /\ \A w \in Workers : pc[w] \in {"done", "killed"}
  /\ IF torn = {}
     THEN phase' = "indexed" /\ index' = UNION {file[p] : p \in Paths}
     ELSE phase' = "broken" /\ UNCHANGED index
  /\ UNCHANGED <<input, todo, worker, disk, verified, faults, errors, lost>>

Step(w) == \/ RunTest(w) \/ Teardown(w) \/ Finish(w)
           \/ Open(w) \/ OpenTorn(w) \/ Truncate(w) \/ Write(w) \/ Dumped(w) \/ Verify(w)
           \/ WriteError(w) \/ Crash(w)

Next == EndSession \/ \E w \in Workers : Step(w)

Spec == Init /\ [][Next]_vars

------------------------------------------------------------------------------
(* Properties.                                                                *)

TypeOK ==
  /\ single \in BOOLEAN
  /\ todo \subseteq Tests
  /\ phase \in {"filling", "indexed", "broken"}
  /\ pc \in [Workers -> {"tests", "dump", "locked", "writing", "verify", "done", "killed"}]
  /\ DOMAIN scope = Workers
  /\ mem \in [Workers -> [Paths -> SUBSET Tests]]
  /\ left \in [Workers -> SUBSET Paths]
  /\ flushing \in [Workers -> BOOLEAN]
  /\ read \in [Workers -> SUBSET Tests]
  /\ file \in [Paths -> SUBSET Tests]
  /\ torn \subseteq Paths
  /\ lock \in [Paths -> Workers \union {Nobody}]
  /\ verified \subseteq Paths
  /\ index \subseteq Tests
  /\ faults \in 0..MaxFaults
  /\ errors \in BOOLEAN
  /\ lost \subseteq Tests

\* Whoever fails, and wherever in a rewrite, costs only the tests it had not saved and the
\* file it tore: every other test that ran is in its file when the session ends, whatever
\* the other workers merged into it.
OthersSurvive ==
  phase # "filling" =>
    \A t \in Tests \ (todo \union lost) : t \in file[Path(t)] \/ Path(t) \in torn

\* A session that reports no error has the fixture of every test, under its own path, and
\* in the index.
Complete ==
  phase # "filling" /\ ~errors /\ todo = {} =>
    /\ \A t \in Tests : t \in file[Path(t)]
    /\ phase = "indexed" /\ index = Tests

\* A flush leaves nothing behind: a collector that goes on with its tests holds fewer files
\* than the interval, unless an error was reported.
FlushedInTime ==
  \A w \in Workers :
    pc[w] = "tests" /\ ~errors /\ FlushInterval > 0
      => Cardinality(Keys(mem[w])) < FlushInterval

\* "will additionally run the `evm blocktest` command on every JSON fixture file"
EveryFileVerified ==
  phase = "indexed" /\ ~errors => Keys(file) \subseteq verified
==============================================================================
