----------------------------- MODULE FillPhases ------------------------------
(* One output folder and the fill commands run on it, one after the other: a  *)
(* command becomes one or two pytest sessions                                 *)
(* (src/cli/pytest_commands/fill.py), each of which chooses its phase and its *)
(* fixture formats (src/pytest_plugins/filler/filler.py) and decides whether  *)
(* the folder may be used (fixture_output.py).                                *)
(*                                                                            *)
(* Formats are of two kinds: "plain" ones, filled in a single phase, and      *)
(* "grouped" ones, whose format_phases include PRE_ALLOC_GENERATION.  A test  *)
(* is a function in some version of its source, and <<t, v>> stands for the   *)
(* hash of its group.  How groups are merged is PreAllocGroups, and how       *)
(* fixtures get into their files is FixtureCollector.                         *)
EXTENDS Integers, FiniteSets, Sequences

CONSTANTS Tests,            \* the tests of the repository
          Grouped,          \* those that a grouped format supports
          MaxCommands,      \* bound: commands
          MaxFaults         \* bound: edits, tests that fail, processes killed

ASSUME FillAssumption ==
  /\ IsFiniteSet(Tests) /\ Grouped \subseteq Tests /\ MaxCommands \in Nat /\ MaxFaults \in Nat

VARIABLES src,              \* the version of each test
          dir,              \* the output folder
          tarball,          \* what the .tar.gz next to it holds
          cmd,              \* the last command
          todo,             \* its sessions that have not ended
          pc,               \* "idle", "configure", "collect" or "run"
          exit,             \* the exit code of the last command
          seen,             \* the versions the session has imported
          known,            \* pre_alloc_groups: the hashes of the folder
          items,            \* tests collected and not run, with a format
          found,            \* phase 1: the hashes collected
          made,             \* the fixtures in the collector
          failed,           \* a test of the session failed
          wrecked,          \* a process was killed while it removed the folder
          commands, faults,
          sound             \* auxiliary: nothing has gone wrong since the command began

session == <<seen, known, items, found, made, failed>>
bounds == <<commands, faults>>
vars == <<src, dir, wrecked, tarball, cmd, todo, pc, exit, session, bounds, sound>>

Formats == {"plain", "grouped"}
\* --generate-pre-alloc-groups, --use-pre-alloc-groups, --generate-all-formats, --clean,
\* and an --output that ends in .tar.gz.
Flags == {"generate", "use", "all", "clean", "tarball"}
Versions == Nat
Hashes == Tests \X Versions
Fixture(t, f, v) == [test |-> t, format |-> f, version |-> v]
Fixtures == [test : Tests, format : Formats, version : Versions]

\* supports_fork and the marks decide which formats a test has.
FormatsOf(t) == IF t \in Grouped THEN Formats ELSE {"plain"}

NoFolder == [exists |-> FALSE, other |-> FALSE, preAlloc |-> FALSE, groups |-> {}, fixtures |-> {}]
Folder == [exists : BOOLEAN, other : BOOLEAN, preAlloc : BOOLEAN,
           groups : SUBSET Hashes, fixtures : SUBSET Fixtures]

Init == /\ src = [t \in Tests |-> 0]
        \* no folder, an empty one, or one with files of the user's
        /\ \E e, o \in BOOLEAN : (o => e) /\ dir = [NoFolder EXCEPT !.exists = e, !.other = o]
        /\ tarball = {}
        /\ cmd = [phil |-> FALSE, args |-> {}, tests |-> {}]
        /\ todo = <<>>
        /\ pc = "idle"
        /\ exit = "none"
        /\ seen = src
        /\ known = {} /\ items = {} /\ found = {} /\ made = {}
        /\ failed = FALSE
        /\ wrecked = FALSE
        /\ commands = 0 /\ faults = 0
        /\ sound = FALSE

------------------------------------------------------------------------------
(* The command line.                                                          *)

\* _should_use_two_phase_execution
TwoPhase(args) == args \intersect {"generate", "all", "tarball"} # {}

\* _create_phase1_args
Phase1Args(args) == (args \ {"use", "all"}) \union {"generate"}

\* Mutant: phase 2 goes without the formats of one phase.
Phase2ArgsBare(args) == (args \ {"generate", "clean", "all"}) \union {"use"}
\* Mutant: phase 2 cleans what phase 1 has generated.
Phase2ArgsClean(args) == (args \ {"generate"}) \union {"use"}
\* _create_phase2_args
Phase2Args(args) == (args \ {"generate", "clean"}) \union {"use"}

\* create_executions, of FillCommand and of PhilCommand.
Executions(phil, args) ==
  IF phil \/ ~TwoPhase(args) THEN <<args>>
  ELSE LET a == IF "tarball" \in args THEN args \union {"all"} ELSE args
       IN  <<Phase1Args(a), Phase2Args(a)>>

Empty(d) == ~d.other /\ ~d.preAlloc /\ d.groups = {} /\ d.fixtures = {}

\* What has to be the case for a command to succeed.
Ready(phil, args, tests) ==
  LET grouped == tests \intersect Grouped
      fresh == "clean" \in args \/ Empty(dir)
  IN  /\ ~phil
      /\ IF TwoPhase(args) THEN fresh /\ grouped # {}
         ELSE IF "use" \in args
         THEN /\ "clean" \notin args /\ dir.preAlloc /\ grouped # {}
              /\ \A t \in grouped : <<t, src[t]>> \in dir.groups
         ELSE fresh

\* A user runs fill or phil.
Issue(phil, args, tests) ==
  /\ pc = "idle" /\ commands < MaxCommands
  /\ cmd' = [phil |-> phil, args |-> args, tests |-> tests]
  /\ todo' = Executions(phil, args)
  /\ pc' = "configure"
  /\ exit' = "none"
  /\ commands' = commands + 1
  /\ sound' = Ready(phil, args, tests)
  /\ UNCHANGED <<src, dir, wrecked, tarball, session, faults>>

\* run_multiple: the first session that fails ends the command.
End(code) ==
  IF code = "ok" /\ Len(todo) > 1
  THEN todo' = Tail(todo) /\ pc' = "configure" /\ exit' = exit
  ELSE todo' = <<>> /\ pc' = "idle" /\ exit' = code

------------------------------------------------------------------------------
(* A session: its phase, its folder, its tests.                               *)

flags == Head(todo)

\* PhaseManager.from_config
Generating == "use" \notin flags /\ flags \intersect {"generate", "all"} # {}
AfterGenerating == "use" \in flags

\* FormatSelector.should_generate
ShouldGenerate(f) ==
  \/ f = "grouped" /\ (Generating \/ AfterGenerating)
  \/ f = "plain" /\ ~Generating /\ (AfterGenerating => "all" \in flags)

Cleaned == IF "clean" \in flags THEN NoFolder ELSE dir

\* is_directory_usable_for_phase as create_directories obeys it: a folder with groups and
\* other files is found unusable in phase 2, and no error is raised.
Usable(d) == ~d.exists \/ (IF "generate" \notin flags /\ "use" \in flags THEN d.preAlloc ELSE Empty(d))

\* pytest_configure: the names of the groups are loaded, then the folder is made ready.
Configure ==
  /\ pc = "configure"
  /\ AfterGenerating => dir.preAlloc
  /\ Usable(Cleaned)
  /\ known' = (IF AfterGenerating THEN dir.groups ELSE {})
  /\ dir' = [Cleaned EXCEPT !.exists = TRUE, !.other = TRUE]
  /\ wrecked' = (wrecked /\ "clean" \notin flags)
  /\ pc' = "collect"
  /\ items' = {} /\ found' = {} /\ made' = {} /\ failed' = FALSE
  /\ UNCHANGED <<src, tarball, cmd, todo, exit, seen, bounds, sound>>

\* There are no groups to load: FileNotFoundError.
NoGroups ==
  /\ pc = "configure" /\ AfterGenerating /\ ~dir.preAlloc
  /\ End("error")
  /\ UNCHANGED <<src, dir, wrecked, tarball, cmd, session, bounds, sound>>

\* create_directories raises: the folder was cleaned all the same.
Refuse ==
  /\ pc = "configure"
  /\ AfterGenerating => dir.preAlloc
  /\ ~Usable(Cleaned)
  /\ dir' = Cleaned
  /\ wrecked' = (wrecked /\ "clean" \notin flags)
  /\ End("usage")
  /\ UNCHANGED <<src, tarball, cmd, session, bounds, sound>>

\* pytest_generate_tests and pytest_collection_modifyitems.  The second session of a command
\* is of the same process: without workers it keeps the modules imported by the first.
Collect ==
  /\ pc = "collect"
  /\ seen' \in (IF ~cmd.phil /\ TwoPhase(cmd.args) /\ AfterGenerating THEN {src, seen} ELSE {src})
  /\ items' = {i \in cmd.tests \X Formats : i[2] \in FormatsOf(i[1]) /\ ShouldGenerate(i[2])}
  /\ pc' = "run"
  /\ UNCHANGED <<src, dir, wrecked, tarball, cmd, todo, exit, known, found, made, failed, bounds, sound>>

HashOf(t) == <<t, seen[t]>>

\* Phase 1 of BaseTestWrapper.__init__.
AddToGroup(i) ==
  /\ pc = "run" /\ i \in items /\ Generating
  /\ found' = found \union {HashOf(i[1])}
  /\ items' = items \ {i}
  /\ UNCHANGED <<src, dir, wrecked, tarball, cmd, todo, pc, exit, seen, known, made, failed, bounds, sound>>

\* Mutant: the group was loaded when the session began.
FillLoaded(i) ==
  /\ pc = "run" /\ i \in items /\ ~Generating
  /\ i[2] = "grouped" => HashOf(i[1]) \in known
  /\ made' = made \union {Fixture(i[1], i[2], seen[i[1]])}
  /\ items' = items \ {i}
  /\ UNCHANGED <<src, dir, wrecked, tarball, cmd, todo, pc, exit, seen, known, found, failed, bounds, sound>>

\* The rest of it: get_pre_alloc_group reads the file of the group when it is first asked.
Fill(i) ==
  /\ pc = "run" /\ i \in items /\ ~Generating
  /\ i[2] = "grouped" => HashOf(i[1]) \in known \intersect dir.groups
  /\ made' = made \union {Fixture(i[1], i[2], seen[i[1]])}
  /\ items' = items \ {i}
  /\ UNCHANGED <<src, dir, wrecked, tarball, cmd, todo, pc, exit, seen, known, found, failed, bounds, sound>>

\* get_pre_alloc_group raises.
GroupMissing(i) ==
  /\ pc = "run" /\ i \in items /\ ~Generating
  /\ i[2] = "grouped" /\ HashOf(i[1]) \notin known \intersect dir.groups
  /\ items' = items \ {i}
  /\ failed' = TRUE
  /\ UNCHANGED <<src, dir, wrecked, tarball, cmd, todo, pc, exit, seen, known, found, made, bounds, sound>>

\* A test fails for a reason of its own.
TestFails(i) ==
  /\ pc = "run" /\ i \in items /\ faults < MaxFaults
  /\ items' = items \ {i}
  /\ failed' = TRUE
  /\ faults' = faults + 1
  /\ sound' = FALSE
  /\ UNCHANGED <<src, dir, wrecked, tarball, cmd, todo, pc, exit, seen, known, found, made, commands>>

Put(fixtures, new) ==
  {x \in fixtures : \A m \in new : <<m.test, m.format>> # <<x.test, x.format>>} \union new

\* pytest_sessionfinish, after the collector was dumped: the groups are saved in phase 1, the
\* tarball is made in the others.  pytest has an exit code of its own for no tests at all.
Finish ==
  /\ pc = "run" /\ items = {}
  /\ dir' = [dir EXCEPT !.preAlloc = @ \/ Generating, !.groups = @ \union found,
                        !.fixtures = Put(@, made)]
  /\ tarball' = (IF "tarball" \in flags /\ ~Generating THEN dir'.fixtures ELSE tarball)
  /\ End(IF failed THEN "failed" ELSE IF found = {} /\ made = {} THEN "no tests" ELSE "ok")
  /\ UNCHANGED <<src, wrecked, cmd, session, bounds, sound>>

------------------------------------------------------------------------------
(* Faults, each of which costs one of MaxFaults.                              *)

Killed ==
  /\ pc # "idle" /\ faults < MaxFaults
  /\ todo' = <<>> /\ pc' = "idle" /\ exit' = "killed"
  /\ faults' = faults + 1
  /\ sound' = FALSE
  /\ UNCHANGED <<src, tarball, cmd, session, commands>>

\* The process is killed while rmtree removes the folder.
KillCleaning ==
  /\ pc = "configure" /\ "clean" \in flags
  /\ AfterGenerating => dir.preAlloc
  /\ \E g \in SUBSET dir.groups, x \in SUBSET dir.fixtures, o \in {dir.other, FALSE} :
       dir' = [dir EXCEPT !.groups = g, !.fixtures = x, !.other = o]
  /\ wrecked' = TRUE
  /\ Killed

\* Or while it runs: some fixtures are in their files, and at the end some groups.
Kill ==
  /\ \E g \in SUBSET found, x \in SUBSET made :
       /\ pc # "run" => x = {}
       /\ pc # "run" \/ items # {} => g = {}
       /\ dir' = [dir EXCEPT !.preAlloc = @ \/ g # {}, !.groups = @ \union g, !.fixtures = Put(@, x)]
  /\ UNCHANGED wrecked
  /\ Killed

\* Somebody edits a test; its group has another hash then.
Edit(t) ==
  /\ faults < MaxFaults
  /\ src' = [src EXCEPT ![t] = @ + 1]
  /\ faults' = faults + 1
  /\ sound' = (sound /\ pc = "idle")
  /\ UNCHANGED <<dir, wrecked, tarball, cmd, todo, pc, exit, session, commands>>

Next ==
  \/ \E phil \in BOOLEAN, a \in SUBSET Flags, tests \in (SUBSET Tests) \ {{}} : Issue(phil, a, tests)
  \/ Configure \/ NoGroups \/ Refuse \/ Collect \/ Finish \/ Kill \/ KillCleaning
  \/ \E i \in Tests \X Formats : AddToGroup(i) \/ Fill(i) \/ GroupMissing(i) \/ TestFails(i)
  \/ \E t \in Tests : Edit(t)

Spec == Init /\ [][Next]_vars

------------------------------------------------------------------------------
(* Properties.                                                                *)

\* Every variable has its type.
TypeOK ==
  /\ src \in [Tests -> Versions] /\ seen \in [Tests -> Versions]
  /\ dir \in Folder /\ wrecked \in BOOLEAN /\ tarball \subseteq Fixtures
  /\ cmd \in [phil : BOOLEAN, args : SUBSET Flags, tests : SUBSET Tests]
  /\ todo \in Seq(SUBSET Flags) /\ (pc # "idle" => todo # <<>>)
  /\ pc \in {"idle", "configure", "collect", "run"}
  /\ exit \in {"none", "ok", "failed", "no tests", "usage", "error", "killed"}
  /\ known \subseteq Hashes /\ items \subseteq Tests \X Formats
  /\ found \subseteq Hashes /\ made \subseteq Fixtures
  /\ failed \in BOOLEAN /\ sound \in BOOLEAN
  /\ commands \in 0..MaxCommands /\ faults \in 0..MaxFaults

\* A grouped fixture names a group, and consume needs that group: whatever commands ran, with
\* whatever flags, and whoever was killed, its file is in the folder.  Only a process killed
\* while it removes the folder leaves fixtures without their groups.
GroupsResolve ==
  \/ wrecked
  \/ \A x \in dir.fixtures : x.format = "grouped" => <<x.test, x.version>> \in dir.groups

\* The fixtures a command is documented to make.
Wanted ==
  {i \in cmd.tests \X Formats :
     /\ i[2] \in FormatsOf(i[1])
     /\ IF cmd.args \intersect {"all", "tarball"} # {} THEN TRUE
        ELSE (i[2] = "grouped") = (cmd.args \intersect {"generate", "use"} # {})}

\* A fill that succeeds has made every fixture it was asked for from the tests it imported,
\* in its one session or in its two, and the folder holds no other fixture, except when it only
\* used groups that were there; the tarball holds what the folder does.
ExactlyWanted ==
  (pc = "idle" /\ exit = "ok" /\ ~cmd.phil) =>
     LET wanted == {Fixture(i[1], i[2], seen[i[1]]) : i \in Wanted}
     IN  /\ wanted \subseteq dir.fixtures
         /\ (TwoPhase(cmd.args) \/ "use" \notin cmd.args) => dir.fixtures = wanted
         /\ "tarball" \in cmd.args => tarball = dir.fixtures

\* A fill whose folder was fit for it, whose tests pass and are left alone, and that is not
\* killed succeeds: its second session finds what its first one left.
EndsWell == (pc = "idle" /\ sound) => exit = "ok"
==============================================================================
