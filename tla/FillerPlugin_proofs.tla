------------------------- MODULE FillerPlugin_proofs --------------------------
(* Theorems about the pytest plugin that fills tests (pytest_plugins/filler): *)
(* its sessions, one after the other, for any tests, commands and faults      *)
(* (FillPhases), and the session that only writes checklists, for any tests,  *)
(* directories and files (ChecklistSession).  The two modules share nothing.  *)
EXTENDS FillPhases, ChecklistSession, FiniteSetTheorems, SequenceTheorems, TLAPS

(******************************** FillPhases **********************************)

------------------------------------------------------------------------------
(* The inductive invariant.                                                   *)

\* What a session has made is not in the folder yet, and its groups are.
MadeInv ==
  /\ pc = "collect" => made = {}
  /\ pc = "run" => \A m \in made : m.format = "grouped" => <<m.test, m.version>> \in dir.groups

IInv == TypeOK /\ GroupsResolve /\ MadeInv

------------------------------------------------------------------------------
(* Types.                                                                     *)

LEMMA Counted ==
  ASSUME NEW max \in Nat, NEW n \in 0..max, n < max PROVE n + 1 \in 0..max
  OBVIOUS

LEMMA NoSession == <<>> \in Seq(SUBSET Flags)
  BY EmptySeq

LEMMA ArgsType ==
  ASSUME NEW a \in SUBSET Flags
  PROVE  Phase1Args(a) \in SUBSET Flags /\ Phase2Args(a) \in SUBSET Flags
  BY DEF Phase1Args, Phase2Args, Flags

LEMMA ExecutionsType ==
  ASSUME NEW p \in BOOLEAN, NEW a \in SUBSET Flags
  PROVE  Executions(p, a) \in Seq(SUBSET Flags) /\ Executions(p, a) # <<>>
<1>1. a \union {"all"} \in SUBSET Flags
  BY DEF Flags
<1>2. CASE p \/ ~TwoPhase(a)
  <2>1. Executions(p, a) = <<a>>
    BY <1>2 DEF Executions
  <2> QED
    BY <2>1
<1>3. CASE ~(p \/ ~TwoPhase(a))
  <2> PICK b \in SUBSET Flags : Executions(p, a) = <<Phase1Args(b), Phase2Args(b)>>
    BY <1>1, <1>3 DEF Executions
  <2> Phase1Args(b) \in SUBSET Flags /\ Phase2Args(b) \in SUBSET Flags
    BY ArgsType
  <2> QED
    OBVIOUS
<1> QED
  BY <1>2, <1>3

LEMMA EndType ==
  ASSUME TypeOK, pc # "idle", NEW code \in {"ok", "failed", "no tests", "usage", "error"}, End(code)
  PROVE  /\ todo' \in Seq(SUBSET Flags) /\ (pc' # "idle" => todo' # <<>>)
         /\ pc' \in {"idle", "configure"}
         /\ exit' \in {"none", "ok", "failed", "no tests", "usage", "error", "killed"}
<1>1. todo \in Seq(SUBSET Flags) /\ todo # <<>>
  BY DEF TypeOK
<1>2. exit \in {"none", "ok", "failed", "no tests", "usage", "error", "killed"}
  BY DEF TypeOK
<1>3. CASE code = "ok" /\ Len(todo) > 1
  <2>1. todo' = Tail(todo) /\ pc' = "configure" /\ exit' = exit
    BY <1>3 DEF End
  <2>2. Tail(todo) \in Seq(SUBSET Flags) /\ Len(Tail(todo)) = Len(todo) - 1
    BY <1>1, HeadTailProperties
  <2>3. Tail(todo) # <<>>
    <3>1. Len(Tail(todo)) # 0
      BY <1>1, <1>3, <2>2, LenProperties
    <3>2. Len(<<>>) = 0
      BY EmptySeq
    <3> QED
      BY <3>1, <3>2
  <2> QED
    BY <1>2, <2>1, <2>2, <2>3
<1>4. CASE ~(code = "ok" /\ Len(todo) > 1)
  <2>1. todo' = <<>> /\ pc' = "idle" /\ exit' = code
    BY <1>4 DEF End
  <2> QED
    BY <2>1, NoSession
<1> QED
  BY <1>3, <1>4

LEMMA CleanedType == TypeOK => Cleaned \in Folder
  BY DEF TypeOK, Cleaned, NoFolder, Folder, Hashes, Fixtures

LEMMA PutType ==
  ASSUME NEW x \in SUBSET Fixtures, NEW m \in SUBSET Fixtures
  PROVE  Put(x, m) \in SUBSET Fixtures
  BY DEF Put

LEMMA MadeType ==
  ASSUME TypeOK, NEW i \in Tests \X Formats
  PROVE  HashOf(i[1]) \in Hashes /\ Fixture(i[1], i[2], seen[i[1]]) \in Fixtures
<1>1. i[1] \in Tests /\ i[2] \in Formats
  OBVIOUS
<1>2. seen[i[1]] \in Versions
  BY <1>1 DEF TypeOK
<1> QED
  BY <1>1, <1>2 DEF HashOf, Hashes, Fixture, Fixtures

LEMMA InitType == ASSUME Init PROVE TypeOK
<1>1. 0 \in Versions /\ 0 \in 0..MaxCommands /\ 0 \in 0..MaxFaults
  BY FillAssumption DEF Versions
<1>2. dir \in Folder
  BY DEF Init, NoFolder, Folder
<1> QED
  BY <1>1, <1>2, NoSession DEF Init, TypeOK

LEMMA TypeStep == ASSUME TypeOK, [Next]_vars PROVE TypeOK'
<1>1. ASSUME NEW phil \in BOOLEAN, NEW a \in SUBSET Flags, NEW tests \in (SUBSET Tests) \ {{}},
             Issue(phil, a, tests)
      PROVE  TypeOK'
  <2>1. todo' \in Seq(SUBSET Flags) /\ todo' # <<>>
    BY <1>1, ExecutionsType DEF Issue
  <2>2. commands' \in 0..MaxCommands
    <3>1. commands' = commands + 1 /\ commands < MaxCommands
      BY <1>1 DEF Issue
    <3>2. commands \in 0..MaxCommands
      BY DEF TypeOK
    <3> QED
      BY <3>1, <3>2, FillAssumption, Counted
  <2>3. sound' \in BOOLEAN
    BY <1>1 DEF Issue, Ready
  <2>4. cmd' \in [phil : BOOLEAN, args : SUBSET Flags, tests : SUBSET Tests]
    BY <1>1 DEF Issue
  <2> QED
    BY <1>1, <2>1, <2>2, <2>3, <2>4 DEF Issue, TypeOK, session
<1>2. CASE Configure
  <2>1. dir' \in Folder
    BY <1>2, CleanedType DEF Configure, Folder
  <2>2. known' \in SUBSET Hashes /\ wrecked' \in BOOLEAN
    BY <1>2 DEF Configure, TypeOK, Folder
  <2> QED
    BY <1>2, <2>1, <2>2 DEF Configure, TypeOK, bounds
<1>3. CASE NoGroups
  <2>1. pc # "idle" /\ End("error")
    BY <1>3 DEF NoGroups
  <2> QED
    BY <1>3, <2>1, EndType DEF NoGroups, TypeOK, session, bounds
<1>4. CASE Refuse
  <2>1. pc # "idle" /\ End("usage")
    BY <1>4 DEF Refuse
  <2>2. wrecked' \in BOOLEAN /\ dir' \in Folder
    BY <1>4, CleanedType DEF Refuse, TypeOK
  <2> QED
    BY <1>4, <2>1, <2>2, EndType DEF Refuse, TypeOK, session, bounds
<1>5. CASE Collect
  <2>1. seen' \in [Tests -> Versions]
    BY <1>5 DEF Collect, TypeOK
  <2>2. items' \in SUBSET (Tests \X Formats)
    BY <1>5 DEF Collect, TypeOK
  <2> QED
    BY <1>5, <2>1, <2>2 DEF Collect, TypeOK, bounds
<1>6. CASE Finish
  <2>1. pc # "idle" /\ End(IF failed THEN "failed" ELSE IF found = {} /\ made = {} THEN "no tests"
                           ELSE "ok")
    BY <1>6 DEF Finish
  <2>2. /\ todo' \in Seq(SUBSET Flags) /\ (pc' # "idle" => todo' # <<>>)
        /\ pc' \in {"idle", "configure"}
        /\ exit' \in {"none", "ok", "failed", "no tests", "usage", "error", "killed"}
    <3> DEFINE code == IF failed THEN "failed" ELSE IF found = {} /\ made = {} THEN "no tests"
                       ELSE "ok"
    <3>1. code \in {"ok", "failed", "no tests", "usage", "error"}
      OBVIOUS
    <3> HIDE DEF code
    <3> QED
      BY <2>1, <3>1, EndType DEF code
  <2>3. Put(dir.fixtures, made) \in SUBSET Fixtures
    BY PutType DEF TypeOK, Folder
  <2>4. dir' \in Folder
    BY <1>6, <2>3 DEF Finish, TypeOK, Folder, Generating
  <2>5. tarball' \in SUBSET Fixtures
    BY <1>6, <2>4 DEF Finish, TypeOK, Folder
  <2> QED
    BY <1>6, <2>2, <2>4, <2>5 DEF Finish, TypeOK, session, bounds
<1>7. CASE Kill
  <2>1. PICK g \in SUBSET found, x \in SUBSET made :
          dir' = [dir EXCEPT !.preAlloc = @ \/ g # {}, !.groups = @ \union g, !.fixtures = Put(@, x)]
    BY <1>7 DEF Kill
  <2>2. Put(dir.fixtures, x) \in SUBSET Fixtures
    BY PutType DEF TypeOK, Folder
  <2>3. dir' \in Folder
    BY <2>1, <2>2 DEF TypeOK, Folder
  <2>4. faults' \in 0..MaxFaults
    <3>1. faults' = faults + 1 /\ faults < MaxFaults
      BY <1>7 DEF Kill, Killed
    <3>2. faults \in 0..MaxFaults
      BY DEF TypeOK
    <3> QED
      BY <3>1, <3>2, FillAssumption, Counted
  <2> QED
    BY <1>7, <2>3, <2>4, NoSession DEF Kill, Killed, TypeOK, session
<1>8. CASE KillCleaning
  <2>1. dir' \in Folder
    BY <1>8 DEF KillCleaning, TypeOK, Folder
  <2>2. faults' \in 0..MaxFaults
    <3>1. faults' = faults + 1 /\ faults < MaxFaults
      BY <1>8 DEF KillCleaning, Killed
    <3>2. faults \in 0..MaxFaults
      BY DEF TypeOK
    <3> QED
      BY <3>1, <3>2, FillAssumption, Counted
  <2> QED
    BY <1>8, <2>1, <2>2, NoSession DEF KillCleaning, Killed, TypeOK, session
<1>9. ASSUME NEW i \in Tests \X Formats, AddToGroup(i) \/ Fill(i) \/ GroupMissing(i)
      PROVE  TypeOK'
  <2>1. HashOf(i[1]) \in Hashes /\ Fixture(i[1], i[2], seen[i[1]]) \in Fixtures
    BY MadeType
  <2>2. CASE AddToGroup(i)
    BY <2>1, <2>2 DEF AddToGroup, TypeOK, bounds
  <2>3. CASE Fill(i)
    BY <2>1, <2>3 DEF Fill, TypeOK, bounds
  <2>4. CASE GroupMissing(i)
    BY <2>4 DEF GroupMissing, TypeOK, bounds
  <2> QED
    BY <1>9, <2>2, <2>3, <2>4
<1>10. ASSUME NEW i \in Tests \X Formats, TestFails(i) PROVE TypeOK'
  <2>1. faults' \in 0..MaxFaults
    <3>1. faults' = faults + 1 /\ faults < MaxFaults
      BY <1>10 DEF TestFails
    <3>2. faults \in 0..MaxFaults
      BY DEF TypeOK
    <3> QED
      BY <3>1, <3>2, FillAssumption, Counted
  <2> QED
    BY <1>10, <2>1 DEF TestFails, TypeOK
<1>11. ASSUME NEW t \in Tests, Edit(t) PROVE TypeOK'
  <2>1. faults' \in 0..MaxFaults
    <3>1. faults' = faults + 1 /\ faults < MaxFaults
      BY <1>11 DEF Edit
    <3>2. faults \in 0..MaxFaults
      BY DEF TypeOK
    <3> QED
      BY <3>1, <3>2, FillAssumption, Counted
  <2>2. sound' \in BOOLEAN
    BY <1>11 DEF Edit, TypeOK
  <2>3. src' \in [Tests -> Versions]
    <3>1. src \in [Tests -> Nat] /\ src' = [src EXCEPT ![t] = src[t] + 1]
      BY <1>11 DEF Edit, TypeOK, Versions
    <3> QED
      BY <3>1 DEF Versions
  <2> QED
    BY <1>11, <2>1, <2>2, <2>3 DEF Edit, TypeOK, session
<1>12. CASE UNCHANGED vars
  BY <1>12 DEF TypeOK, vars, session, bounds
<1> QED
  BY <1>1, <1>2, <1>3, <1>4, <1>5, <1>6, <1>7, <1>8, <1>9, <1>10, <1>11, <1>12 DEF Next

------------------------------------------------------------------------------
(* Groups.                                                                    *)

\* Writing fixtures whose groups are there, and adding groups, keeps the groups of all.
LEMMA PutResolves ==
  ASSUME NEW x, NEW m, NEW g, NEW h \in SUBSET g,
         \A f \in x \union m : f.format = "grouped" => <<f.test, f.version>> \in h
  PROVE  \A f \in Put(x, m) : f.format = "grouped" => <<f.test, f.version>> \in g
  BY DEF Put

\* No step but the end of a session, its death and the cleaning touches the folder.
LEMMA GroupsStep == ASSUME IInv, [Next]_vars PROVE GroupsResolve' /\ MadeInv'
<1> USE DEF IInv
<1>1. CASE UNCHANGED <<dir, wrecked, made, pc>>
  BY <1>1 DEF GroupsResolve, MadeInv
<1>2. ASSUME NEW phil \in BOOLEAN, NEW a \in SUBSET Flags, NEW tests \in (SUBSET Tests) \ {{}},
             Issue(phil, a, tests)
      PROVE  GroupsResolve' /\ MadeInv'
  BY <1>2 DEF Issue, GroupsResolve, MadeInv, session
<1>3. CASE Configure
  <2>1. /\ dir'.groups = Cleaned.groups /\ dir'.fixtures = Cleaned.fixtures
        /\ wrecked' = (wrecked /\ "clean" \notin flags) /\ made' = {} /\ pc' = "collect"
    BY <1>3, CleanedType DEF Configure, Folder
  <2> QED
    BY <2>1 DEF GroupsResolve, MadeInv, Cleaned, NoFolder
<1>4. CASE NoGroups
  <2>1. dir' = dir /\ wrecked' = wrecked /\ pc' \notin {"collect", "run"}
    BY <1>4, EndType DEF NoGroups
  <2> QED
    BY <2>1 DEF GroupsResolve, MadeInv
<1>5. CASE Refuse
  <2>1. /\ dir' = Cleaned /\ wrecked' = (wrecked /\ "clean" \notin flags)
        /\ pc' \notin {"collect", "run"}
    BY <1>5, EndType DEF Refuse
  <2> QED
    BY <2>1 DEF GroupsResolve, MadeInv, Cleaned, NoFolder
<1>6. CASE Collect
  BY <1>6 DEF Collect, GroupsResolve, MadeInv
<1>7. CASE Finish
  <2>1. /\ dir'.groups = dir.groups \union found /\ dir'.fixtures = Put(dir.fixtures, made)
        /\ wrecked' = wrecked /\ pc = "run"
    BY <1>7 DEF Finish, TypeOK, Folder
  <2>2. pc' \in {"idle", "configure"}
    BY <1>7 DEF Finish, End
  <2>3. ASSUME ~wrecked
        PROVE  \A f \in dir'.fixtures : f.format = "grouped" => <<f.test, f.version>> \in dir'.groups
    <3>1. \A f \in dir.fixtures \union made :
            f.format = "grouped" => <<f.test, f.version>> \in dir.groups
      BY <2>1, <2>3 DEF GroupsResolve, MadeInv
    <3>2. dir.groups \subseteq dir'.groups
      BY <2>1
    <3>3. \A f \in Put(dir.fixtures, made) :
            f.format = "grouped" => <<f.test, f.version>> \in dir'.groups
      BY <3>1, <3>2, PutResolves
    <3> QED
      BY <2>1, <3>3
  <2> QED
    BY <2>1, <2>2, <2>3 DEF GroupsResolve, MadeInv
<1>8. CASE Kill
  <2>1. PICK g \in SUBSET found, x \in SUBSET made :
          /\ dir'.groups = dir.groups \union g /\ dir'.fixtures = Put(dir.fixtures, x)
          /\ wrecked' = wrecked /\ pc' = "idle" /\ (pc = "run" \/ x = {})
    BY <1>8 DEF Kill, Killed, TypeOK, Folder
  <2>3. ASSUME ~wrecked
        PROVE  \A f \in dir'.fixtures : f.format = "grouped" => <<f.test, f.version>> \in dir'.groups
    <3>1. \A f \in dir.fixtures \union x :
            f.format = "grouped" => <<f.test, f.version>> \in dir.groups
      BY <2>1, <2>3 DEF GroupsResolve, MadeInv
    <3>2. dir.groups \subseteq dir'.groups
      BY <2>1
    <3>3. \A f \in Put(dir.fixtures, x) :
            f.format = "grouped" => <<f.test, f.version>> \in dir'.groups
      BY <3>1, <3>2, PutResolves
    <3> QED
      BY <2>1, <3>3
  <2> QED
    BY <2>1, <2>3 DEF GroupsResolve, MadeInv
<1>9. CASE KillCleaning
  BY <1>9 DEF KillCleaning, Killed, GroupsResolve, MadeInv
<1>10. ASSUME NEW i \in Tests \X Formats, Fill(i) PROVE GroupsResolve' /\ MadeInv'
  <2>1. /\ dir' = dir /\ wrecked' = wrecked /\ pc = "run" /\ pc' = pc
        /\ made' = made \union {Fixture(i[1], i[2], seen[i[1]])}
        /\ i[2] = "grouped" => HashOf(i[1]) \in dir.groups
    BY <1>10 DEF Fill
  <2> QED
    BY <2>1 DEF GroupsResolve, MadeInv, Fixture, HashOf
<1>11. ASSUME NEW i \in Tests \X Formats, AddToGroup(i) \/ GroupMissing(i) \/ TestFails(i)
       PROVE  GroupsResolve' /\ MadeInv'
  BY <1>1, <1>11 DEF AddToGroup, GroupMissing, TestFails
<1>12. ASSUME NEW t \in Tests, Edit(t) PROVE GroupsResolve' /\ MadeInv'
  BY <1>1, <1>12 DEF Edit, session
<1>13. CASE UNCHANGED vars
  BY <1>1, <1>13 DEF vars, session
<1> QED
  BY <1>2, <1>3, <1>4, <1>5, <1>6, <1>7, <1>8, <1>9, <1>10, <1>11, <1>12, <1>13 DEF Next

------------------------------------------------------------------------------
(* Where a fill command is, and what it has done so far.                      *)

\* The arguments create_executions goes on with.
AllArgs == IF "tarball" \in cmd.args THEN cmd.args \union {"all"} ELSE cmd.args

\* The only session of a command, and the first and the second of two.
InOne == ~cmd.phil /\ ~TwoPhase(cmd.args) /\ todo = <<cmd.args>>
InFirst == ~cmd.phil /\ TwoPhase(cmd.args) /\ todo = <<Phase1Args(AllArgs), Phase2Args(AllArgs)>>
InSecond == ~cmd.phil /\ TwoPhase(cmd.args) /\ todo = <<Phase2Args(AllArgs)>>

PlanInv == pc # "idle" => /\ exit = "none" /\ cmd.tests # {}
                          /\ cmd.phil \/ InOne \/ InFirst \/ InSecond

\* A folder that is not there holds nothing; a session that runs has made one.
FolderInv == (~dir.exists => Empty(dir)) /\ (pc \in {"collect", "run"} => dir.exists)

\* Unless it only uses groups, a command starts from a folder without fixtures, and its first
\* session writes none.
FreshInv ==
  /\ pc \in {"collect", "run"} /\ ~cmd.phil /\ (TwoPhase(cmd.args) \/ "use" \notin cmd.args)
       => dir.fixtures = {}
  /\ pc = "configure" /\ InSecond => dir.fixtures = {}

FixtureOf(i) == Fixture(i[1], i[2], seen[i[1]])

\* The session that fills is through with what it was asked for, or has it before it.
FilledInv ==
  pc = "run" /\ (InOne \/ InSecond) =>
    /\ items \subseteq Wanted /\ found = {}
    /\ made \subseteq {FixtureOf(i) : i \in Wanted}
    /\ failed \/ \A i \in Wanted : i \in items \/ FixtureOf(i) \in made

\* Phase 1 is through with every test that has a group, or has it before it.
FirstInv ==
  pc = "run" /\ InFirst =>
    /\ made = {}
    /\ failed \/ \A t \in cmd.tests \intersect Grouped : <<t, "grouped">> \in items \/ HashOf(t) \in found

StartInv == pc = "collect" => found = {} /\ made = {} /\ ~failed

\* The groups of the tests as they are now.
GroupsThere == \A t \in cmd.tests \intersect Grouped : <<t, src[t]>> \in dir.groups

\* As long as nothing goes wrong, the next session finds its folder and its groups.
SoundInv ==
  sound /\ pc # "idle" =>
    /\ ~cmd.phil
    /\ TwoPhase(cmd.args) \/ "use" \in cmd.args => cmd.tests \intersect Grouped # {}
    /\ pc = "configure" /\ ~InSecond => Ready(cmd.phil, cmd.args, cmd.tests)
    /\ pc = "configure" /\ InSecond => dir.preAlloc
    /\ pc # "run" /\ InSecond => seen = src
    /\ pc = "run" => seen = src /\ ~failed
    /\ InSecond \/ (pc # "configure" /\ InOne /\ "use" \in cmd.args) => GroupsThere
    /\ pc # "configure" /\ AfterGenerating => known = dir.groups

FillInv == PlanInv /\ FolderInv /\ FreshInv /\ FilledInv /\ FirstInv /\ StartInv /\ SoundInv
           /\ ExactlyWanted /\ EndsWell

LEMMA OneFlags ==
  ASSUME InOne
  PROVE  /\ flags = cmd.args /\ Len(todo) = 1 /\ ~InFirst /\ ~InSecond
         /\ "generate" \notin cmd.args /\ "all" \notin cmd.args /\ "tarball" \notin cmd.args
         /\ ~Generating /\ (AfterGenerating <=> "use" \in cmd.args)
  BY DEF InOne, InFirst, InSecond, TwoPhase, flags, Generating, AfterGenerating

LEMMA FirstFlags ==
  ASSUME InFirst
  PROVE  /\ Len(todo) = 2 /\ ~InOne /\ ~InSecond /\ Tail(todo) = <<Phase2Args(AllArgs)>>
         /\ Generating /\ ~AfterGenerating
         /\ "generate" \in flags /\ "use" \notin flags /\ ("clean" \in flags <=> "clean" \in cmd.args)
<1>1. todo = <<Phase1Args(AllArgs), Phase2Args(AllArgs)>>
  BY DEF InFirst
<1>2. Len(todo) = 2 /\ Tail(todo) = <<Phase2Args(AllArgs)>> /\ flags = Phase1Args(AllArgs)
  BY <1>1 DEF flags
<1>3. ~InOne /\ ~InSecond
  BY <1>2 DEF InOne, InSecond
<1> QED
  BY <1>2, <1>3 DEF Phase1Args, AllArgs, Generating, AfterGenerating

LEMMA SecondFlags ==
  ASSUME InSecond
  PROVE  /\ Len(todo) = 1 /\ ~InOne /\ ~InFirst /\ ~Generating /\ AfterGenerating
         /\ "use" \in flags /\ "clean" \notin flags /\ "generate" \notin flags
         /\ "tarball" \in flags <=> "tarball" \in cmd.args
         /\ "all" \in flags <=> cmd.args \intersect {"all", "tarball"} # {}
<1>1. Len(todo) = 1 /\ flags = Phase2Args(AllArgs) /\ TwoPhase(cmd.args)
  BY DEF InSecond, flags
<1>2. ~InOne /\ ~InFirst
  BY <1>1 DEF InOne, InFirst
<1> QED
  BY <1>1, <1>2 DEF Phase2Args, AllArgs, Generating, AfterGenerating

\* A step within a session leaves the command where it is.
LEMMA SameSession ==
  ASSUME cmd' = cmd, todo' = todo
  PROVE  /\ InOne' = InOne /\ InFirst' = InFirst /\ InSecond' = InSecond /\ Wanted' = Wanted
         /\ Generating' = Generating /\ AfterGenerating' = AfterGenerating
         /\ TwoPhase(cmd.args)' = TwoPhase(cmd.args)
  BY DEF InOne, InFirst, InSecond, AllArgs, Wanted, Generating, AfterGenerating, flags, TwoPhase

\* A session that must find its folder empty does.
LEMMA UsableEmpty ==
  ASSUME TypeOK, FolderInv, Usable(Cleaned), "generate" \in flags \/ "use" \notin flags
  PROVE  Cleaned.fixtures = {}
<1>1. CASE Cleaned = NoFolder
  BY <1>1 DEF NoFolder
<1>2. CASE Cleaned = dir
  BY <1>2 DEF Usable, FolderInv, Empty
<1> QED
  BY <1>1, <1>2 DEF Cleaned

\* As long as nothing goes wrong, a session finds what it needs.
LEMMA SoundStarts ==
  ASSUME TypeOK, PlanInv, SoundInv, sound, pc = "configure"
  PROVE  (AfterGenerating => dir.preAlloc) /\ Usable(Cleaned)
<1>1. ~cmd.phil /\ (InOne \/ InFirst \/ InSecond)
  BY DEF PlanInv, SoundInv
<1>2. CASE InOne
  <2>1. Ready(cmd.phil, cmd.args, cmd.tests)
    BY <1>2, OneFlags DEF SoundInv
  <2> QED
    BY <1>2, <2>1, OneFlags DEF Ready, Usable, Cleaned, NoFolder, InOne
<1>3. CASE InFirst
  <2>1. Ready(cmd.phil, cmd.args, cmd.tests) /\ TwoPhase(cmd.args)
    BY <1>3, FirstFlags DEF SoundInv, InFirst
  <2> QED
    BY <1>3, <2>1, FirstFlags DEF Ready, Usable, Cleaned, NoFolder
<1>4. CASE InSecond
  <2>1. dir.preAlloc
    BY <1>4 DEF SoundInv
  <2> QED
    BY <1>4, <2>1, SecondFlags DEF Usable, Cleaned
<1> QED
  BY <1>1, <1>2, <1>3, <1>4

\* What is collected when fixtures are filled is what is wanted.
LEMMA ItemsWanted ==
  ASSUME InOne \/ InSecond
  PROVE  {i \in cmd.tests \X Formats : i[2] \in FormatsOf(i[1]) /\ ShouldGenerate(i[2])} = Wanted
<1>1. ASSUME NEW i \in cmd.tests \X Formats
      PROVE  ShouldGenerate(i[2]) <=>
               IF cmd.args \intersect {"all", "tarball"} # {} THEN TRUE
               ELSE (i[2] = "grouped") = (cmd.args \intersect {"generate", "use"} # {})
  <2>1. i[2] \in {"plain", "grouped"}
    BY DEF Formats
  <2>2. CASE InOne
    BY <2>1, <2>2, OneFlags DEF ShouldGenerate
  <2>3. CASE InSecond
    <3>1. TwoPhase(cmd.args)
      BY <2>3 DEF InSecond
    <3> QED
      BY <2>1, <2>3, <3>1, SecondFlags DEF ShouldGenerate, TwoPhase
  <2> QED
    BY <2>2, <2>3
<1> QED
  BY <1>1 DEF Wanted

LEMMA IssueFills ==
  ASSUME IInv, FillInv, NEW phil \in BOOLEAN, NEW a \in SUBSET Flags, NEW tests \in (SUBSET Tests) \ {{}},
         Issue(phil, a, tests)
  PROVE  FillInv'
<1>1. /\ cmd' = [phil |-> phil, args |-> a, tests |-> tests] /\ todo' = Executions(phil, a)
      /\ pc' = "configure" /\ exit' = "none" /\ sound' = Ready(phil, a, tests)
      /\ dir' = dir /\ src' = src
  BY DEF Issue
<1>2. tests # {}
  OBVIOUS
<1>3. phil \/ (InOne' /\ ~TwoPhase(a)) \/ (InFirst' /\ TwoPhase(a))
  BY <1>1 DEF Executions, InOne, InFirst, AllArgs
<1>4. ~InSecond'
  <2>1. ASSUME ~phil, TwoPhase(a) PROVE Len(todo') = 2
    BY <1>1, <2>1 DEF Executions
  <2>2. InSecond' => ~phil /\ TwoPhase(a) /\ Len(todo') = 1
    BY <1>1 DEF InSecond
  <2> QED
    BY <2>1, <2>2
<1>5. PlanInv'
  BY <1>1, <1>2, <1>3 DEF PlanInv
<1>6. FolderInv'
  BY <1>1 DEF FillInv, FolderInv, Empty
<1>7. FreshInv'
  BY <1>1, <1>4 DEF FreshInv
<1>8. SoundInv'
  <2> SUFFICES ASSUME sound' PROVE SoundInv'
    BY DEF SoundInv
  <2>1. Ready(phil, a, tests)
    BY <1>1
  <2>2. ~phil /\ (TwoPhase(a) \/ "use" \in a => tests \intersect Grouped # {})
    BY <2>1 DEF Ready
  <2>3. Ready(cmd.phil, cmd.args, cmd.tests)'
    BY <1>1, <2>1 DEF Ready, Empty
  <2> QED
    BY <1>1, <1>4, <2>2, <2>3 DEF SoundInv
<1> QED
  BY <1>1, <1>5, <1>6, <1>7, <1>8 DEF FillInv, FilledInv, FirstInv, StartInv, ExactlyWanted, EndsWell

LEMMA ConfigureFills == ASSUME IInv, FillInv, Configure PROVE FillInv'
<1>1. /\ pc = "configure" /\ pc' = "collect" /\ cmd' = cmd /\ todo' = todo /\ src' = src /\ seen' = seen
      /\ sound' = sound /\ exit' = exit /\ found' = {} /\ made' = {} /\ failed' = FALSE
      /\ Usable(Cleaned) /\ known' = (IF AfterGenerating THEN dir.groups ELSE {})
  BY DEF Configure, bounds
<1>2. dir'.exists /\ dir'.fixtures = Cleaned.fixtures /\ dir'.groups = Cleaned.groups
  BY CleanedType DEF Configure, Folder, IInv
<1>3. /\ InOne' = InOne /\ InFirst' = InFirst /\ InSecond' = InSecond
      /\ AfterGenerating' = AfterGenerating /\ TwoPhase(cmd.args)' = TwoPhase(cmd.args)
  BY <1>1, SameSession
<1>4. PlanInv /\ FolderInv /\ FreshInv /\ SoundInv /\ TypeOK
  BY DEF FillInv, IInv
<1>5. PlanInv'
  BY <1>1, <1>3, <1>4 DEF PlanInv
<1>6. FolderInv'
  BY <1>2 DEF FolderInv
<1>7. FreshInv'
  <2> SUFFICES ASSUME ~cmd.phil, TwoPhase(cmd.args) \/ "use" \notin cmd.args
               PROVE  dir'.fixtures = {}
    BY <1>1, <1>3 DEF FreshInv
  <2>1. CASE InOne
    <3>1. "use" \notin flags
      BY <2>1, OneFlags DEF InOne
    <3> QED
      BY <1>1, <1>2, <1>4, <3>1, UsableEmpty
  <2>2. CASE InFirst
    BY <1>1, <1>2, <1>4, <2>2, FirstFlags, UsableEmpty
  <2>3. CASE InSecond
    BY <1>1, <1>2, <1>4, <2>3, SecondFlags DEF FreshInv, Cleaned
  <2> QED
    BY <1>1, <1>4, <2>1, <2>2, <2>3 DEF PlanInv
<1>8. SoundInv'
  <2> SUFFICES ASSUME sound PROVE SoundInv'
    BY <1>1 DEF SoundInv
  <2>1. /\ ~cmd.phil /\ (TwoPhase(cmd.args) \/ "use" \in cmd.args => cmd.tests \intersect Grouped # {})
        /\ InSecond => seen = src /\ GroupsThere
        /\ ~InSecond => Ready(cmd.phil, cmd.args, cmd.tests)
    BY <1>1, <1>4 DEF SoundInv
  <2>2. ASSUME AfterGenerating PROVE dir'.groups = dir.groups /\ GroupsThere
    <3>1. CASE InSecond
      BY <1>2, <2>1, <3>1, SecondFlags DEF Cleaned
    <3>2. CASE InOne
      <4>1. Ready(cmd.phil, cmd.args, cmd.tests) /\ "use" \in cmd.args /\ ~TwoPhase(cmd.args)
        BY <2>1, <2>2, <3>2, OneFlags DEF InOne
      <4> QED
        BY <1>2, <3>2, <4>1, OneFlags DEF Ready, Cleaned, GroupsThere
    <3> QED
      BY <1>1, <1>4, <2>1, <2>2, <3>1, <3>2, FirstFlags DEF PlanInv
  <2>3. ASSUME AfterGenerating PROVE GroupsThere'
    BY <1>1, <2>2, <2>3 DEF GroupsThere
  <2>4. AfterGenerating => known' = dir'.groups
    BY <1>1, <2>2
  <2>5. InSecond \/ (InOne /\ "use" \in cmd.args) => AfterGenerating
    BY SecondFlags, OneFlags
  <2> QED
    BY <1>1, <1>3, <2>1, <2>3, <2>4, <2>5 DEF SoundInv
<1> QED
  BY <1>1, <1>5, <1>6, <1>7, <1>8 DEF FillInv, FilledInv, FirstInv, StartInv, ExactlyWanted, EndsWell

\* A session that cannot begin ends the command, and something has gone wrong.
LEMMA StopFills ==
  ASSUME IInv, FillInv, NoGroups \/ Refuse
  PROVE  FillInv'
<1>1. /\ pc = "configure" /\ pc' = "idle" /\ exit' # "ok" /\ sound' = sound
      /\ dir' \in {dir, NoFolder}
  BY DEF NoGroups, Refuse, End, bounds, Cleaned
<1>2. ~sound
  BY <1>1, SoundStarts DEF NoGroups, Refuse, FillInv, IInv
<1>3. FolderInv'
  BY <1>1 DEF FillInv, FolderInv, Empty, NoFolder
<1> QED
  BY <1>1, <1>2, <1>3 DEF FillInv, PlanInv, FreshInv, FilledInv, FirstInv, StartInv, SoundInv,
                         ExactlyWanted, EndsWell

LEMMA CollectFills == ASSUME IInv, FillInv, Collect PROVE FillInv'
<1>1. /\ pc = "collect" /\ pc' = "run" /\ cmd' = cmd /\ todo' = todo /\ src' = src /\ dir' = dir
      /\ known' = known /\ found' = {} /\ made' = {} /\ failed' = FALSE /\ sound' = sound /\ exit' = exit
  BY DEF Collect, bounds, FillInv, StartInv
<1>2. /\ InOne' = InOne /\ InFirst' = InFirst /\ InSecond' = InSecond /\ Wanted' = Wanted
      /\ AfterGenerating' = AfterGenerating /\ TwoPhase(cmd.args)' = TwoPhase(cmd.args)
  BY <1>1, SameSession
<1>3. PlanInv /\ FolderInv /\ FreshInv /\ SoundInv
  BY DEF FillInv
<1>4. PlanInv' /\ FolderInv' /\ FreshInv'
  BY <1>1, <1>2, <1>3 DEF PlanInv, FolderInv, FreshInv, Empty
<1>5. FilledInv'
  <2> SUFFICES ASSUME InOne \/ InSecond PROVE FilledInv'
    BY <1>2 DEF FilledInv
  <2>1. items' = Wanted
    BY ItemsWanted DEF Collect
  <2> QED
    BY <1>1, <1>2, <2>1 DEF FilledInv
<1>6. FirstInv'
  <2> SUFFICES ASSUME InFirst PROVE \A t \in cmd.tests \intersect Grouped : <<t, "grouped">> \in items'
    BY <1>1, <1>2 DEF FirstInv
  <2>1. Generating
    BY FirstFlags
  <2> QED
    BY <2>1 DEF Collect, FormatsOf, Formats, ShouldGenerate
<1>7. SoundInv'
  <2> SUFFICES ASSUME sound PROVE SoundInv'
    BY <1>1 DEF SoundInv
  <2>1. ~cmd.phil /\ (InSecond => seen = src)
    BY <1>1, <1>3 DEF SoundInv
  <2>2. seen' = src
    <3>1. CASE InSecond
      BY <2>1, <3>1 DEF Collect
    <3>2. CASE InOne
      BY <3>2 DEF Collect, InOne
    <3>3. CASE InFirst
      BY <3>3, FirstFlags DEF Collect
    <3> QED
      BY <1>1, <1>3, <2>1, <3>1, <3>2, <3>3 DEF PlanInv
  <2>3. GroupsThere' = GroupsThere
    BY <1>1 DEF GroupsThere
  <2> QED
    BY <1>1, <1>2, <1>3, <2>2, <2>3 DEF SoundInv
<1> QED
  BY <1>1, <1>4, <1>5, <1>6, <1>7 DEF FillInv, StartInv, ExactlyWanted, EndsWell

\* A test is run: it joins its group, is filled, misses its group or fails.
LEMMA RunFills ==
  ASSUME IInv, FillInv, NEW i \in Tests \X Formats,
         AddToGroup(i) \/ Fill(i) \/ GroupMissing(i) \/ TestFails(i)
  PROVE  FillInv'
<1>1. /\ pc = "run" /\ pc' = pc /\ cmd' = cmd /\ todo' = todo /\ src' = src /\ seen' = seen /\ dir' = dir
      /\ known' = known /\ exit' = exit /\ i \in items /\ items' = items \ {i}
  BY DEF AddToGroup, Fill, GroupMissing, TestFails
<1>2. /\ InOne' = InOne /\ InFirst' = InFirst /\ InSecond' = InSecond /\ Wanted' = Wanted
      /\ AfterGenerating' = AfterGenerating /\ TwoPhase(cmd.args)' = TwoPhase(cmd.args)
  BY <1>1, SameSession
<1>3. PlanInv /\ FolderInv /\ FreshInv /\ FilledInv /\ FirstInv /\ SoundInv
  BY DEF FillInv
<1>4. PlanInv' /\ FolderInv' /\ FreshInv'
  BY <1>1, <1>2, <1>3 DEF PlanInv, FolderInv, FreshInv, Empty
<1>5. FixtureOf(i)' = FixtureOf(i) /\ \A j \in Wanted : FixtureOf(j)' = FixtureOf(j)
  BY <1>1 DEF FixtureOf
<1>6. FilledInv'
  <2> SUFFICES ASSUME InOne \/ InSecond PROVE FilledInv'
    BY <1>2 DEF FilledInv
  <2>1. /\ items \subseteq Wanted /\ found = {} /\ made \subseteq {FixtureOf(j) : j \in Wanted}
        /\ failed \/ \A j \in Wanted : j \in items \/ FixtureOf(j) \in made
    BY <1>1, <1>3 DEF FilledInv
  <2>2. ~Generating
    BY OneFlags, SecondFlags
  <2>3. /\ found' = {} /\ made' \subseteq {FixtureOf(j) : j \in Wanted} /\ made \subseteq made'
        /\ failed' \/ (failed' = failed /\ FixtureOf(i) \in made')
    BY <1>1, <2>1, <2>2 DEF AddToGroup, Fill, GroupMissing, TestFails, FixtureOf
  <2>4. made' \subseteq {FixtureOf(j)' : j \in Wanted}
    BY <1>5, <2>3
  <2>5. failed' \/ \A j \in Wanted : j \in items' \/ FixtureOf(j)' \in made'
    BY <1>1, <1>5, <2>1, <2>3
  <2> QED
    BY <1>1, <1>2, <2>1, <2>3, <2>4, <2>5 DEF FilledInv
<1>7. FirstInv'
  <2> SUFFICES ASSUME InFirst PROVE FirstInv'
    BY <1>2 DEF FirstInv
  <2>1. /\ made = {}
        /\ failed \/ \A t \in cmd.tests \intersect Grouped :
                        <<t, "grouped">> \in items \/ HashOf(t) \in found
    BY <1>1, <1>3 DEF FirstInv
  <2>2. Generating
    BY FirstFlags
  <2>3. /\ made' = {} /\ found \subseteq found'
        /\ failed' \/ (failed' = failed /\ HashOf(i[1]) \in found')
    BY <2>1, <2>2 DEF AddToGroup, Fill, GroupMissing, TestFails
  <2>4. ASSUME ~failed', NEW t \in cmd.tests \intersect Grouped
        PROVE  <<t, "grouped">> \in items' \/ HashOf(t)' \in found'
    <3>1. HashOf(t)' = HashOf(t)
      BY <1>1 DEF HashOf
    <3>2. CASE <<t, "grouped">> = i
      <4>1. i[1] = t
        BY <3>2
      <4> QED
        BY <2>3, <2>4, <3>1, <4>1
    <3> QED
      BY <1>1, <2>1, <2>3, <2>4, <3>1, <3>2
  <2> QED
    BY <1>1, <2>3, <2>4 DEF FirstInv
<1>8. SoundInv'
  <2> SUFFICES ASSUME sound' PROVE SoundInv'
    BY DEF SoundInv
  <2>1. sound /\ ~TestFails(i)
    BY DEF AddToGroup, Fill, GroupMissing, TestFails, bounds
  <2>2. /\ ~cmd.phil /\ seen = src /\ ~failed
        /\ InSecond \/ (InOne /\ "use" \in cmd.args) => GroupsThere
        /\ AfterGenerating => known = dir.groups
    BY <1>1, <1>3, <2>1 DEF SoundInv
  <2>3. ~GroupMissing(i)
    <3> SUFFICES ASSUME GroupMissing(i) PROVE FALSE
      OBVIOUS
    <3>1. ~Generating /\ i[2] = "grouped" /\ HashOf(i[1]) \notin known \intersect dir.groups
      BY DEF GroupMissing
    <3>2. InOne \/ InSecond
      BY <1>1, <1>3, <2>2, <3>1, FirstFlags DEF PlanInv
    <3>3. i \in Wanted
      BY <1>1, <1>3, <3>2 DEF FilledInv
    <3>4. i[1] \in cmd.tests \intersect Grouped
      BY <3>1, <3>3 DEF Wanted, FormatsOf
    <3>5. InOne => "use" \in cmd.args
      BY <3>1, <3>3, OneFlags DEF Wanted
    <3>6. GroupsThere /\ known = dir.groups
      BY <2>2, <3>2, <3>5, OneFlags, SecondFlags
    <3> QED
      BY <2>2, <3>1, <3>4, <3>6 DEF GroupsThere, HashOf
  <2>4. failed' = failed
    BY <2>1, <2>3 DEF AddToGroup, Fill
  <2>5. GroupsThere' = GroupsThere
    BY <1>1 DEF GroupsThere
  <2> QED
    BY <1>1, <1>2, <1>3, <2>1, <2>2, <2>4, <2>5 DEF SoundInv
<1> QED
  BY <1>1, <1>4, <1>6, <1>7, <1>8 DEF FillInv, StartInv, ExactlyWanted, EndsWell

\* Nothing is replaced when there is nothing.
LEMMA PutEmpty == ASSUME NEW m PROVE Put({}, m) = m
  BY DEF Put

\* The last session of a command ends: what it was to fill is in the folder.
LEMMA FinishLast ==
  ASSUME IInv, FillInv, Finish, InOne \/ InSecond
  PROVE  FillInv'
<1>1. /\ pc = "run" /\ items = {} /\ cmd' = cmd /\ src' = src /\ seen' = seen /\ sound' = sound
      /\ dir'.exists = dir.exists /\ dir'.fixtures = Put(dir.fixtures, made)
  BY DEF Finish, session, bounds, IInv, TypeOK, Folder
<1>2. PlanInv /\ FolderInv /\ FreshInv /\ FilledInv /\ SoundInv
  BY DEF FillInv
<1>3. Len(todo) = 1 /\ ~Generating
  BY OneFlags, SecondFlags
<1>4. /\ pc' = "idle"
      /\ exit' = (IF failed THEN "failed" ELSE IF found = {} /\ made = {} THEN "no tests" ELSE "ok")
  <2>1. ~(Len(todo) > 1)
    BY <1>3
  <2> QED
    BY <2>1, Zenon DEF Finish, End
<1>5. /\ found = {} /\ made \subseteq {FixtureOf(i) : i \in Wanted}
      /\ failed \/ \A i \in Wanted : FixtureOf(i) \in made
  BY <1>1, <1>2 DEF FilledInv
<1>6. FolderInv'
  BY <1>1, <1>2, <1>4 DEF FolderInv
<1>7. ExactlyWanted'
  <2> SUFFICES ASSUME exit' = "ok", ~cmd.phil PROVE ExactlyWanted'
    BY <1>1 DEF ExactlyWanted
  <2> DEFINE wanted == {FixtureOf(i) : i \in Wanted}
  <2>1. ~failed
    BY <1>4
  <2>2. made = wanted
    BY <1>5, <2>1
  <2>3. wanted' = wanted
    BY <1>1 DEF Wanted, FixtureOf
  <2>4. wanted \subseteq dir'.fixtures
    BY <1>1, <2>2 DEF Put
  <2>5. ASSUME TwoPhase(cmd.args) \/ "use" \notin cmd.args PROVE dir'.fixtures = wanted
    <3>1. dir.fixtures = {}
      BY <1>1, <1>2, <2>5 DEF FreshInv
    <3> QED
      BY <1>1, <2>2, <3>1, PutEmpty
  <2>6. ASSUME "tarball" \in cmd.args PROVE tarball' = dir'.fixtures
    <3>1. "tarball" \in flags
      BY <2>6, OneFlags, SecondFlags
    <3> QED
      BY <1>3, <3>1 DEF Finish
  <2>7. TwoPhase(cmd'.args) = TwoPhase(cmd.args)
    BY <1>1
  <2> HIDE DEF wanted
  <2>8. /\ wanted' \subseteq dir'.fixtures
        /\ TwoPhase(cmd'.args) \/ "use" \notin cmd'.args => dir'.fixtures = wanted'
        /\ "tarball" \in cmd'.args => tarball' = dir'.fixtures
    BY <1>1, <2>3, <2>4, <2>5, <2>6, <2>7
  <2> QED
    BY <2>8 DEF ExactlyWanted, wanted, FixtureOf
<1>8. EndsWell'
  <2> SUFFICES ASSUME sound PROVE exit' = "ok"
    BY <1>1 DEF EndsWell
  <2>1. ~failed /\ (TwoPhase(cmd.args) \/ "use" \in cmd.args => cmd.tests \intersect Grouped # {})
    BY <1>1, <1>2 DEF SoundInv
  <2>2. Wanted # {}
    <3>1. CASE TwoPhase(cmd.args) \/ "use" \in cmd.args
      <4>1. PICK t \in cmd.tests \intersect Grouped : TRUE
        BY <2>1, <3>1
      <4>2. <<t, "grouped">> \in Wanted
        BY <3>1 DEF Wanted, FormatsOf, Formats, TwoPhase
      <4> QED
        BY <4>2
    <3>2. CASE ~(TwoPhase(cmd.args) \/ "use" \in cmd.args)
      <4>1. PICK t \in cmd.tests : TRUE
        BY <1>1, <1>2 DEF PlanInv
      <4>2. <<t, "plain">> \in Wanted
        BY <3>2 DEF Wanted, FormatsOf, Formats, TwoPhase
      <4> QED
        BY <4>2
    <3> QED
      BY <3>1, <3>2
  <2>3. made # {}
    BY <1>5, <2>1, <2>2
  <2> QED
    BY <1>4, <2>1, <2>3
<1> QED
  BY <1>4, <1>6, <1>7, <1>8 DEF FillInv, PlanInv, FreshInv, FilledInv, FirstInv, StartInv, SoundInv

\* Phase 1 ends: its groups are in the folder, and phase 2 is next, or the command has failed.
LEMMA FinishFirst ==
  ASSUME IInv, FillInv, Finish, InFirst
  PROVE  FillInv'
<1>1. /\ pc = "run" /\ items = {} /\ cmd' = cmd /\ src' = src /\ seen' = seen /\ sound' = sound
      /\ dir'.exists = dir.exists /\ dir'.fixtures = Put(dir.fixtures, made)
      /\ dir'.groups = dir.groups \union found /\ (dir'.preAlloc <=> dir.preAlloc \/ Generating)
  BY DEF Finish, session, bounds, IInv, TypeOK, Folder
<1>2. PlanInv /\ FolderInv /\ FreshInv /\ FirstInv /\ SoundInv
  BY DEF FillInv
<1>3. Len(todo) = 2 /\ Tail(todo) = <<Phase2Args(AllArgs)>> /\ Generating /\ TwoPhase(cmd.args) /\ ~cmd.phil
  BY FirstFlags DEF InFirst
<1>4. ASSUME ~failed, found # {}
      PROVE  pc' = "configure" /\ exit' = exit /\ todo' = Tail(todo)
  <2>1. Len(todo) > 1
    BY <1>3
  <2> QED
    BY <1>4, <2>1, Zenon DEF Finish, End
<1>5. failed \/ found = {} => pc' = "idle" /\ exit' \in {"failed", "no tests"}
  BY <1>1, <1>2, FirstFlags DEF Finish, End, FirstInv
<1>6. made = {} /\ (failed \/ \A t \in cmd.tests \intersect Grouped : HashOf(t) \in found)
  BY <1>1, <1>2 DEF FirstInv
<1>7. FolderInv'
  BY <1>1, <1>2, <1>4, <1>5 DEF FolderInv
<1>8. sound => seen = src /\ ~failed /\ cmd.tests \intersect Grouped # {} /\ found # {}
  BY <1>1, <1>2, <1>3, <1>6 DEF SoundInv
<1>9. CASE failed \/ found = {}
  BY <1>1, <1>5, <1>7, <1>8, <1>9 DEF FillInv, PlanInv, FreshInv, FilledInv, FirstInv, StartInv, SoundInv,
                                 ExactlyWanted, EndsWell
<1>10. CASE ~(failed \/ found = {})
  <2>1. pc' = "configure" /\ exit' = exit /\ todo' = <<Phase2Args(AllArgs)>>
    BY <1>3, <1>4, <1>10
  <2>2. InSecond'
    BY <1>1, <1>3, <2>1 DEF InSecond, AllArgs
  <2>3. PlanInv'
    BY <1>1, <1>2, <2>1, <2>2 DEF PlanInv
  <2>4. FreshInv'
    <3>1. dir.fixtures = {}
      BY <1>1, <1>2, <1>3 DEF FreshInv
    <3>2. dir'.fixtures = {}
      BY <1>1, <1>6, <3>1, PutEmpty
    <3> QED
      BY <2>1, <3>2 DEF FreshInv
  <2>5. SoundInv'
    <3> SUFFICES ASSUME sound PROVE SoundInv'
      BY <1>1 DEF SoundInv
    <3>1. GroupsThere'
      BY <1>1, <1>6, <1>8 DEF GroupsThere, HashOf
    <3>2. cmd'.tests \intersect Grouped # {} /\ seen' = src' /\ dir'.preAlloc /\ ~cmd'.phil
      BY <1>1, <1>3, <1>8
    <3> QED
      BY <2>1, <2>2, <3>1, <3>2 DEF SoundInv
  <2> QED
    BY <1>7, <2>1, <2>3, <2>4, <2>5 DEF FillInv, FilledInv, FirstInv, StartInv, ExactlyWanted, EndsWell
<1> QED
  BY <1>9, <1>10

\* A session of phil ends: nothing is claimed of it but that it is not sound.
LEMMA FinishPhil ==
  ASSUME IInv, FillInv, Finish, cmd.phil
  PROVE  FillInv'
<1>1. /\ pc = "run" /\ cmd' = cmd /\ sound' = sound /\ dir'.exists = dir.exists
      /\ pc' \in {"idle", "configure"} /\ (pc' = "configure" => exit' = exit)
  BY DEF Finish, End, bounds, IInv, TypeOK, Folder
<1>2. PlanInv /\ FolderInv /\ SoundInv
  BY DEF FillInv
<1>3. ~sound /\ dir.exists
  BY <1>1, <1>2 DEF SoundInv, FolderInv
<1>4. ~InOne' /\ ~InFirst' /\ ~InSecond'
  BY <1>1 DEF InOne, InFirst, InSecond
<1> QED
  BY <1>1, <1>2, <1>3, <1>4 DEF FillInv, PlanInv, FolderInv, FreshInv, FilledInv, FirstInv, StartInv, SoundInv,
                               ExactlyWanted, EndsWell

\* After a death nothing is claimed but that the folder is there or empty.
LEMMA KillFills ==
  ASSUME IInv, FillInv, Kill \/ KillCleaning
  PROVE  FillInv'
<1>1. pc' = "idle" /\ exit' = "killed" /\ ~sound'
  BY DEF Kill, KillCleaning, Killed
<1>2. FolderInv /\ dir \in Folder
  BY DEF FillInv, IInv, TypeOK
<1>3. FolderInv'
  <2>1. CASE Kill
    <3>1. PICK g \in SUBSET found, x \in SUBSET made :
            /\ pc # "run" => x = {}
            /\ pc # "run" \/ items # {} => g = {}
            /\ dir' = [dir EXCEPT !.preAlloc = @ \/ g # {}, !.groups = @ \union g, !.fixtures = Put(@, x)]
      BY <2>1 DEF Kill
    <3>2. CASE pc = "run"
      BY <1>1, <1>2, <3>1, <3>2 DEF FolderInv, Folder
    <3>3. CASE pc # "run"
      <4>1. Put(dir.fixtures, {}) = dir.fixtures
        BY DEF Put
      <4>2. dir' = dir
        BY <1>2, <3>1, <3>3, <4>1 DEF Folder
      <4> QED
        BY <1>1, <1>2, <4>2 DEF FolderInv, Empty
    <3> QED
      BY <3>2, <3>3
  <2>2. CASE KillCleaning
    BY <1>1, <1>2, <2>2 DEF KillCleaning, FolderInv, Empty, Folder
  <2> QED
    BY <2>1, <2>2
<1> QED
  BY <1>1, <1>3 DEF FillInv, PlanInv, FreshInv, FilledInv, FirstInv, StartInv, SoundInv, ExactlyWanted, EndsWell

\* An edit touches no session, and while one runs it may spoil the command.
LEMMA OtherFills ==
  ASSUME IInv, FillInv, UNCHANGED vars \/ \E t \in Tests : Edit(t)
  PROVE  FillInv'
<1>1. /\ cmd' = cmd /\ todo' = todo /\ pc' = pc /\ exit' = exit /\ seen' = seen /\ dir' = dir
      /\ items' = items /\ found' = found /\ made' = made /\ failed' = failed /\ known' = known
      /\ tarball' = tarball /\ (sound' => sound) /\ (src' = src \/ pc = "idle" \/ ~sound')
  <2>1. CASE UNCHANGED vars
    BY <2>1 DEF vars, session
  <2>2. ASSUME NEW t \in Tests, Edit(t)
        PROVE  /\ UNCHANGED <<dir, tarball, cmd, todo, pc, exit, session>>
               /\ (sound' => sound) /\ (pc = "idle" \/ ~sound')
    BY <2>2 DEF Edit
  <2> QED
    BY <2>1, <2>2 DEF session
<1>2. /\ InOne' = InOne /\ InFirst' = InFirst /\ InSecond' = InSecond /\ Wanted' = Wanted
      /\ AfterGenerating' = AfterGenerating /\ TwoPhase(cmd.args)' = TwoPhase(cmd.args)
  BY <1>1, SameSession
<1>3. PlanInv' /\ FolderInv' /\ FreshInv' /\ StartInv' /\ EndsWell'
  BY <1>1, <1>2 DEF FillInv, PlanInv, FolderInv, FreshInv, StartInv, EndsWell, Empty
<1>4. FilledInv' /\ FirstInv'
  BY <1>1, <1>2 DEF FillInv, FilledInv, FirstInv, FixtureOf, HashOf
<1>5. ExactlyWanted'
  BY <1>1, <1>2 DEF FillInv, ExactlyWanted
<1>6. SoundInv'
  <2> SUFFICES ASSUME sound', pc # "idle" PROVE SoundInv'
    BY <1>1 DEF SoundInv
  <2>1. src' = src
    BY <1>1
  <2>2. GroupsThere' = GroupsThere /\ Ready(cmd.phil, cmd.args, cmd.tests)' = Ready(cmd.phil, cmd.args, cmd.tests)
    BY <1>1, <2>1 DEF GroupsThere, Ready, Empty, TwoPhase
  <2> QED
    BY <1>1, <1>2, <2>1, <2>2 DEF FillInv, SoundInv
<1> QED
  BY <1>3, <1>4, <1>5, <1>6 DEF FillInv

LEMMA FillStep == ASSUME IInv, FillInv, [Next]_vars PROVE FillInv'
<1>1. ASSUME Finish PROVE FillInv'
  <2>1. cmd.phil \/ InOne \/ InFirst \/ InSecond
    BY <1>1 DEF Finish, FillInv, PlanInv
  <2> QED
    BY <1>1, <2>1, FinishLast, FinishFirst, FinishPhil
<1> QED
  BY <1>1, IssueFills, ConfigureFills, StopFills, CollectFills, RunFills, KillFills, OtherFills DEF Next

------------------------------------------------------------------------------
(* The theorems.                                                              *)

\* The inductive invariant holds.
THEOREM Invariance == Spec => []IInv
<1>1. Init => IInv
  BY InitType DEF IInv, Init, GroupsResolve, MadeInv, NoFolder
<1>2. IInv /\ [Next]_vars => IInv'
  <2> SUFFICES ASSUME IInv, [Next]_vars PROVE IInv'
    OBVIOUS
  <2>1. TypeOK'
    BY TypeStep DEF IInv
  <2> QED
    BY <2>1, GroupsStep DEF IInv
<1> QED
  BY <1>1, <1>2, PTL DEF Spec

\* Every variable keeps its type.
THEOREM TypeCorrect == Spec => []TypeOK
<1>1. IInv => TypeOK
  BY DEF IInv
<1> QED
  BY <1>1, Invariance, PTL

\* create_directories and get_pre_alloc_group between them never leave a grouped fixture without
\* the file of its group, whatever commands are run and wherever they fail.
THEOREM Resolution == Spec => []GroupsResolve
<1>1. IInv => GroupsResolve
  BY DEF IInv
<1> QED
  BY <1>1, Invariance, PTL

\* Where a command is and what it has done, in every behaviour.
THEOREM FillInvariance == Spec => []FillInv
<1>1. Init => FillInv
  BY DEF Init, NoFolder, Empty, FillInv, PlanInv, FolderInv, FreshInv, FilledInv, FirstInv, StartInv, SoundInv,
         ExactlyWanted, EndsWell
<1>2. IInv /\ FillInv /\ [Next]_vars => FillInv'
  BY FillStep
<1> QED
  BY <1>1, <1>2, Invariance, PTL DEF Spec

\* However its sessions divide the work, a fill command that succeeds leaves exactly the fixtures
\* it was asked for, and its tarball holds what the folder does.
THEOREM FillsExactly == Spec => []ExactlyWanted
<1>1. FillInv => ExactlyWanted
  BY DEF FillInv
<1> QED
  BY <1>1, FillInvariance, PTL

\* A fill command nothing goes wrong for never fails: the arguments create_executions gives the
\* second session fit the folder the first one leaves.
THEOREM SucceedsWhenSound == Spec => []EndsWell
<1>1. FillInv => EndsWell
  BY DEF FillInv
<1> QED
  BY <1>1, FillInvariance, PTL

(***************************** ChecklistSession *******************************)

------------------------------------------------------------------------------
(* Sequences.                                                                 *)

\* SetToSeq makes a sequence of a finite set, with all of its members.
LEMMA SeqOfSet ==
  ASSUME NEW S, IsFiniteSet(S)
  PROVE  SetToSeq(S) \in Seq(S) /\ ToSet(SetToSeq(S)) = S
<1> DEFINE n == Cardinality(S)
           s == SetToSeq(S)
<1>1. n \in Nat /\ ExistsBijection(1..n, S)
  BY FS_CardinalityType
<1>2. PICK f \in Bijection(1..n, S) : TRUE
  BY <1>1 DEF ExistsBijection
<1>3. f \in [1..n -> S] /\ IsInjective(f)
  BY <1>2 DEF Bijection, Injection, IsInjective
<1>4. s \in [1..n -> S] /\ IsInjective(s)
  BY <1>3 DEF SetToSeq
<1>5. s \in Injection(1..n, S)
  BY <1>4 DEF Injection, IsInjective
<1>6. Cardinality(1..n) = n
  BY <1>1, FS_Interval
<1>7. s \in Surjection(1..n, S)
  BY <1>5, <1>6, FS_Injection
<1>8. ToSet(s) = S
  BY <1>4, <1>7 DEF ToSet, Surjection
<1> QED
  BY <1>1, <1>4, <1>8

LEMMA SeqWider ==
  ASSUME NEW X, NEW Y, X \subseteq Y, NEW s \in Seq(X)
  PROVE  s \in Seq(Y)
  OBVIOUS

LEMMA SetOfConcat ==
  ASSUME NEW X, NEW s \in Seq(X), NEW t \in Seq(X)
  PROVE  s \o t \in Seq(X) /\ ToSet(s \o t) = ToSet(s) \union ToSet(t)
<1>1. DOMAIN s = 1..Len(s) /\ DOMAIN t = 1..Len(t) /\ Len(s) \in Nat /\ Len(t) \in Nat
  OBVIOUS
<1>2. DOMAIN (s \o t) = 1..(Len(s) + Len(t))
  OBVIOUS
<1>3. \A i \in DOMAIN s : i \in DOMAIN (s \o t) /\ (s \o t)[i] = s[i]
  BY <1>1, <1>2
<1>4. \A i \in DOMAIN t : i + Len(s) \in DOMAIN (s \o t) /\ (s \o t)[i + Len(s)] = t[i]
  BY <1>1, <1>2
<1>5. \A i \in DOMAIN (s \o t) : (s \o t)[i] \in ToSet(s) \union ToSet(t)
  <2> SUFFICES ASSUME NEW i \in DOMAIN (s \o t) PROVE (s \o t)[i] \in ToSet(s) \union ToSet(t)
    OBVIOUS
  <2>1. CASE i <= Len(s)
    BY <1>1, <1>2, <1>3, <2>1 DEF ToSet
  <2>2. CASE i > Len(s)
    <3>1. i - Len(s) \in DOMAIN t /\ (s \o t)[i] = t[i - Len(s)]
      BY <1>1, <1>2, <2>2
    <3> QED
      BY <3>1 DEF ToSet
  <2> QED
    BY <1>1, <1>2, <2>1, <2>2
<1>6. ToSet(s) \subseteq ToSet(s \o t)
  BY <1>3 DEF ToSet
<1>7. ToSet(t) \subseteq ToSet(s \o t)
  BY <1>4 DEF ToSet
<1>8. ToSet(s \o t) \subseteq ToSet(s) \union ToSet(t)
  BY <1>5 DEF ToSet
<1>9. s \o t \in Seq(X)
  OBVIOUS
<1> QED
  BY <1>6, <1>7, <1>8, <1>9

LEMMA SetOfTail ==
  ASSUME NEW X, NEW s \in Seq(X), s # <<>>
  PROVE  /\ Tail(s) \in Seq(X) /\ Head(s) \in ToSet(s)
         /\ ToSet(s) = {Head(s)} \union ToSet(Tail(s))
<1>1. Len(s) \in Nat /\ Len(s) > 0 /\ Tail(s) \in Seq(X) /\ Len(Tail(s)) = Len(s) - 1
  OBVIOUS
<1>2. \A i \in 1..(Len(s) - 1) : Tail(s)[i] = s[i + 1]
  OBVIOUS
<1>3. Head(s) = s[1] /\ 1 \in DOMAIN s
  BY <1>1
<1>4. \A i \in DOMAIN s : i = 1 \/ (i - 1 \in DOMAIN Tail(s) /\ s[i] = Tail(s)[i - 1])
  BY <1>1, <1>2
<1>5. \A i \in DOMAIN Tail(s) : i + 1 \in DOMAIN s /\ Tail(s)[i] = s[i + 1]
  BY <1>1, <1>2
<1>6. Head(s) \in ToSet(s)
  BY <1>3 DEF ToSet
<1>7. ToSet(Tail(s)) \subseteq ToSet(s)
  BY <1>5 DEF ToSet
<1>8. ToSet(s) \subseteq {Head(s)} \union ToSet(Tail(s))
  <2> SUFFICES ASSUME NEW i \in DOMAIN s PROVE s[i] \in {Head(s)} \union ToSet(Tail(s))
    BY DEF ToSet
  <2> DEFINE r == Tail(s)
  <2> HIDE DEF r
  <2>1. i = 1 \/ (i - 1 \in DOMAIN r /\ s[i] = r[i - 1])
    BY <1>4 DEF r
  <2>2. s[i] = Head(s) \/ s[i] \in ToSet(r)
    BY <1>3, <2>1 DEF ToSet
  <2> QED
    BY <2>2 DEF r
<1> QED
  BY <1>1, <1>6, <1>7, <1>8

------------------------------------------------------------------------------
(* What a test does to the dictionary of EIPs.                                *)

Eip(tests) == [path : {None} \union DOMAIN EipOf, tests : SUBSET (Template \X {t.node : t \in tests})]
IsTest(t) == /\ t.dirs \in Seq(DOMAIN EipOf) /\ t.skipped \in BOOLEAN
             /\ IsFiniteSet(Named(t)) /\ Named(t) \subseteq Nat \ {0}

\* The item p of the EIP n is covered by a marker of the test.
Covers(t, n, p) ==
  \E m \in ToSet(t.marks) : (n = Own(t) \/ n \in m.eips) /\ \E id \in ToSet(m.args) : p \in resolve_id(id)

LEMMA Directory ==
  ASSUME NEW t, IsTest(t), t.dirs # <<>>
  PROVE  /\ Head(t.dirs) \in DOMAIN EipOf /\ Head(t.dirs) # None
         /\ Own(t) \in Nat \ {0}
  BY DirectoriesAssumption DEF IsTest, Own

WasAdded(new, numbers, path, before, tests) ==
  /\ DOMAIN new = DOMAIN before \union numbers
  /\ \A n \in DOMAIN before : new[n] = before[n]
  /\ \A n \in numbers \ DOMAIN before : new[n].path = path /\ new[n].tests = {}
  /\ \A n \in DOMAIN new : new[n] \in Eip(tests)

LEMMA Added ==
  ASSUME NEW numbers, NEW path \in {None} \union DOMAIN EipOf, NEW before, NEW tests,
         \A n \in DOMAIN before : before[n] \in Eip(tests)
  PROVE  WasAdded(Adding(numbers, path, before), numbers, path, before, tests)
  BY DEF WasAdded, Adding, NewEip, Eip

\* Its own EIP gets the directory of the test, unless it has one.
OwnAdded(own, before, t, tests) ==
  /\ DOMAIN own = DOMAIN before \union (IF t.dirs = <<>> THEN {} ELSE {Own(t)})
  /\ \A n \in DOMAIN own : own[n] \in Eip(tests)
  /\ \A n \in DOMAIN before : own[n].tests = before[n].tests
  /\ \A n \in DOMAIN own \ DOMAIN before : own[n].tests = {}
  /\ \A n \in DOMAIN before : n # Own(t) \/ t.dirs = <<>> => own[n].path = before[n].path
  /\ t.dirs # <<>> =>
       own[Own(t)].path = (IF Own(t) \in DOMAIN before /\ before[Own(t)].path # None
                           THEN before[Own(t)].path ELSE Head(t.dirs))

LEMMA OwnKnown ==
  ASSUME NEW before, NEW tests, \A n \in DOMAIN before : before[n] \in Eip(tests), NEW t, IsTest(t)
  PROVE  OwnAdded(get_eip_from_item(t, before), before, t, tests)
<1> USE DEF OwnAdded
<1>1. CASE t.dirs = <<>>
  BY <1>1 DEF get_eip_from_item
<1>2. CASE t.dirs # <<>> /\ Own(t) \notin DOMAIN before
  <2> DEFINE own == get_eip_from_item(t, before)
  <2>1. own = Adding({Own(t)}, Head(t.dirs), before)
    BY <1>2 DEF get_eip_from_item
  <2>2. Head(t.dirs) \in DOMAIN EipOf
    BY <1>2, Directory
  <2>3. WasAdded(own, {Own(t)}, Head(t.dirs), before, tests)
    BY <2>1, <2>2, Added
  <2> HIDE DEF own
  <2> QED
    BY <1>2, <2>3 DEF own, WasAdded
<1>3. CASE t.dirs # <<>> /\ Own(t) \in DOMAIN before
  <2> DEFINE own == get_eip_from_item(t, before)
             o == Own(t)
             path == IF before[o].path = None THEN Head(t.dirs) ELSE before[o].path
  <2>1. own = [before EXCEPT ![o].path = path]
    BY <1>3 DEF get_eip_from_item
  <2>2. path \in {None} \union DOMAIN EipOf
    BY <1>3, Directory DEF Eip
  <2>3. own[o] = [before[o] EXCEPT !.path = path] /\ \A n \in DOMAIN before \ {o} : own[n] = before[n]
    BY <1>3, <2>1
  <2>4. own[o].path = path /\ own[o].tests = before[o].tests /\ own[o] \in Eip(tests)
    BY <1>3, <2>2, <2>3 DEF Eip
  <2>5. DOMAIN own = DOMAIN before
    BY <2>1
  <2> QED
    BY <1>3, <2>3, <2>4, <2>5
<1> QED
  BY <1>1, <1>2, <1>3

\* Every EIP that is known gets the items that the markers cover.
WasCollected(new, t, before, tests) ==
  /\ DOMAIN new = DOMAIN before
  /\ \A n \in DOMAIN new : new[n] \in Eip(tests) /\ new[n].path = before[n].path
  /\ \A n \in DOMAIN new : \A p, v :
       <<p, v>> \in new[n].tests <=> <<p, v>> \in before[n].tests \/ (v = t.node /\ Covers(t, n, p))

LEMMA TestsCollected ==
  ASSUME NEW before, NEW tests, \A n \in DOMAIN before : before[n] \in Eip(tests), NEW t \in tests
  PROVE  WasCollected(collect_from_item(t, before), t, before, tests)
<1> DEFINE new == collect_from_item(t, before)
           marked(n) == UNION {UNION {resolve_id(id) : id \in ToSet(m.args)} :
                                m \in {m \in ToSet(t.marks) : n = Own(t) \/ n \in m.eips}}
           more(n) == {<<p, t.node>> : p \in marked(n)}
<1>1. DOMAIN new = DOMAIN before
  BY DEF collect_from_item
<1>2. \A n, p : p \in marked(n) <=> Covers(t, n, p)
  BY DEF Covers
<1>3. \A n : marked(n) \subseteq Template
  BY DEF resolve_id
<1>4. ASSUME NEW n \in DOMAIN before
      PROVE  new[n] = [before[n] EXCEPT !.tests = before[n].tests \union more(n)]
  BY <1>4 DEF collect_from_item
<1>5. ASSUME NEW n \in DOMAIN before
      PROVE  /\ new[n] \in Eip(tests) /\ new[n].path = before[n].path
             /\ new[n].tests = before[n].tests \union more(n)
  <2>1. more(n) \subseteq Template \X {u.node : u \in tests}
    BY <1>3
  <2> DEFINE k == before[n]
             x == k.tests \union more(n)
  <2>2. new[n] = [k EXCEPT !.tests = x]
    BY <1>4, <1>5
  <2>3. k \in Eip(tests) /\ x \subseteq Template \X {u.node : u \in tests}
    BY <1>5, <2>1 DEF Eip
  <2> HIDE DEF more, new, k, x
  <2>4. new[n] \in Eip(tests) /\ new[n].path = k.path /\ new[n].tests = x
    BY <2>2, <2>3 DEF Eip
  <2> QED
    BY <2>4 DEF k, x
<1>6. ASSUME NEW n \in DOMAIN before, NEW p, NEW v
      PROVE  <<p, v>> \in more(n) <=> v = t.node /\ Covers(t, n, p)
  BY <1>2
<1> HIDE DEF new, more
<1>7. ASSUME NEW n \in DOMAIN new, NEW p, NEW v
      PROVE  <<p, v>> \in new[n].tests
               <=> <<p, v>> \in before[n].tests \/ (v = t.node /\ Covers(t, n, p))
  BY <1>1, <1>5, <1>6, <1>7
<1>8. \A n \in DOMAIN new : new[n] \in Eip(tests) /\ new[n].path = before[n].path
  BY <1>1, <1>5
<1> QED
  BY <1>1, <1>7, <1>8 DEF new, WasCollected

------------------------------------------------------------------------------
(* The dictionary after some of the tests.                                    *)

Met(tests) == {Own(t) : t \in {t \in tests : t.dirs # <<>>}}
              \union UNION {Named(t) : t \in {t \in tests : ~t.skipped}}
Found(n, tests) == {Head(t.dirs) : t \in {t \in tests : Own(t) = n /\ t.dirs # <<>>}}

Typed(before) == \A n \in DOMAIN before : n \in Nat \ {0} /\ before[n] \in Eip(collected)

\* An EIP has the directory of one of its tests, as soon as one of them was looked at.
PathOf(before, tests) ==
  \A n \in DOMAIN before :
    before[n].path \in (IF Found(n, tests) = {} THEN {None} ELSE Found(n, tests))

\* And just the items that the tests cover for it.
TestsOf(before, tests) ==
  \A n \in DOMAIN before : \A p, v :
    <<p, v>> \in before[n].tests <=> \E t \in tests : t.node = v /\ ~t.skipped /\ Covers(t, n, p)

Dict(before, tests) ==
  DOMAIN before = Met(tests) /\ Typed(before) /\ PathOf(before, tests) /\ TestsOf(before, tests)

LEMMA MetIs ==
  ASSUME NEW tests, NEW n
  PROVE  n \in Met(tests) <=> \/ \E t \in tests : t.dirs # <<>> /\ n = Own(t)
                              \/ \E t \in tests : ~t.skipped /\ n \in Named(t)
<1>1. n \in {Own(t) : t \in {t \in tests : t.dirs # <<>>}}
        <=> \E t \in tests : t.dirs # <<>> /\ n = Own(t)
  OBVIOUS
<1>2. n \in UNION {Named(t) : t \in {t \in tests : ~t.skipped}}
        <=> \E t \in tests : ~t.skipped /\ n \in Named(t)
  OBVIOUS
<1> QED
  BY <1>1, <1>2 DEF Met

LEMMA MetMore ==
  ASSUME NEW tests, NEW t
  PROVE  Met(tests \union {t}) = Met(tests) \union (IF t.dirs = <<>> THEN {} ELSE {Own(t)})
                                            \union (IF t.skipped THEN {} ELSE Named(t))
<1> SUFFICES ASSUME NEW n
             PROVE  n \in Met(tests \union {t})
                      <=> \/ n \in Met(tests)
                          \/ t.dirs # <<>> /\ n = Own(t)
                          \/ ~t.skipped /\ n \in Named(t)
  OBVIOUS
<1>1. (\E u \in tests \union {t} : u.dirs # <<>> /\ n = Own(u))
        <=> (\E u \in tests : u.dirs # <<>> /\ n = Own(u)) \/ (t.dirs # <<>> /\ n = Own(t))
  OBVIOUS
<1>2. (\E u \in tests \union {t} : ~u.skipped /\ n \in Named(u))
        <=> (\E u \in tests : ~u.skipped /\ n \in Named(u)) \/ (~t.skipped /\ n \in Named(t))
  OBVIOUS
<1> QED
  BY <1>1, <1>2, MetIs

LEMMA FoundMore ==
  ASSUME NEW tests, NEW t, NEW n
  PROVE  /\ (Own(t) # n \/ t.dirs = <<>>) => Found(n, tests \union {t}) = Found(n, tests)
         /\ (Own(t) = n /\ t.dirs # <<>>) =>
               Found(n, tests \union {t}) = Found(n, tests) \union {Head(t.dirs)}
  BY DEF Found

LEMMA FoundIsMet ==
  ASSUME NEW tests, NEW n, n \notin Met(tests)
  PROVE  Found(n, tests) = {}
  BY DEF Found, Met

\* No directory is None.
LEMMA FoundIsDirectory ==
  ASSUME NEW tests, \A t \in tests : IsTest(t), NEW n
  PROVE  None \notin Found(n, tests)
<1>1. \A t \in tests : t.dirs # <<>> => Head(t.dirs) # None
  BY Directory
<1> QED
  BY <1>1 DEF Found

\* A test covers nothing of an EIP that it does not make known.
LEMMA CoversMet ==
  ASSUME NEW tests, NEW t \in tests, IsTest(t), ~t.skipped, NEW n \in Nat \ {0}, NEW p, Covers(t, n, p)
  PROVE  n \in Met(tests)
<1>1. PICK m \in ToSet(t.marks) : n = Own(t) \/ n \in m.eips
  BY DEF Covers
<1>2. CASE n = Own(t)
  <2>1. t.dirs # <<>>
    BY <1>2 DEF Own
  <2> QED
    BY <1>2, <2>1 DEF Met
<1>3. CASE n \in m.eips
  <2>1. n \in Named(t)
    BY <1>1, <1>3 DEF Named
  <2> QED
    BY <2>1 DEF Met
<1> QED
  BY <1>1, <1>2, <1>3

\* get_eip_from_item
LEMMA OwnDict ==
  ASSUME NEW tests, \A u \in tests : IsTest(u), NEW t, IsTest(t), Dict(eips, tests)
  PROVE  LET own == get_eip_from_item(t, eips)
         IN  /\ DOMAIN own = Met(tests) \union (IF t.dirs = <<>> THEN {} ELSE {Own(t)})
             /\ Typed(own) /\ PathOf(own, tests \union {t}) /\ TestsOf(own, tests)
<1> DEFINE own == get_eip_from_item(t, eips)
<1>1. \A n \in DOMAIN eips : eips[n] \in Eip(collected)
  BY DEF Dict, Typed
<1>2. OwnAdded(own, eips, t, collected)
  BY <1>1, OwnKnown
<1> USE DEF OwnAdded
<1> HIDE DEF own
<1>3. t.dirs # <<>> => Own(t) \in Nat \ {0} /\ Head(t.dirs) # None
  BY Directory
<1>4. \A n \in DOMAIN own : n \in Nat \ {0}
  BY <1>2, <1>3 DEF Dict, Typed
<1>5. ASSUME NEW n \in DOMAIN own
      PROVE  own[n].path \in (IF Found(n, tests \union {t}) = {} THEN {None}
                              ELSE Found(n, tests \union {t}))
  <2>1. CASE n # Own(t) \/ t.dirs = <<>>
    <3>1. n \in DOMAIN eips /\ own[n].path = eips[n].path
      BY <1>2, <1>5, <2>1
    <3>2. Found(n, tests \union {t}) = Found(n, tests)
      BY <2>1, FoundMore
    <3> QED
      BY <3>1, <3>2 DEF Dict, PathOf
  <2>2. CASE n = Own(t) /\ t.dirs # <<>>
    <3>1. Found(n, tests \union {t}) = Found(n, tests) \union {Head(t.dirs)}
      BY <2>2, FoundMore
    <3>2. CASE n \in DOMAIN eips /\ eips[n].path # None
      <4>1. own[n].path = eips[n].path /\ eips[n].path \in Found(n, tests)
        BY <1>2, <2>2, <3>2 DEF Dict, PathOf
      <4> QED
        BY <3>1, <4>1
    <3>3. CASE ~(n \in DOMAIN eips /\ eips[n].path # None)
      BY <1>2, <2>2, <3>1, <3>3
    <3> QED
      BY <3>2, <3>3
  <2> QED
    BY <2>1, <2>2
<1>6. ASSUME NEW n \in DOMAIN own, NEW p, NEW v
      PROVE  <<p, v>> \in own[n].tests <=> \E u \in tests : u.node = v /\ ~u.skipped /\ Covers(u, n, p)
  <2>1. CASE n \in DOMAIN eips
    BY <1>2, <2>1 DEF Dict, TestsOf
  <2>2. CASE n \notin DOMAIN eips
    <3>1. \A u \in tests : ~u.skipped => ~Covers(u, n, p)
      BY <1>4, <1>6, <2>2, CoversMet DEF Dict
    <3> QED
      BY <1>2, <1>6, <2>2, <3>1
  <2> QED
    BY <2>1, <2>2
<1>7. Typed(own) /\ PathOf(own, tests \union {t}) /\ TestsOf(own, tests)
  BY <1>2, <1>4, <1>5, <1>6 DEF Typed, PathOf, TestsOf
<1>8. DOMAIN own = Met(tests) \union (IF t.dirs = <<>> THEN {} ELSE {Own(t)})
  BY <1>2 DEF Dict
<1> QED
  BY <1>7, <1>8 DEF own

\* get_eip
LEMMA NamedDict ==
  ASSUME NEW tests, \A u \in tests : IsTest(u), NEW t, IsTest(t), NEW own,
         DOMAIN own = Met(tests) \union (IF t.dirs = <<>> THEN {} ELSE {Own(t)}),
         Typed(own), PathOf(own, tests \union {t}), TestsOf(own, tests)
  PROVE  /\ DOMAIN get_eip(Named(t), own) = DOMAIN own \union Named(t)
         /\ Typed(get_eip(Named(t), own)) /\ PathOf(get_eip(Named(t), own), tests \union {t})
         /\ TestsOf(get_eip(Named(t), own), tests)
<1> DEFINE got == get_eip(Named(t), own)
<1>1. \A n \in DOMAIN own : own[n] \in Eip(collected)
  BY DEF Typed
<1>2. None \in {None} \union DOMAIN EipOf
  OBVIOUS
<1>3. WasAdded(got, Named(t), None, own, collected)
  BY <1>1, <1>2, Added DEF get_eip
<1> HIDE DEF got
<1> USE DEF WasAdded
<1>4. \A n \in DOMAIN got : n \in Nat \ {0}
  BY <1>3 DEF Typed, IsTest
<1>5. ASSUME NEW n \in Named(t) \ DOMAIN own
      PROVE  Found(n, tests \union {t}) = {}
  <2>1. Found(n, tests) = {}
    BY <1>5, FoundIsMet
  <2>2. Own(t) # n \/ t.dirs = <<>>
    BY <1>5
  <2> QED
    BY <2>1, <2>2, FoundMore
<1>6. ASSUME NEW n \in Named(t) \ DOMAIN own, NEW p, NEW u \in tests, ~u.skipped
      PROVE  ~Covers(u, n, p)
  BY <1>3, <1>4, <1>6, CoversMet
<1>7. PathOf(got, tests \union {t})
  BY <1>3, <1>5 DEF PathOf
<1>8. ASSUME NEW n \in DOMAIN got, NEW p, NEW v
      PROVE  <<p, v>> \in got[n].tests <=> \E u \in tests : u.node = v /\ ~u.skipped /\ Covers(u, n, p)
  <2>1. CASE n \in DOMAIN own
    BY <1>3, <2>1 DEF TestsOf
  <2>2. CASE n \notin DOMAIN own
    BY <1>3, <1>6, <1>8, <2>2
  <2> QED
    BY <2>1, <2>2
<1>9. Typed(got) /\ TestsOf(got, tests)
  BY <1>3, <1>4, <1>8 DEF Typed, TestsOf
<1> QED
  BY <1>3, <1>7, <1>9 DEF got

\* What CollectItem makes of the dictionary.
Result(t) == LET own == get_eip_from_item(t, eips)
             IN  IF t.skipped THEN own ELSE collect_from_item(t, get_eip(Named(t), own))

LEMMA ResultDict ==
  ASSUME NEW tests, tests \subseteq collected, \A u \in collected : IsTest(u), NEW t \in collected,
         Dict(eips, tests)
  PROVE  Dict(Result(t), tests \union {t})
<1> DEFINE own == get_eip_from_item(t, eips)
           got == get_eip(Named(t), own)
<1>1. /\ DOMAIN own = Met(tests) \union (IF t.dirs = <<>> THEN {} ELSE {Own(t)})
      /\ Typed(own) /\ PathOf(own, tests \union {t}) /\ TestsOf(own, tests)
  BY OwnDict
<1> HIDE DEF own
<1>2. CASE t.skipped
  <2>1. TestsOf(own, tests \union {t})
    BY <1>1, <1>2 DEF TestsOf
  <2>2. Met(tests \union {t}) = DOMAIN own
    BY <1>1, <1>2, MetMore
  <2>3. Dict(own, tests \union {t})
    BY <1>1, <2>1, <2>2 DEF Dict
  <2> QED
    BY <1>2, <2>3 DEF Result, own
<1>3. CASE ~t.skipped
  <2>1. /\ DOMAIN got = DOMAIN own \union Named(t)
        /\ Typed(got) /\ PathOf(got, tests \union {t}) /\ TestsOf(got, tests)
    BY <1>1, NamedDict
  <2> DEFINE new == collect_from_item(t, got)
  <2> HIDE DEF got
  <2>2. \A n \in DOMAIN got : got[n] \in Eip(collected)
    BY <2>1 DEF Typed
  <2>3. WasCollected(new, t, got, collected)
    BY <2>2, TestsCollected
  <2> HIDE DEF new
  <2> USE DEF WasCollected
  <2>4. Met(tests \union {t}) = DOMAIN new
    BY <1>1, <1>3, <2>1, <2>3, MetMore
  <2>5. Typed(new) /\ PathOf(new, tests \union {t})
    BY <2>1, <2>3 DEF Typed, PathOf
  <2>6. ASSUME NEW n \in DOMAIN new, NEW p, NEW v
        PROVE  <<p, v>> \in new[n].tests
                 <=> \E u \in tests \union {t} : u.node = v /\ ~u.skipped /\ Covers(u, n, p)
    <3>1. <<p, v>> \in new[n].tests
            <=> \/ \E u \in tests : u.node = v /\ ~u.skipped /\ Covers(u, n, p)
                \/ v = t.node /\ Covers(t, n, p)
      BY <2>1, <2>3, <2>6 DEF TestsOf
    <3> QED
      BY <1>3, <3>1
  <2>7. Dict(new, tests \union {t})
    BY <2>4, <2>5, <2>6 DEF Dict, TestsOf
  <2> QED
    BY <1>3, <2>7 DEF Result, new, got, own
<1> QED
  BY <1>2, <1>3

------------------------------------------------------------------------------
(* The invariant.                                                             *)

AskedFor(n) == requested = {} \/ n \in requested

\* Why a session fails.
Excused ==
  \/ \E t \in Counting, m \in UNION {ToSet(t.marks) : t \in Counting} :
       m \in ToSet(t.marks) /\ Failing(m)
  \/ \E n \in Concerned : \E d \in Homes(n) : Malformed(NotApplicable, d) \/ Malformed(External, d)
  \/ docs /\ \E n \in Concerned : Homes(n) = {}

DictInv == /\ unread \subseteq collected /\ \A t \in collected : IsTest(t)
           /\ Dict(eips, collected \ unread)

\* Every EIP of the dictionary is in the order until it is written, or passed over.
OrderInv ==
  /\ order \in Seq(Nat) /\ ToSet(order) \subseteq DOMAIN eips
  /\ phase = "collect" => ToSet(order) = DOMAIN eips /\ written = NoEips
  /\ phase \in {"write", "done"} =>
       /\ unread = {}
       /\ \A n \in DOMAIN eips : AskedFor(n) => n \in DOMAIN written \/ n \in ToSet(order)
  /\ phase = "done" => order = <<>>

\* What is written was written from the whole collection.
WrittenInv ==
  /\ DOMAIN written # {} => unread = {}
  /\ \A n \in DOMAIN written : /\ n \in DOMAIN eips /\ AskedFor(n)
                               /\ written[n] = generate_filled_checklist_lines(eips[n])

ChecklistInv == /\ phase \in {"collect", "write", "done", "failed"}
                /\ DictInv /\ OrderInv /\ WrittenInv /\ (phase = "failed" => Excused)

LEMMA NothingKnown == DOMAIN NoEips = {}
  BY DEF NoEips

LEMMA InitChecklist == ChecklistInit => ChecklistInv
<1> SUFFICES ASSUME ChecklistInit PROVE ChecklistInv
  OBVIOUS
<1> USE DEF ChecklistInit
<1>1. \A t \in collected : IsTest(t)
  BY TestsAssumption DEF IsTest
<1>2. DOMAIN eips = {} /\ DOMAIN written = {} /\ collected \ unread = {}
  BY NothingKnown
<1>3. Met({}) = {}
  BY MetIs
<1>4. Dict(eips, collected \ unread)
  BY <1>2, <1>3 DEF Dict, Typed, PathOf, TestsOf
<1>5. order \in Seq(Nat) /\ ToSet(order) = {}
  BY DEF ToSet
<1> QED
  BY <1>1, <1>2, <1>4, <1>5 DEF ChecklistInv, DictInv, OrderInv, WrittenInv

\* The dictionary and the order after a test.
LEMMA ResultDomain ==
  ASSUME NEW t \in collected, IsTest(t), Typed(eips)
  PROVE  LET own == get_eip_from_item(t, eips)
         IN  /\ DOMAIN own = DOMAIN eips \union (IF t.dirs = <<>> THEN {} ELSE {Own(t)})
             /\ DOMAIN Result(t) = DOMAIN own \union (IF t.skipped THEN {} ELSE Named(t))
<1> DEFINE own == get_eip_from_item(t, eips)
           got == get_eip(Named(t), own)
           new == collect_from_item(t, got)
<1>1. OwnAdded(own, eips, t, collected)
  BY OwnKnown DEF Typed
<1> HIDE DEF own
<1>2. WasAdded(got, Named(t), None, own, collected)
  BY <1>1, Added DEF get_eip, OwnAdded
<1> HIDE DEF got
<1>3. WasCollected(new, t, got, collected)
  BY <1>2, TestsCollected DEF WasAdded
<1> HIDE DEF new
<1>4. Result(t) = IF t.skipped THEN own ELSE new
  BY DEF Result, own, got, new
<1>5. DOMAIN own = DOMAIN eips \union (IF t.dirs = <<>> THEN {} ELSE {Own(t)})
  BY <1>1 DEF OwnAdded
<1>6. DOMAIN new = DOMAIN own \union Named(t)
  BY <1>2, <1>3 DEF WasAdded, WasCollected
<1> QED
  BY <1>4, <1>5, <1>6 DEF own

LEMMA CollectKeeps ==
  ASSUME ChecklistInv, NEW t \in collected, CollectItem(t)
  PROVE  ChecklistInv'
<1> USE DEF ChecklistInv
<1> DEFINE new == Result(t)
           own == get_eip_from_item(t, eips)
           X == DOMAIN own \ DOMAIN eips
           Y == DOMAIN new \ DOMAIN own
           passed == collected \ unread
<1>1. /\ phase = "collect" /\ t \in unread /\ eips' = new
      /\ order' = (order \o SetToSeq(X)) \o SetToSeq(Y)
      /\ phase' = IF ~t.skipped /\ \E m \in ToSet(t.marks) : Failing(m) THEN "failed" ELSE phase
      /\ unread' = unread \ {t} /\ UNCHANGED <<collected, requested, docs, written>>
  BY DEF CollectItem, call, Result
<1>2. IsTest(t) /\ Typed(eips) /\ \A u \in collected : IsTest(u)
  BY DEF DictInv, Dict
<1>3. /\ DOMAIN own = DOMAIN eips \union (IF t.dirs = <<>> THEN {} ELSE {Own(t)})
      /\ DOMAIN new = DOMAIN own \union (IF t.skipped THEN {} ELSE Named(t))
  BY <1>2, ResultDomain
<1>4. Dict(new, passed \union {t})
  <2>1. Dict(eips, passed) /\ passed \subseteq collected
    BY DEF DictInv
  <2> QED
    BY <1>2, <2>1, ResultDict
<1> HIDE DEF new, own
<1>5. collected' \ unread' = passed \union {t} /\ unread' \subseteq collected'
  BY <1>1 DEF DictInv
<1>6. Dict(eips, collected \ unread)'
  BY <1>1, <1>4, <1>5 DEF Dict, Typed, PathOf, TestsOf
<1>7. DictInv'
  BY <1>1, <1>2, <1>5, <1>6 DEF DictInv
<1>8. order' \in Seq(Nat) /\ ToSet(order') = DOMAIN eips'
  <2>1. \A n \in DOMAIN new : n \in Nat
    BY <1>4 DEF Dict, Typed
  <2>2. IsFiniteSet(X) /\ IsFiniteSet(Y)
    <3>1. X \subseteq {Own(t)} /\ Y \subseteq Named(t)
      BY <1>3
    <3>2. IsFiniteSet({Own(t)}) /\ IsFiniteSet(Named(t))
      BY <1>2, FS_Singleton DEF IsTest
    <3> HIDE DEF X, Y
    <3> QED
      BY <3>1, <3>2, FS_Subset
  <2>3. X \subseteq Nat /\ Y \subseteq Nat
    BY <1>3, <2>1
  <2> DEFINE x == SetToSeq(X)
             y == SetToSeq(Y)
  <2>4. order' = (order \o x) \o y
    BY <1>1
  <2>5. DOMAIN new = (DOMAIN eips \union X) \union Y
    BY <1>3
  <2> HIDE DEF X, Y
  <2>6. x \in Seq(Nat) /\ ToSet(x) = X
    <3>1. x \in Seq(X) /\ ToSet(x) = X
      BY <2>2, SeqOfSet
    <3> QED
      BY <2>3, <3>1, SeqWider
  <2>7. y \in Seq(Nat) /\ ToSet(y) = Y
    <3>1. y \in Seq(Y) /\ ToSet(y) = Y
      BY <2>2, SeqOfSet
    <3> QED
      BY <2>3, <3>1, SeqWider
  <2> HIDE DEF x, y
  <2>8. order \in Seq(Nat) /\ ToSet(order) = DOMAIN eips
    BY <1>1 DEF OrderInv
  <2> DEFINE z == order \o x
  <2>9. z \in Seq(Nat) /\ ToSet(z) = DOMAIN eips \union X
    BY <2>6, <2>8, SetOfConcat
  <2> HIDE DEF z
  <2>10. z \o y \in Seq(Nat) /\ ToSet(z \o y) = (DOMAIN eips \union X) \union Y
    BY <2>7, <2>9, SetOfConcat
  <2> QED
    BY <1>1, <2>4, <2>5, <2>10 DEF z
<1>9. written' = NoEips /\ DOMAIN written' = {}
  BY <1>1, NothingKnown DEF OrderInv
<1>10. phase' = "failed" => Excused'
  <2> SUFFICES ASSUME phase' = "failed" PROVE Excused'
    OBVIOUS
  <2>1. ~t.skipped /\ \E m \in ToSet(t.marks) : Failing(m)
    BY <1>1
  <2>2. t \in Counting'
    BY <1>1, <2>1 DEF Counting
  <2> QED
    BY <2>1, <2>2 DEF Excused
<1> QED
  BY <1>1, <1>7, <1>8, <1>9, <1>10 DEF OrderInv, WrittenInv

\* The directory of an EIP once all tests were looked at.
LEMMA Home ==
  ASSUME DictInv, unread = {}, NEW n \in DOMAIN eips
  PROVE  /\ n \in Concerned
         /\ eips[n].path \in (IF Homes(n) = {} THEN {None} ELSE Homes(n))
         /\ eips[n].path = None <=> Homes(n) = {}
<1>1. Dict(eips, collected)
  <2>1. collected \ unread = collected
    OBVIOUS
  <2> QED
    BY <2>1 DEF DictInv
<1>2. Homes(n) = Found(n, collected)
  BY DEF Homes, Found
<1>3. Concerned = Met(collected)
  BY DEF Concerned, Met, Counting
<1>4. None \notin Found(n, collected)
  BY FoundIsDirectory DEF DictInv
<1> QED
  BY <1>1, <1>2, <1>3, <1>4 DEF Dict, PathOf

LEMMA FilesOfDirectories == ~Malformed(NotApplicable, None) /\ ~Malformed(External, None)
<1>1. Lines(NotApplicable, None) = <<>> /\ Lines(External, None) = <<>>
  BY DirectoriesAssumption DEF Lines
<1> QED
  BY <1>1 DEF Malformed, ToSet

LEMMA GenerateKeeps ==
  ASSUME ChecklistInv, Generate
  PROVE  ChecklistInv'
<1> DEFINE n == Head(order)
           e == eips[n]
<1>1. phase = "write" /\ order # <<>> /\ UNCHANGED <<collected, requested, docs, unread, eips>>
  BY DEF Generate, call
<1>2. unread = {} /\ order \in Seq(Nat) /\ ToSet(order) \subseteq DOMAIN eips
  BY <1>1 DEF ChecklistInv, OrderInv
<1>3. /\ Tail(order) \in Seq(Nat) /\ n \in ToSet(order)
      /\ ToSet(order) = {n} \union ToSet(Tail(order))
  BY <1>1, <1>2, SetOfTail
<1>4. /\ n \in Concerned
      /\ e.path \in (IF Homes(n) = {} THEN {None} ELSE Homes(n))
      /\ e.path = None <=> Homes(n) = {}
  BY <1>2, <1>3, Home DEF ChecklistInv
<1>5. DictInv'
  BY <1>1 DEF ChecklistInv, DictInv, Dict, Typed, PathOf, TestsOf
<1>6. /\ \A m \in DOMAIN eips : AskedFor(m) => m \in DOMAIN written \/ m \in ToSet(order)
      /\ \A m \in DOMAIN written : /\ m \in DOMAIN eips /\ AskedFor(m)
                                   /\ written[m] = generate_filled_checklist_lines(eips[m])
  BY <1>1 DEF ChecklistInv, OrderInv, WrittenInv
<1>7. CASE ~AskedFor(n)
  <2>1. order' = Tail(order) /\ UNCHANGED <<written, phase>>
    BY <1>7 DEF Generate, AskedFor
  <2>2. OrderInv'
    BY <1>1, <1>2, <1>3, <1>6, <1>7, <2>1 DEF OrderInv, AskedFor
  <2>3. WrittenInv'
    BY <1>1, <1>2, <1>6, <2>1 DEF WrittenInv, AskedFor
  <2> QED
    BY <1>1, <1>5, <2>1, <2>2, <2>3 DEF ChecklistInv
<1>8. CASE AskedFor(n) /\ (docs /\ e.path = None)
  <2>1. phase' = "failed" /\ written' = NoEips /\ order' = order
    BY <1>8 DEF Generate, AskedFor
  <2>2. Excused
    BY <1>4, <1>8 DEF Excused
  <2>3. Excused'
    BY <1>1, <2>2 DEF Excused, Counting, Concerned, Homes
  <2> QED
    BY <1>1, <1>2, <1>5, <2>1, <2>3, NothingKnown DEF ChecklistInv, OrderInv, WrittenInv
<1>9. CASE /\ AskedFor(n) /\ ~(docs /\ e.path = None)
           /\ Malformed(NotApplicable, e.path) \/ Malformed(External, e.path)
  <2>1. phase' = "failed" /\ written' = (IF docs THEN NoEips ELSE written) /\ order' = order
    BY <1>9 DEF Generate, AskedFor
  <2>2. e.path \in Homes(n)
    BY <1>4, <1>9, FilesOfDirectories
  <2>3. Excused
    BY <1>4, <1>9, <2>2 DEF Excused
  <2>4. Excused'
    BY <1>1, <2>3 DEF Excused, Counting, Concerned, Homes
  <2>5. OrderInv'
    BY <1>1, <1>2, <2>1 DEF OrderInv
  <2>6. WrittenInv'
    BY <1>1, <1>2, <1>6, <2>1, NothingKnown DEF WrittenInv, AskedFor
  <2> QED
    BY <1>5, <2>1, <2>4, <2>5, <2>6 DEF ChecklistInv
<1>10. CASE /\ AskedFor(n) /\ ~(docs /\ e.path = None)
            /\ ~Malformed(NotApplicable, e.path) /\ ~Malformed(External, e.path)
  <2> DEFINE lines == generate_filled_checklist_lines(e)
  <2>1. /\ written' = [m \in DOMAIN written \union {n} |-> IF m = n THEN lines ELSE written[m]]
        /\ order' = Tail(order) /\ phase' = phase
    BY <1>10 DEF Generate, AskedFor
  <2> HIDE DEF lines
  <2>2. DOMAIN written' = DOMAIN written \union {n}
    BY <2>1
  <2>3. OrderInv'
    BY <1>1, <1>2, <1>3, <1>6, <2>1, <2>2 DEF OrderInv, AskedFor
  <2>4. \A m \in DOMAIN written' : written'[m] = generate_filled_checklist_lines(eips[m])
    BY <1>6, <2>1 DEF lines
  <2>5. WrittenInv'
    BY <1>1, <1>2, <1>3, <1>6, <1>10, <2>2, <2>4 DEF WrittenInv, AskedFor
  <2> QED
    BY <1>1, <1>5, <2>1, <2>3, <2>5 DEF ChecklistInv
<1> QED
  BY <1>7, <1>8, <1>9, <1>10

LEMMA CollectedKeeps ==
  ASSUME ChecklistInv, Collected
  PROVE  ChecklistInv'
<1>1. phase = "collect" /\ unread = {} /\ phase' = "write"
  BY DEF Collected
<1>2. UNCHANGED <<collected, requested, docs, unread, eips, order, written>>
  BY DEF Collected, call
<1>3. DictInv'
  BY <1>2 DEF ChecklistInv, DictInv, Dict, Typed, PathOf, TestsOf
<1>4. OrderInv'
  BY <1>1, <1>2 DEF ChecklistInv, OrderInv, AskedFor
<1>5. WrittenInv'
  BY <1>2 DEF ChecklistInv, WrittenInv, AskedFor
<1> QED
  BY <1>1, <1>3, <1>4, <1>5 DEF ChecklistInv

LEMMA PublishKeeps ==
  ASSUME ChecklistInv, Publish
  PROVE  ChecklistInv'
<1>1. phase = "write" /\ order = <<>> /\ phase' = "done"
  BY DEF Publish
<1>2. UNCHANGED <<collected, requested, docs, unread, eips, order, written>>
  BY DEF Publish, call
<1>3. DictInv'
  BY <1>2 DEF ChecklistInv, DictInv, Dict, Typed, PathOf, TestsOf
<1>4. OrderInv'
  BY <1>1, <1>2 DEF ChecklistInv, OrderInv, AskedFor
<1>5. WrittenInv'
  BY <1>2 DEF ChecklistInv, WrittenInv, AskedFor
<1> QED
  BY <1>1, <1>3, <1>4, <1>5 DEF ChecklistInv

LEMMA ChecklistStep == ChecklistInv /\ [ChecklistNext]_checklistVars => ChecklistInv'
<1> SUFFICES ASSUME ChecklistInv, [ChecklistNext]_checklistVars PROVE ChecklistInv'
  OBVIOUS
<1>1. CASE \E t \in collected : CollectItem(t)
  BY <1>1, CollectKeeps
<1>2. CASE Collected
  BY <1>2, CollectedKeeps
<1>3. CASE Generate
  BY <1>3, GenerateKeeps
<1>4. CASE Publish
  BY <1>4, PublishKeeps
<1>5. CASE UNCHANGED checklistVars
  <2>1. UNCHANGED <<collected, requested, docs, unread, eips, order, written, phase>>
    BY <1>5 DEF checklistVars, call
  <2>2. DictInv'
    BY <2>1 DEF ChecklistInv, DictInv, Dict, Typed, PathOf, TestsOf
  <2>3. OrderInv' /\ WrittenInv'
    BY <2>1 DEF ChecklistInv, OrderInv, WrittenInv, AskedFor
  <2>4. phase' = "failed" => Excused'
    BY <2>1 DEF ChecklistInv, Excused, Counting, Concerned, Homes
  <2> QED
    BY <2>1, <2>2, <2>3, <2>4 DEF ChecklistInv
<1> QED
  BY <1>1, <1>2, <1>3, <1>4, <1>5 DEF ChecklistNext

\* The dictionary holds, after any of the tests, just the EIPs they make known, each
\* with the directory of one of its tests and the items they cover for it, in
\* whatever order they were looked at (collect_from_item, get_eip_from_item).
THEOREM ChecklistInvariance == ChecklistSpec => []ChecklistInv
<1> QED
  BY InitChecklist, ChecklistStep, PTL DEF ChecklistSpec

\* pytest_collection_modifyitems: the session ends with a checklist for just the EIPs
\* the tests concern that were asked for, or fails for a reason in its input.
THEOREM EipsReported == ChecklistSpec => []EveryEipReported
<1>1. ChecklistInv => EveryEipReported
  <2> SUFFICES ASSUME ChecklistInv PROVE EveryEipReported
    OBVIOUS
  <2>1. phase = "failed" => Excused
    BY DEF ChecklistInv
  <2>2. ASSUME phase = "done"
        PROVE  DOMAIN written = {n \in Concerned : requested = {} \/ n \in requested}
    <3>1. unread = {} /\ ToSet(order) = {}
      BY <2>2 DEF ChecklistInv, OrderInv, ToSet
    <3>2. Dict(eips, collected)
      <4>1. collected \ unread = collected
        BY <3>1
      <4> QED
        BY <4>1 DEF ChecklistInv, DictInv
    <3>3. DOMAIN eips = Concerned
      BY <3>2 DEF Dict, Concerned, Met, Counting
    <3>4. \A n \in DOMAIN eips : AskedFor(n) => n \in DOMAIN written
      BY <2>2, <3>1 DEF ChecklistInv, OrderInv
    <3>5. \A n \in DOMAIN written : n \in DOMAIN eips /\ AskedFor(n)
      BY DEF ChecklistInv, WrittenInv
    <3> QED
      BY <3>3, <3>4, <3>5 DEF AskedFor
  <2> QED
    BY <2>1, <2>2 DEF EveryEipReported, Excused
<1> QED
  BY <1>1, ChecklistInvariance, PTL

------------------------------------------------------------------------------
(* What is written.                                                           *)

\* mark_not_applicable, mark_external_coverage
LEMMA ReasonIsLast ==
  ASSUME NEW file, NEW d, NEW p \in Template
  PROVE  Reason(file, d, p) = LastSaid(file, d, p)
<1> DEFINE lines == Lines(file, d)
           said == {i \in DOMAIN lines : p \in resolve_id(lines[i].id)}
<1>1. Reason(file, d, p) = IF said = {} THEN "" ELSE lines[Max(said)].reason
  BY DEF Reason
<1>2. CASE d \in DOMAIN file
  <2>1. lines = file[d]
    BY <1>2 DEF Lines
  <2>2. \A i \in DOMAIN lines : p \in resolve_id(lines[i].id) <=> IsPrefix(lines[i].id, p)
    BY DEF resolve_id, Within
  <2>3. said = Said(file, d, p)
    BY <1>2, <2>1, <2>2 DEF Said
  <2> HIDE DEF said, lines
  <2> QED
    BY <1>1, <2>1, <2>3 DEF LastSaid
<1>3. CASE d \notin DOMAIN file
  <2>1. lines = <<>>
    BY <1>3 DEF Lines
  <2>2. said = {}
    BY <2>1
  <2>3. Said(file, d, p) = {}
    BY <1>3 DEF Said
  <2> HIDE DEF said, lines
  <2> QED
    BY <1>1, <2>2, <2>3 DEF LastSaid
<1> QED
  BY <1>2, <1>3

\* The tests of an item are those of the collection that are marked for it.
LEMMA TestsAreMarked ==
  ASSUME DictInv, unread = {}, NEW n \in DOMAIN eips, NEW p \in Template
  PROVE  {x[2] : x \in {x \in eips[n].tests : x[1] = p}} = {t.node : t \in Marked(n, p)}
<1> DEFINE tests == eips[n].tests
           left == {x[2] : x \in {x \in tests : x[1] = p}}
           right == {t.node : t \in Marked(n, p)}
<1>1. Dict(eips, collected)
  <2>1. collected \ unread = collected
    OBVIOUS
  <2> QED
    BY <2>1 DEF DictInv
<1>2. tests \subseteq Template \X {t.node : t \in collected}
  BY <1>1 DEF Dict, Typed, Eip
<1>3. \A v : <<p, v>> \in tests <=> \E t \in collected : t.node = v /\ ~t.skipped /\ Covers(t, n, p)
  BY <1>1 DEF Dict, TestsOf
<1>4. ASSUME NEW t \in collected, ~t.skipped
      PROVE  Covers(t, n, p) <=> t \in Marked(n, p)
  BY <1>4 DEF Covers, Marked, Counting, resolve_id, Within
<1>5. Marked(n, p) \subseteq {t \in collected : ~t.skipped}
  BY DEF Marked, Counting
<1>6. \A v : v \in right <=> <<p, v>> \in tests
  <2> SUFFICES ASSUME NEW v PROVE v \in right <=> <<p, v>> \in tests
    OBVIOUS
  <2>1. v \in right <=> \E t \in Marked(n, p) : t.node = v
    OBVIOUS
  <2> QED
    BY <1>3, <1>4, <1>5, <2>1
<1> HIDE DEF tests
<1>7. \A v : v \in left <=> <<p, v>> \in tests
  <2> SUFFICES ASSUME NEW v PROVE v \in left <=> <<p, v>> \in tests
    OBVIOUS
  <2>1. ASSUME v \in left PROVE <<p, v>> \in tests
    <3>1. PICK x \in tests : x[1] = p /\ x[2] = v
      BY <2>1
    <3>2. x = <<p, v>>
      BY <1>2, <3>1
    <3> QED
      BY <3>1, <3>2
  <2>2. ASSUME <<p, v>> \in tests PROVE v \in left
    <3>1. <<p, v>>[1] = p /\ <<p, v>>[2] = v
      OBVIOUS
    <3> QED
      BY <2>2, <3>1
  <2> QED
    BY <2>1, <2>2
<1> HIDE DEF left, right
<1>8. left = right
  BY <1>6, <1>7
<1> QED
  BY <1>8 DEF left, right, tests

\* EIPItem, Line
LEMMA LineIsTrue ==
  ASSUME DictInv, unread = {}, NEW n \in DOMAIN eips, NEW p \in Template, NEW d
  PROVE  LET item == EIPItem(eips[n].tests, d, p)
             truth == Signs(n, d, p)
         IN  /\ Line(item).tests = truth.tests
             /\ Line(item).sign = "yes" <=> truth.yes
             /\ Line(item).sign = "N/A" <=> truth.na
             /\ applicable(item) <=> LastSaid(NotApplicable, d, p) = ""
             /\ applicable(item) /\ covered(item)
                  <=> LastSaid(NotApplicable, d, p) = "" /\ truth.yes
<1> DEFINE item == EIPItem(eips[n].tests, d, p)
           tests == {t.node : t \in Marked(n, p)}
           out == LastSaid(External, d, p)
           not == LastSaid(NotApplicable, d, p)
           truth == Signs(n, d, p)
<1>1. item.tests = tests /\ item.not_applicable = not /\ item.external = out
  BY TestsAreMarked, ReasonIsLast DEF EIPItem
<1>2. /\ truth.yes <=> out # "" \/ (tests # {} /\ not = "")
      /\ truth.na <=> not # "" /\ out = "" /\ tests = {}
      /\ truth.tests = IF out = "" THEN tests ELSE {}
  BY DEF Signs
<1>3. /\ applicable(item) <=> not = ""
      /\ covered(item) <=> tests # {} \/ out # ""
  BY <1>1 DEF applicable, covered
<1> HIDE DEF item, tests, out, not, truth
<1>4. CASE out # ""
  <2>1. Line(item).sign = "yes" /\ Line(item).tests = {}
    BY <1>1, <1>4 DEF Line
  <2> QED
    BY <1>2, <1>3, <1>4, <2>1 DEF item, truth, not
<1>5. CASE out = "" /\ tests # {}
  <2>1. /\ Line(item).sign = IF not = "" THEN "yes" ELSE "doubtful"
        /\ Line(item).tests = tests
    BY <1>1, <1>3, <1>5 DEF Line
  <2> QED
    BY <1>2, <1>3, <1>5, <2>1 DEF item, truth, not
<1>6. CASE out = "" /\ tests = {}
  <2>1. /\ Line(item).sign = IF not = "" THEN "no" ELSE "N/A"
        /\ Line(item).tests = {}
    BY <1>1, <1>3, <1>6 DEF Line
  <2> QED
    BY <1>2, <1>3, <1>6, <2>1 DEF item, truth, not
<1> QED
  BY <1>4, <1>5, <1>6

\* generate_filled_checklist_lines: whatever the order of the tests, the sign of each
\* item, the tests beside it and the totals are those that the whole collection and
\* the files of one of its directories give.
THEOREM ChecklistsTrue == ChecklistSpec => []ChecklistIsTrue
<1>1. ChecklistInv => ChecklistIsTrue
  <2> SUFFICES ASSUME ChecklistInv, NEW n \in DOMAIN written
               PROVE  \E d \in IF Homes(n) = {} THEN {None} ELSE Homes(n) :
                        /\ \A p \in Template :
                             LET line == written[n].lines[p]  truth == Signs(n, d, p) IN
                             /\ line.tests = truth.tests
                             /\ (line.sign = "yes") = truth.yes /\ (line.sign = "N/A") = truth.na
                        /\ written[n].total =
                             Cardinality({p \in Template : LastSaid(NotApplicable, d, p) = ""})
                        /\ written[n].covered =
                             Cardinality({p \in Template : LastSaid(NotApplicable, d, p) = ""
                                                             /\ Signs(n, d, p).yes})
    BY DEF ChecklistIsTrue
  <2>1. DictInv /\ unread = {} /\ n \in DOMAIN eips
    BY DEF ChecklistInv, WrittenInv
  <2> DEFINE d == eips[n].path
             item(p) == EIPItem(eips[n].tests, d, p)
  <2>2. d \in IF Homes(n) = {} THEN {None} ELSE Homes(n)
    BY <2>1, Home
  <2>3. /\ written[n].lines = [p \in Template |-> Line(item(p))]
        /\ written[n].total = Cardinality({p \in Template : applicable(item(p))})
        /\ written[n].covered =
             Cardinality({p \in Template : applicable(item(p)) /\ covered(item(p))})
    <3>1. written[n] = generate_filled_checklist_lines(eips[n])
      BY DEF ChecklistInv, WrittenInv
    <3> DEFINE filled == [p \in Template |-> EIPItem(eips[n].tests, eips[n].path, p)]
    <3>2. \A p \in Template : filled[p] = item(p)
      OBVIOUS
    <3>3. written[n] = Checklist(filled)
      BY <3>1 DEF generate_filled_checklist_lines
    <3> HIDE DEF filled, item, d
    <3>4. /\ written[n].lines = [p \in Template |-> Line(filled[p])]
          /\ written[n].total = Cardinality({p \in Template : applicable(filled[p])})
          /\ written[n].covered =
               Cardinality({p \in Template : applicable(filled[p]) /\ covered(filled[p])})
      BY <3>3 DEF Checklist
    <3>5. {p \in Template : applicable(filled[p])} = {p \in Template : applicable(item(p))}
      BY <3>2
    <3>6. {p \in Template : applicable(filled[p]) /\ covered(filled[p])}
            = {p \in Template : applicable(item(p)) /\ covered(item(p))}
      BY <3>2
    <3>7. [p \in Template |-> Line(filled[p])] = [p \in Template |-> Line(item(p))]
      BY <3>2
    <3> QED
      BY <3>4, <3>5, <3>6, <3>7
  <2>4. \A p \in Template :
          /\ Line(item(p)).tests = Signs(n, d, p).tests
          /\ Line(item(p)).sign = "yes" <=> Signs(n, d, p).yes
          /\ Line(item(p)).sign = "N/A" <=> Signs(n, d, p).na
          /\ applicable(item(p)) <=> LastSaid(NotApplicable, d, p) = ""
          /\ applicable(item(p)) /\ covered(item(p))
               <=> LastSaid(NotApplicable, d, p) = "" /\ Signs(n, d, p).yes
    BY <2>1, LineIsTrue
  <2>5. \A p \in Template : Signs(n, d, p).yes \in BOOLEAN /\ Signs(n, d, p).na \in BOOLEAN
    BY DEF Signs
  <2> HIDE DEF d, item
  <2>6. \A p \in Template :
          /\ written[n].lines[p].tests = Signs(n, d, p).tests
          /\ (written[n].lines[p].sign = "yes") = Signs(n, d, p).yes
          /\ (written[n].lines[p].sign = "N/A") = Signs(n, d, p).na
    <3> SUFFICES ASSUME NEW p \in Template
                 PROVE  /\ written[n].lines[p].tests = Signs(n, d, p).tests
                        /\ (written[n].lines[p].sign = "yes") = Signs(n, d, p).yes
                        /\ (written[n].lines[p].sign = "N/A") = Signs(n, d, p).na
      OBVIOUS
    <3>1. written[n].lines[p] = Line(item(p))
      BY <2>3
    <3> QED
      BY <2>4, <2>5, <3>1
  <2>7. {p \in Template : applicable(item(p))}
          = {p \in Template : LastSaid(NotApplicable, d, p) = ""}
    BY <2>4
  <2>8. {p \in Template : applicable(item(p)) /\ covered(item(p))}
          = {p \in Template : LastSaid(NotApplicable, d, p) = "" /\ Signs(n, d, p).yes}
    BY <2>4
  <2> QED
    BY <2>2, <2>3, <2>6, <2>7, <2>8
<1> QED
  BY <1>1, ChecklistInvariance, PTL

==============================================================================
