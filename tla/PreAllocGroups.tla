---------------------------- MODULE PreAllocGroups ---------------------------
(* Filling in two phases: every worker of phase 1 collects the pre-allocations*)
(* of its tests in groups and merges them into one file per group when its    *)
(* session ends (src/ethereum_test_specs/base.py, pre_alloc_groups.py); in    *)
(* phase 2 every test takes the file of its group as its pre-allocation       *)
(* (src/pytest_plugins/filler/filler.py).                                     *)
(*                                                                            *)
(* An account is a function from fields to numbers, 0 being the default.  The *)
(* accounts of a test leave fields unset; the others are full.                *)
EXTENDS Integers, FiniteSets

CONSTANTS Workers,          \* the processes of pytest-xdist
          Tests,            \* the tests selected
          Groups,           \* the hashes of fork, environment and marker
          Addresses,
          Fields,           \* of an account
          Values,           \* of a field: 0 and others
          Pres,             \* the pre-allocations of the tests tried
          ForkPre,          \* the accounts that the fork itself pre-allocates
          MaxFaults         \* bound: writes that fail

Default == [f \in Fields |-> 0]
Account == [Fields -> Values]
Partial == UNION {[F -> Values] : F \in SUBSET Fields}
Alloc(accounts) == UNION {[A -> accounts] : A \in SUBSET Addresses}

ASSUME GroupingAssumption ==
  /\ IsFiniteSet(Tests) /\ Workers # {} /\ 0 \in Values /\ MaxFaults \in Nat
  /\ Pres \subseteq Alloc(Partial) /\ ForkPre \in Alloc(Account \ {Default})

VARIABLES group, pre,       \* of each test: its hash, its pre-allocation
          phase,            \* "grouping", "filling" or "stopped"
          todo,             \* tests that no worker has taken
          failed,           \* a test of phase 1 failed
          mem,              \* each worker's groups
          pc,               \* each worker: "tests", "saving", "done" or "raised"
          file,             \* the group files: a group, or Torn
          marker,           \* the groups with a .fail file
          faults,           \* writes that failed
          result            \* of each test in phase 2

vars == <<group, pre, phase, todo, failed, mem, pc, file, marker, faults, result>>
input == <<group, pre>>

Nothing == [x \in {} |-> x]
Torn == [torn |-> TRUE]     \* a file that was opened for writing, and no more
Group(ids, count, alloc) == [testIds |-> ids, count |-> count, pre |-> alloc]

Init == /\ group \in [Tests -> Groups] /\ pre \in [Tests -> Pres]
        /\ phase = "grouping"
        /\ todo = Tests
        /\ failed = FALSE
        /\ mem = [w \in Workers |-> Nothing]
        /\ pc = [w \in Workers |-> "tests"]
        /\ file = Nothing
        /\ marker = {}
        /\ faults = 0
        /\ result = [t \in Tests |-> "none"]

------------------------------------------------------------------------------
(* Accounts and allocations.                                                  *)

FillUnset(account) == account     \* mutant: the defaults are left out

\* What an account object holds: the fields set, and the defaults.
Fill(account) == [f \in Fields |-> IF f \in DOMAIN account THEN account[f] ELSE 0]

\* Account.merge: the fields set in the second override the first.
Overlay(base, account) ==
  [f \in Fields |-> IF f \in DOMAIN account THEN account[f] ELSE base[f]]

AccountOf(alloc, a) == IF a \in DOMAIN alloc THEN alloc[a] ELSE Default

\* Alloc.merge: an account that the merge leaves empty is dropped.
AllocMerge(base, alloc) ==
  LET merged == [a \in DOMAIN base \union DOMAIN alloc |->
                   IF a \in DOMAIN alloc THEN Overlay(AccountOf(base, a), alloc[a])
                                         ELSE base[a]]
  IN [a \in {b \in DOMAIN merged : b \in DOMAIN alloc => merged[b] # Default} |-> merged[a]]

\* Two allocations differ at an address that both have.
Clash(base, alloc) == \E a \in DOMAIN base \intersect DOMAIN alloc : base[a] # alloc[a]

Filled(alloc) == [a \in DOMAIN alloc |-> Fill(alloc[a])]

\* The accounts of both.
Both(new, previous) == [a \in DOMAIN new \union DOMAIN previous |->
                          IF a \in DOMAIN new THEN new[a] ELSE previous[a]]

Put(f, x, value) == [y \in DOMAIN f \union {x} |-> IF y = x THEN value ELSE f[y]]

------------------------------------------------------------------------------
(* Phase 1.                                                                   *)

\* Mutant: the accounts are merged without looking for a collision.
UpdateUnchecked(w, t) ==
  LET h == group[t]
      g == mem[w][h]
  IN IF h \notin DOMAIN mem[w]
     THEN /\ mem' = [mem EXCEPT ![w] = Put(@, h, Group({t}, 1, AllocMerge(ForkPre, pre[t])))]
          /\ UNCHANGED failed
     ELSE /\ mem' = [mem EXCEPT ![w] = Put(@, h, Group(g.testIds \union {t}, g.count + 1,
                                                       AllocMerge(g.pre, pre[t])))]
          /\ UNCHANGED failed

\* update_pre_alloc_groups.
Update(w, t) ==
  LET h == group[t]
      g == mem[w][h]
  IN IF h \notin DOMAIN mem[w]
     THEN /\ mem' = [mem EXCEPT ![w] = Put(@, h, Group({t}, 1, AllocMerge(ForkPre, pre[t])))]
          /\ UNCHANGED failed
     ELSE IF Clash(g.pre, Filled(pre[t]))
     THEN failed' = TRUE /\ UNCHANGED mem
     ELSE /\ mem' = [mem EXCEPT ![w] = Put(@, h, Group(g.testIds \union {t}, g.count + 1,
                                                       AllocMerge(g.pre, pre[t])))]
          /\ UNCHANGED failed

\* A worker takes a test and adds it to its groups.
RunTest(w) ==
  /\ pc[w] = "tests"
  /\ \E t \in todo : todo' = todo \ {t} /\ Update(w, t)
  /\ UNCHANGED <<input, phase, pc, file, marker, faults, result>>

\* pytest_sessionfinish of a worker.
Finish(w) ==
  /\ pc[w] = "tests" /\ todo = {}
  /\ pc' = [pc EXCEPT ![w] = IF DOMAIN mem[w] = {} THEN "done" ELSE "saving"]
  /\ UNCHANGED <<input, phase, todo, failed, mem, file, marker, faults, result>>

Drop(w, h) == [g \in DOMAIN mem[w] \ {h} |-> mem[w][g]]

\* The worker is done with one of its groups.
Saved(w, h) ==
  /\ mem' = [mem EXCEPT ![w] = Drop(w, h)]
  /\ pc' = [pc EXCEPT ![w] = IF DOMAIN mem[w] = {h} THEN "done" ELSE "saving"]

\* The exception ends to_folder: the groups left are not saved, and nobody is told.
Raised(w) == /\ mem' = [mem EXCEPT ![w] = Nothing]
             /\ pc' = [pc EXCEPT ![w] = "raised"]

\* to_file when no file is there.
SaveFirst(w, h) ==
  /\ h \notin DOMAIN file
  /\ file' = Put(file, h, mem[w][h])
  /\ Saved(w, h)
  /\ UNCHANGED marker

\* to_file when the groups agree: the accounts and the tests of the file are taken over.
SaveMerged(w, h) ==
  /\ h \in DOMAIN file /\ file[h] # Torn /\ ~Clash(mem[w][h].pre, file[h].pre)
  /\ file' = Put(file, h,
       Group(mem[w][h].testIds \union file[h].testIds, mem[w][h].count + file[h].count,
             Both(mem[w][h].pre, file[h].pre)))
  /\ Saved(w, h)
  /\ UNCHANGED marker

\* Mutant: the collision is raised and not signalled.
SaveClashSilent(w, h) ==
  /\ h \in DOMAIN file /\ file[h] # Torn /\ Clash(mem[w][h].pre, file[h].pre)
  /\ Raised(w)
  /\ UNCHANGED <<file, marker>>

\* to_file when they do not: a file signals it, since the exception is not reported.
SaveClash(w, h) ==
  /\ h \in DOMAIN file /\ file[h] # Torn /\ Clash(mem[w][h].pre, file[h].pre)
  /\ marker' = marker \union {h}
  /\ Raised(w)
  /\ UNCHANGED file

\* to_file when the file of the group cannot be parsed.
SaveTorn(w, h) ==
  /\ h \in DOMAIN file /\ file[h] = Torn
  /\ Raised(w)
  /\ UNCHANGED <<file, marker>>

\* One group, under the lock of its file.
Save(w) ==
  /\ pc[w] = "saving"
  /\ \E h \in DOMAIN mem[w] :
       SaveFirst(w, h) \/ SaveMerged(w, h) \/ SaveClash(w, h) \/ SaveTorn(w, h)
  /\ UNCHANGED <<input, phase, todo, failed, faults, result>>

\* The write fails, or the worker is killed in it, once the file was truncated.
SaveFails(w) ==
  /\ pc[w] = "saving" /\ faults < MaxFaults
  /\ \E h \in DOMAIN mem[w] : \/ file' = Put(file, h, Torn)
                              \/ UNCHANGED file
  /\ faults' = faults + 1
  /\ Raised(w)
  /\ UNCHANGED <<input, phase, todo, failed, marker, result>>

------------------------------------------------------------------------------
(* Phase 2.                                                                   *)

\* run_multiple goes on only if phase 1 succeeded; from_folder raises the collisions.
StartPhase2 ==
  /\ phase = "grouping" /\ \A w \in Workers : pc[w] \in {"done", "raised"}
  /\ phase' = IF failed \/ marker # {} THEN "stopped" ELSE "filling"
  /\ UNCHANGED <<input, todo, failed, mem, pc, file, marker, faults, result>>

\* A test takes its group for its pre-allocation, whatever worker runs it.
FillTest ==
  /\ phase = "filling"
  /\ \E t \in Tests :
       /\ result[t] = "none"
       /\ result' = [result EXCEPT ![t] =
            IF group[t] \in DOMAIN file /\ file[group[t]] # Torn THEN "filled" ELSE "error"]
  /\ UNCHANGED <<input, phase, todo, failed, mem, pc, file, marker, faults>>

Next == \/ \E w \in Workers : RunTest(w) \/ Finish(w) \/ Save(w) \/ SaveFails(w)
        \/ StartPhase2 \/ FillTest

Spec == Init /\ [][Next]_vars

------------------------------------------------------------------------------
(* Properties.                                                                *)

GroupOf(alloc) == [testIds : SUBSET Tests, count : Nat, pre : alloc]

TypeOK ==
  /\ group \in [Tests -> Groups] /\ pre \in [Tests -> Pres]
  /\ phase \in {"grouping", "filling", "stopped"}
  /\ todo \subseteq Tests
  /\ failed \in BOOLEAN
  /\ DOMAIN mem = Workers
  /\ \A w \in Workers : /\ DOMAIN mem[w] \subseteq Groups
                        /\ \A h \in DOMAIN mem[w] : mem[w][h] \in GroupOf(Alloc(Account))
                        /\ pc[w] \in {"done", "raised"} => DOMAIN mem[w] = {}
  /\ pc \in [Workers -> {"tests", "saving", "done", "raised"}]
  /\ DOMAIN file \subseteq Groups
  /\ \A h \in DOMAIN file : file[h] = Torn \/ file[h] \in GroupOf(Alloc(Account))
  /\ marker \subseteq Groups
  /\ faults \in 0..MaxFaults
  /\ result \in [Tests -> {"none", "filled", "error"}]

InFile(t) ==
  /\ group[t] \in DOMAIN file /\ file[group[t]] # Torn
  /\ t \in file[group[t]].testIds

InMemory(w, t) == group[t] \in DOMAIN mem[w] /\ t \in mem[w][group[t]].testIds

\* The fields that a test sets in its own accounts are in the allocation.  (An account that
\* it leaves empty is dropped by the merge, and another test may define it.)
Holds(alloc, own) ==
  \A a \in DOMAIN own : Fill(own[a]) # Default =>
    /\ a \in DOMAIN alloc
    /\ \A f \in DOMAIN own[a] : alloc[a][f] = own[a][f]

\* Whatever worker took it and in whatever order, a test that is listed in the group it is
\* filled with finds its own accounts there.
OwnKept ==
  \A t \in Tests : result[t] = "filled" /\ InFile(t) => Holds(file[group[t]].pre, pre[t])

\* No test is lost between the phases: when the second starts, and no write failed, each is
\* listed in the file of its group.  A worker that raised left a marker that stops it.
Complete == phase = "filling" /\ faults = 0 => \A t \in Tests : InFile(t)

\* A test is listed once: test_count is the number of tests, for all that is merged.
CountRight == \A h \in DOMAIN file : file[h] # Torn => file[h].count = Cardinality(file[h].testIds)

\* Tests that agree on every address never collide, as long as none names an account of the
\* fork.
Agree == \A t, u \in Tests :
  group[t] = group[u] =>
    /\ DOMAIN pre[t] \intersect DOMAIN ForkPre = {}
    /\ ~Clash(Filled(pre[t]), Filled(pre[u]))
NoFalseAlarm == Agree => phase # "stopped"

\* "This test can share the pre-allocation with test_custom_consolidation_contract since
\* they both use the same custom contract setup": equal allocations never collide.
SharedSetup ==
  phase = "stopped" => \E t, u \in Tests : group[t] = group[u] /\ pre[t] # pre[u]
==============================================================================
