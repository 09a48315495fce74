------------------------ MODULE PreAllocGroups_proofs ------------------------
(* Theorems about PreAllocGroups, for any number of workers and tests, any    *)
(* grouping and any pre-allocations.                                          *)
EXTENDS PreAllocGroups, FiniteSetTheorems, TLAPS

------------------------------------------------------------------------------
(* The operators on allocations.                                              *)

LEMMA AllocType ==
  ASSUME NEW S, NEW x
  PROVE  x \in Alloc(S) <=> /\ DOMAIN x \subseteq Addresses
                            /\ x \in [DOMAIN x -> S]
  BY DEF Alloc

LEMMA DefaultType == Default \in Account
  BY GroupingAssumption DEF Default, Account

LEMMA PartialType ==
  ASSUME NEW x
  PROVE  x \in Partial <=> /\ DOMAIN x \subseteq Fields
                           /\ x \in [DOMAIN x -> Values]
  BY DEF Partial

LEMMA OverlayType ==
  ASSUME NEW base \in Account, NEW account \in Partial
  PROVE  /\ Overlay(base, account) \in Account
         /\ \A f \in DOMAIN account : Overlay(base, account)[f] = account[f]
  BY PartialType DEF Overlay, Account

\* Merging keeps the types of the accounts.
LEMMA MergeType ==
  ASSUME NEW base \in Alloc(Account), NEW own \in Alloc(Partial)
  PROVE  AllocMerge(base, own) \in Alloc(Account)
<1> DEFINE acc(a) == IF a \in DOMAIN own THEN Overlay(AccountOf(base, a), own[a])
                                         ELSE base[a]
           dom == DOMAIN base \union DOMAIN own
           merged == [a \in dom |-> acc(a)]
           kept == {b \in dom : b \in DOMAIN own => merged[b] # Default}
<1>1. AllocMerge(base, own) = [a \in kept |-> merged[a]]
  BY DEF AllocMerge
<1>2. ASSUME NEW a \in dom PROVE acc(a) \in Account
  <2>1. CASE a \in DOMAIN own
    <3>1. own[a] \in Partial /\ AccountOf(base, a) \in Account
      BY <2>1, AllocType, DefaultType DEF AccountOf
    <3> QED
      BY <2>1, <3>1, OverlayType
  <2>2. CASE a \notin DOMAIN own
    BY <1>2, <2>2, AllocType
  <2> QED
    BY <2>1, <2>2
<1>3. dom \subseteq Addresses
  BY AllocType
<1> HIDE DEF acc, dom
<1>4. [a \in kept |-> merged[a]] \in [kept -> Account] /\ kept \subseteq Addresses
  BY <1>2, <1>3
<1> QED
  BY <1>1, <1>4 DEF Alloc

\* What the second allocation sets is in the result.
LEMMA MergeHoldsNew ==
  ASSUME NEW base \in Alloc(Account), NEW own \in Alloc(Partial)
  PROVE  Holds(AllocMerge(base, own), own)
<1> SUFFICES ASSUME NEW a \in DOMAIN own, Fill(own[a]) # Default
             PROVE  /\ a \in DOMAIN AllocMerge(base, own)
                    /\ \A f \in DOMAIN own[a] : AllocMerge(base, own)[a][f] = own[a][f]
  BY DEF Holds
<1> DEFINE over == Overlay(AccountOf(base, a), own[a])
<1>1. own[a] \in Partial /\ AccountOf(base, a) \in Account
  BY AllocType, DefaultType DEF AccountOf
<1>2. over \in Account /\ \A f \in DOMAIN own[a] : over[f] = own[a][f]
  BY <1>1, OverlayType
<1>3. over # Default
  <2>1. PICK f \in Fields : Fill(own[a])[f] # 0
    BY DEF Fill, Default
  <2>2. f \in DOMAIN own[a] /\ own[a][f] # 0
    BY <2>1 DEF Fill
  <2>3. over[f] # 0
    BY <1>2, <2>2
  <2> QED
    BY <2>1, <2>3 DEF Default
<1>4. a \in DOMAIN AllocMerge(base, own) /\ AllocMerge(base, own)[a] = over
  BY <1>3 DEF AllocMerge
<1> QED
  BY <1>2, <1>4

\* What another test set before is still there, if the two do not clash.
LEMMA MergeKeepsOld ==
  ASSUME NEW base \in Alloc(Account), NEW own \in Alloc(Partial),
         NEW old \in Alloc(Partial), Holds(base, old), ~Clash(base, Filled(own))
  PROVE  Holds(AllocMerge(base, own), old)
<1> SUFFICES ASSUME NEW a \in DOMAIN old, Fill(old[a]) # Default
             PROVE  /\ a \in DOMAIN AllocMerge(base, own)
                    /\ \A f \in DOMAIN old[a] : AllocMerge(base, own)[a][f] = old[a][f]
  BY DEF Holds
<1>1. a \in DOMAIN base /\ \A f \in DOMAIN old[a] : base[a][f] = old[a][f]
  BY DEF Holds
<1>2. base[a] \in Account /\ old[a] \in Partial
  BY <1>1, AllocType
<1>3. CASE a \notin DOMAIN own
  <2>1. a \in DOMAIN AllocMerge(base, own) /\ AllocMerge(base, own)[a] = base[a]
    BY <1>1, <1>3 DEF AllocMerge
  <2> QED
    BY <1>1, <2>1
<1>4. CASE a \in DOMAIN own
  <2>1. base[a] = Fill(own[a])
    BY <1>1, <1>4 DEF Clash, Filled
  <2>2. Overlay(base[a], own[a]) = base[a]
    BY <1>2, <2>1 DEF Overlay, Account, Fill
  <2>3. base[a] # Default
    <3>1. PICK f \in Fields : Fill(old[a])[f] # 0
      BY DEF Fill, Default
    <3>2. f \in DOMAIN old[a] /\ old[a][f] # 0
      BY <3>1 DEF Fill
    <3> QED
      BY <1>1, <3>1, <3>2 DEF Default
  <2>4. AccountOf(base, a) = base[a]
    BY <1>1 DEF AccountOf
  <2>5. a \in DOMAIN AllocMerge(base, own) /\ AllocMerge(base, own)[a] = base[a]
    BY <1>1, <1>4, <2>2, <2>3, <2>4 DEF AllocMerge
  <2> QED
    BY <1>1, <2>5
<1> QED
  BY <1>3, <1>4

LEMMA BothType ==
  ASSUME NEW new \in Alloc(Account), NEW previous \in Alloc(Account)
  PROVE  Both(new, previous) \in Alloc(Account)
<1> DEFINE dom == DOMAIN new \union DOMAIN previous
           acc(a) == IF a \in DOMAIN new THEN new[a] ELSE previous[a]
<1>1. dom \subseteq Addresses /\ \A a \in dom : acc(a) \in Account
  BY AllocType
<1>2. Both(new, previous) = [a \in dom |-> acc(a)]
  BY DEF Both
<1> HIDE DEF dom, acc
<1>3. [a \in dom |-> acc(a)] \in [dom -> Account]
  BY <1>1
<1> QED
  BY <1>1, <1>2, <1>3 DEF Alloc

\* What either of two groups that do not clash holds, both together hold.
LEMMA BothHold ==
  ASSUME NEW new \in Alloc(Account), NEW previous \in Alloc(Account),
         NEW own, ~Clash(new, previous), Holds(new, own) \/ Holds(previous, own)
  PROVE  Holds(Both(new, previous), own)
  BY DEF Holds, Both, Clash
------------------------------------------------------------------------------
(* The inductive invariant.                                                   *)

\* A group counts the tests it lists, and holds what each of them sets.
Kept(g, h) == /\ g.count = Cardinality(g.testIds)
              /\ \A t \in g.testIds : group[t] = h /\ Holds(g.pre, pre[t])

MemInv == \A w \in Workers : \A h \in DOMAIN mem[w] : Kept(mem[w][h], h)

FileInv == \A h \in DOMAIN file : /\ file[h] = Torn => faults > 0
                                  /\ file[h] # Torn => Kept(file[h], h)

\* A test is in one place.
Once == \A t \in Tests :
  /\ t \in todo => ~InFile(t) /\ \A w \in Workers : ~InMemory(w, t)
  /\ \A w \in Workers : InMemory(w, t) =>
       ~InFile(t) /\ \A v \in Workers \ {w} : ~InMemory(v, t)

\* A test is somewhere, unless something went wrong that the second phase is told of.
Somewhere == failed \/ marker # {} \/ faults > 0 \/
  \A t \in Tests : t \in todo \/ InFile(t) \/ \E w \in Workers : InMemory(w, t)

PhaseInv == /\ \A w \in Workers : pc[w] # "tests" => todo = {}
            /\ phase # "grouping" => \A w \in Workers : pc[w] \in {"done", "raised"}
            /\ phase = "filling" => ~failed /\ marker = {}

IInv == TypeOK /\ MemInv /\ FileInv /\ Once /\ Somewhere /\ PhaseInv

LEMMA GroupNotTorn ==
  ASSUME NEW S, NEW g \in GroupOf(S)
  PROVE  g # Torn
<1>1. DOMAIN g = {"testIds", "count", "pre"}
  BY DEF GroupOf
<1>2. DOMAIN Torn = {"torn"}
  BY DEF Torn
<1> QED
  BY <1>1, <1>2

LEMMA GroupType ==
  ASSUME NEW S, NEW ids \in SUBSET Tests, NEW n \in Nat, NEW alloc \in S
  PROVE  /\ Group(ids, n, alloc) \in GroupOf(S)
         /\ Group(ids, n, alloc).testIds = ids
         /\ Group(ids, n, alloc).count = n
         /\ Group(ids, n, alloc).pre = alloc
  BY DEF Group, GroupOf

LEMMA GroupParts ==
  ASSUME NEW S, NEW g \in GroupOf(S)
  PROVE  /\ g.testIds \in SUBSET Tests /\ g.count \in Nat /\ g.pre \in S
         /\ IsFiniteSet(g.testIds) /\ Cardinality(g.testIds) \in Nat
<1>1. g.testIds \in SUBSET Tests /\ g.count \in Nat /\ g.pre \in S
  BY DEF GroupOf
<1> QED
  BY <1>1, FS_Subset, FS_CardinalityType, GroupingAssumption

\* A test joins a group.
LEMMA JoinGroup ==
  ASSUME NEW g \in GroupOf(Alloc(Account)), NEW t \in Tests, t \notin g.testIds,
         Kept(g, group[t]), pre[t] \in Alloc(Partial), ~Clash(g.pre, Filled(pre[t])),
         \A u \in Tests : pre[u] \in Alloc(Partial)
  PROVE  LET n == Group(g.testIds \union {t}, g.count + 1, AllocMerge(g.pre, pre[t]))
         IN n \in GroupOf(Alloc(Account)) /\ Kept(n, group[t]) /\ n.testIds = g.testIds \union {t}
<1> DEFINE n == Group(g.testIds \union {t}, g.count + 1, AllocMerge(g.pre, pre[t]))
<1>1. /\ g.testIds \in SUBSET Tests /\ g.count \in Nat /\ g.pre \in Alloc(Account)
      /\ IsFiniteSet(g.testIds) /\ Cardinality(g.testIds) \in Nat
  BY GroupParts
<1>2. AllocMerge(g.pre, pre[t]) \in Alloc(Account)
  BY <1>1, MergeType
<1>3. /\ n \in GroupOf(Alloc(Account)) /\ n.testIds = g.testIds \union {t}
      /\ n.count = g.count + 1 /\ n.pre = AllocMerge(g.pre, pre[t])
  BY <1>1, <1>2, GroupType
<1>4. Cardinality(g.testIds \union {t}) = g.count + 1
  BY <1>1, FS_AddElement DEF Kept
<1>5. ASSUME NEW u \in g.testIds \union {t}
      PROVE  group[u] = group[t] /\ Holds(AllocMerge(g.pre, pre[t]), pre[u])
  <2>1. CASE u = t
    BY <1>1, <2>1, MergeHoldsNew
  <2>2. CASE u \in g.testIds
    <3>1. group[u] = group[t] /\ Holds(g.pre, pre[u]) /\ pre[u] \in Alloc(Partial)
      BY <1>1, <2>2 DEF Kept
    <3> QED
      BY <1>1, <3>1, MergeKeepsOld
  <2> QED
    BY <2>1, <2>2
<1> HIDE DEF n
<1>6. Kept(n, group[t])
  BY <1>3, <1>4, <1>5 DEF Kept
<1> QED
  BY <1>3, <1>6 DEF n

\* The first test of a group.
LEMMA FirstOfGroup ==
  ASSUME NEW t \in Tests, pre[t] \in Alloc(Partial)
  PROVE  LET n == Group({t}, 1, AllocMerge(ForkPre, pre[t]))
         IN n \in GroupOf(Alloc(Account)) /\ Kept(n, group[t]) /\ n.testIds = {t}
<1> DEFINE n == Group({t}, 1, AllocMerge(ForkPre, pre[t]))
<1>1. ForkPre \in Alloc(Account)
  BY GroupingAssumption DEF Alloc
<1>2. AllocMerge(ForkPre, pre[t]) \in Alloc(Account) /\ Holds(AllocMerge(ForkPre, pre[t]), pre[t])
  BY <1>1, MergeType, MergeHoldsNew
<1>3. /\ n \in GroupOf(Alloc(Account)) /\ n.testIds = {t}
      /\ n.count = 1 /\ n.pre = AllocMerge(ForkPre, pre[t])
  BY <1>2, GroupType
<1>4. Cardinality({t}) = 1
  BY FS_Singleton
<1> HIDE DEF n
<1>5. Kept(n, group[t])
  BY <1>2, <1>3, <1>4 DEF Kept
<1> QED
  BY <1>3, <1>5 DEF n

\* Two groups of the same hash are merged.
LEMMA MergeGroups ==
  ASSUME NEW h, NEW m \in GroupOf(Alloc(Account)), NEW g \in GroupOf(Alloc(Account)),
         Kept(m, h), Kept(g, h), m.testIds \intersect g.testIds = {}, ~Clash(m.pre, g.pre),
         NEW n, n = Group(m.testIds \union g.testIds, m.count + g.count, Both(m.pre, g.pre))
  PROVE  /\ n \in GroupOf(Alloc(Account)) /\ Kept(n, h)
         /\ n.testIds = m.testIds \union g.testIds
<1>1. /\ m.testIds \in SUBSET Tests /\ m.count \in Nat /\ m.pre \in Alloc(Account)
      /\ g.testIds \in SUBSET Tests /\ g.count \in Nat /\ g.pre \in Alloc(Account)
      /\ IsFiniteSet(m.testIds) /\ IsFiniteSet(g.testIds)
  BY GroupParts
<1>2. Both(m.pre, g.pre) \in Alloc(Account)
  BY <1>1, BothType
<1>3. /\ n \in GroupOf(Alloc(Account)) /\ n.testIds = m.testIds \union g.testIds
      /\ n.count = m.count + g.count /\ n.pre = Both(m.pre, g.pre)
  BY <1>1, <1>2, GroupType
<1>4. Cardinality(m.testIds \union g.testIds) = m.count + g.count
  <2>1. Cardinality(m.testIds \union g.testIds)
          = Cardinality(m.testIds) + Cardinality(g.testIds) - Cardinality(m.testIds \intersect g.testIds)
    BY <1>1, FS_Union
  <2>2. Cardinality(m.testIds \intersect g.testIds) = 0
    BY FS_EmptySet
  <2> QED
    BY <1>1, <2>1, <2>2 DEF Kept
<1>5. \A u \in m.testIds \union g.testIds : group[u] = h /\ Holds(Both(m.pre, g.pre), pre[u])
  BY <1>1, BothHold DEF Kept
<1>6. Kept(n, h)
  BY <1>3, <1>4, <1>5 DEF Kept
<1> QED
  BY <1>3, <1>6
------------------------------------------------------------------------------
(* The steps.                                                                 *)

LEMMA InitIInv == Init => IInv
<1> SUFFICES ASSUME Init PROVE IInv
  OBVIOUS
<1>1. DOMAIN Nothing = {}
  BY DEF Nothing
<1>2. DOMAIN file = {} /\ DOMAIN mem = Workers /\ \A w \in Workers : DOMAIN mem[w] = {}
  BY <1>1 DEF Init
<1>3. TypeOK
  <2>1. 0 \in 0..MaxFaults
    BY GroupingAssumption
  <2>2. /\ phase = "grouping" /\ todo = Tests /\ failed = FALSE /\ marker = {} /\ faults = 0
        /\ group \in [Tests -> Groups] /\ pre \in [Tests -> Pres]
        /\ pc = [w \in Workers |-> "tests"] /\ result = [t \in Tests |-> "none"]
    BY DEF Init
  <2>3. pc \in [Workers -> {"tests", "saving", "done", "raised"}]
    BY <2>2
  <2>4. result \in [Tests -> {"none", "filled", "error"}]
    BY <2>2
  <2> QED
    BY <1>2, <2>1, <2>2, <2>3, <2>4 DEF TypeOK
<1>4. MemInv /\ FileInv
  BY <1>2 DEF MemInv, FileInv
<1>5. \A t \in Tests : ~InFile(t) /\ \A w \in Workers : ~InMemory(w, t)
  BY <1>2 DEF InFile, InMemory
<1>6. Once /\ Somewhere /\ PhaseInv
  BY <1>5 DEF Once, Somewhere, PhaseInv, Init
<1> QED
  BY <1>3, <1>4, <1>6 DEF IInv

LEMMA PresType == TypeOK => \A t \in Tests : pre[t] \in Alloc(Partial) /\ group[t] \in Groups
  BY GroupingAssumption DEF TypeOK

\* What a step may do to the groups in memory, in terms of what is there after it.
LEMMA MemChange ==
  ASSUME TypeOK, MemInv, NEW w \in Workers, NEW new,
         mem' = [mem EXCEPT ![w] = new], UNCHANGED input, DOMAIN new \subseteq Groups,
         \A h \in DOMAIN new : new[h] \in GroupOf(Alloc(Account)) /\ Kept(new[h], h)
  PROVE  /\ DOMAIN mem' = Workers
         /\ \A v \in Workers : /\ DOMAIN mem'[v] \subseteq Groups
                               /\ \A h \in DOMAIN mem'[v] : mem'[v][h] \in GroupOf(Alloc(Account))
         /\ MemInv'
<1>1. /\ DOMAIN mem' = Workers /\ mem'[w] = new
      /\ \A v \in Workers \ {w} : mem'[v] = mem[v]
  BY DEF TypeOK
<1>2. \A v \in Workers : /\ DOMAIN mem[v] \subseteq Groups
                         /\ \A h \in DOMAIN mem[v] : mem[v][h] \in GroupOf(Alloc(Account))
  BY DEF TypeOK
<1>3. \A v \in Workers : \A h \in DOMAIN mem'[v] : Kept(mem'[v][h], h)
  BY <1>1 DEF MemInv
<1>4. MemInv'
  BY <1>3 DEF MemInv, Kept, input
<1> QED
  BY <1>1, <1>2, <1>4

LEMMA RunTestStep ==
  ASSUME IInv, NEW w \in Workers, RunTest(w)
  PROVE  IInv'
<1>1. PICK t \in todo : todo' = todo \ {t} /\ Update(w, t)
  BY DEF RunTest
<1>2. /\ UNCHANGED <<input, phase, pc, file, marker, faults, result>> /\ pc[w] = "tests"
      /\ TypeOK /\ MemInv /\ FileInv /\ Once /\ Somewhere /\ PhaseInv
  BY DEF RunTest, IInv
<1>3. t \in Tests /\ pre[t] \in Alloc(Partial) /\ group[t] \in Groups
      /\ \A u \in Tests : pre[u] \in Alloc(Partial)
  BY <1>1, <1>2, PresType DEF TypeOK
<1>4. FileInv'
  BY <1>2 DEF FileInv, Kept, input
<1>5. \A u \in Tests : InFile(u)' <=> InFile(u)
  BY <1>2 DEF InFile, input
<1>6. PhaseInv' \/ failed' # failed
  BY <1>1, <1>2 DEF PhaseInv
<1>7. phase = "grouping"
  BY <1>2 DEF PhaseInv, TypeOK
<1>8. PhaseInv'
  BY <1>1, <1>2, <1>7 DEF PhaseInv
<1>9. DOMAIN mem = Workers
  BY <1>2 DEF TypeOK
<1>10. CASE failed' = TRUE /\ UNCHANGED mem
  <2>1. TypeOK'
    BY <1>1, <1>2, <1>10 DEF TypeOK, input
  <2>2. MemInv'
    BY <1>2, <1>10 DEF MemInv, Kept, input
  <2>3. \A v \in Workers, u \in Tests : InMemory(v, u)' <=> InMemory(v, u)
    BY <1>2, <1>10 DEF InMemory, input
  <2>4. Once' /\ Somewhere'
    BY <1>1, <1>2, <1>5, <1>10, <2>3 DEF Once, Somewhere
  <2> QED
    BY <1>4, <1>8, <2>1, <2>2, <2>4 DEF IInv
<1>11. ASSUME NEW n, mem' = [mem EXCEPT ![w] = Put(@, group[t], n)], UNCHANGED failed,
              n \in GroupOf(Alloc(Account)), Kept(n, group[t]),
              n.testIds = {u \in Tests : u = t \/ (InMemory(w, u) /\ group[u] = group[t])}
       PROVE  IInv'
  <2> DEFINE new == Put(mem[w], group[t], n)
  <2>1. mem' = [mem EXCEPT ![w] = new]
    BY <1>11
  <2>2. /\ DOMAIN new = DOMAIN mem[w] \union {group[t]} /\ new[group[t]] = n
        /\ \A h \in DOMAIN mem[w] \ {group[t]} : new[h] = mem[w][h]
    BY DEF Put
  <2> HIDE DEF new
  <2>3. /\ DOMAIN mem[w] \subseteq Groups
        /\ \A h \in DOMAIN mem[w] : mem[w][h] \in GroupOf(Alloc(Account)) /\ Kept(mem[w][h], h)
    BY <1>2 DEF TypeOK, MemInv
  <2>4. /\ DOMAIN new \subseteq Groups
        /\ \A h \in DOMAIN new : new[h] \in GroupOf(Alloc(Account)) /\ Kept(new[h], h)
    BY <1>3, <1>11, <2>2, <2>3
  <2>5. /\ DOMAIN mem' = Workers
        /\ \A v \in Workers : /\ DOMAIN mem'[v] \subseteq Groups
                              /\ \A h \in DOMAIN mem'[v] : mem'[v][h] \in GroupOf(Alloc(Account))
        /\ MemInv'
    BY <1>2, <2>1, <2>4, MemChange
  <2>6. \A v \in Workers : pc'[v] \in {"done", "raised"} => DOMAIN mem'[v] = {}
    BY <1>2, <1>9, <2>1 DEF TypeOK
  <2>7. TypeOK'
    BY <1>1, <1>2, <1>11, <2>5, <2>6 DEF TypeOK, input
  <2>8. \A v \in Workers, u \in Tests :
          InMemory(v, u)' <=> InMemory(v, u) \/ (v = w /\ u = t)
    <3> SUFFICES ASSUME NEW v \in Workers, NEW u \in Tests
                 PROVE  InMemory(v, u)' <=> InMemory(v, u) \/ (v = w /\ u = t)
      OBVIOUS
    <3>1. group' = group
      BY <1>2 DEF input
    <3>2. CASE v # w
      BY <1>9, <2>1, <3>1, <3>2 DEF InMemory
    <3>3. CASE v = w
      <4>1. mem'[v] = new
        BY <1>9, <2>1, <3>3
      <4>2. CASE group[u] = group[t]
        BY <1>11, <2>2, <3>1, <3>3, <4>1, <4>2 DEF InMemory
      <4>3. CASE group[u] # group[t]
        BY <2>2, <3>1, <3>3, <4>1, <4>3 DEF InMemory
      <4> QED
        BY <4>2, <4>3
    <3> QED
      BY <3>2, <3>3
  <2>9. Once' /\ Somewhere'
    BY <1>1, <1>2, <1>3, <1>5, <1>11, <2>8 DEF Once, Somewhere
  <2> QED
    BY <1>4, <1>8, <2>5, <2>7, <2>9 DEF IInv
<1>12. ~InMemory(w, t)
  BY <1>1, <1>2, <1>3 DEF Once
<1>13. CASE group[t] \notin DOMAIN mem[w]
  <2> DEFINE n == Group({t}, 1, AllocMerge(ForkPre, pre[t]))
  <2>1. mem' = [mem EXCEPT ![w] = Put(@, group[t], n)] /\ UNCHANGED failed
    BY <1>1, <1>13 DEF Update
  <2>2. n \in GroupOf(Alloc(Account)) /\ Kept(n, group[t]) /\ n.testIds = {t}
    BY <1>3, FirstOfGroup
  <2> HIDE DEF n
  <2>3. {t} = {u \in Tests : u = t \/ (InMemory(w, u) /\ group[u] = group[t])}
    BY <1>3, <1>13 DEF InMemory
  <2> QED
    BY <1>11, <2>1, <2>2, <2>3
<1>14. CASE group[t] \in DOMAIN mem[w] /\ Clash(mem[w][group[t]].pre, Filled(pre[t]))
  BY <1>1, <1>10, <1>14 DEF Update
<1>15. CASE group[t] \in DOMAIN mem[w] /\ ~Clash(mem[w][group[t]].pre, Filled(pre[t]))
  <2> DEFINE g == mem[w][group[t]]
             n == Group(g.testIds \union {t}, g.count + 1, AllocMerge(g.pre, pre[t]))
  <2>1. mem' = [mem EXCEPT ![w] = Put(@, group[t], n)] /\ UNCHANGED failed
    BY <1>1, <1>15 DEF Update
  <2>2. g \in GroupOf(Alloc(Account)) /\ Kept(g, group[t])
    BY <1>2, <1>15 DEF TypeOK, MemInv
  <2>3. g.testIds = {u \in Tests : InMemory(w, u) /\ group[u] = group[t]}
    BY <1>15, <2>2, GroupParts DEF InMemory, Kept
  <2>4. t \notin g.testIds
    BY <1>12, <2>3
  <2>5. n \in GroupOf(Alloc(Account)) /\ Kept(n, group[t]) /\ n.testIds = g.testIds \union {t}
    BY <1>3, <1>15, <2>2, <2>4, JoinGroup
  <2> HIDE DEF n
  <2>6. n.testIds = {u \in Tests : u = t \/ (InMemory(w, u) /\ group[u] = group[t])}
    BY <1>3, <2>3, <2>5
  <2> QED
    BY <1>11, <2>1, <2>5, <2>6
<1> QED
  BY <1>13, <1>14, <1>15
\* A worker's groups leave its memory for good: what is left of the invariant when an
\* exception ends its session.
LEMMA RaisedStep ==
  ASSUME IInv, NEW w \in Workers, pc[w] = "saving", Raised(w), UNCHANGED <<input, phase, todo, failed, result>>,
         FileInv', DOMAIN file' \subseteq Groups,
         \A h \in DOMAIN file' : file'[h] = Torn \/ file'[h] \in GroupOf(Alloc(Account)),
         \A t \in Tests : InFile(t)' => InFile(t),
         marker \subseteq marker', marker' \subseteq Groups,
         faults' \in 0..MaxFaults, marker' # {} \/ faults' > 0
  PROVE  IInv'
<1>1. TypeOK /\ MemInv /\ Once /\ PhaseInv
  BY DEF IInv
<1>2. DOMAIN Nothing = {}
  BY DEF Nothing
<1>3. /\ DOMAIN mem' = Workers
      /\ \A v \in Workers : /\ DOMAIN mem'[v] \subseteq Groups
                            /\ \A h \in DOMAIN mem'[v] : mem'[v][h] \in GroupOf(Alloc(Account))
      /\ MemInv'
  BY <1>1, <1>2, MemChange DEF Raised
<1>4. DOMAIN mem = Workers /\ pc \in [Workers -> {"tests", "saving", "done", "raised"}]
  BY <1>1 DEF TypeOK
<1>5. \A v \in Workers : /\ pc'[v] \in {"done", "raised"} => DOMAIN mem'[v] = {}
                         /\ pc[v] \in {"done", "raised"} => pc'[v] = pc[v]
                         /\ pc'[v] = "tests" => pc[v] = "tests"
  BY <1>1, <1>2, <1>4 DEF TypeOK, Raised
<1>6. pc' \in [Workers -> {"tests", "saving", "done", "raised"}]
  BY <1>4 DEF Raised
<1>7. TypeOK'
  BY <1>1, <1>3, <1>5, <1>6 DEF TypeOK, input
<1>8. \A v \in Workers, t \in Tests : InMemory(v, t)' => InMemory(v, t)
  BY <1>2, <1>4 DEF InMemory, Raised, input
<1>9. Once'
  BY <1>1, <1>8 DEF Once
<1>10. Somewhere'
  BY DEF Somewhere
<1>11. phase = "grouping"
  BY <1>1 DEF PhaseInv
<1>12. PhaseInv'
  BY <1>1, <1>5, <1>11 DEF PhaseInv
<1> QED
  BY <1>3, <1>7, <1>9, <1>10, <1>12 DEF IInv

\* A group of a worker is in its file: what is left of the invariant when its group n there
\* lists the tests of both.
LEMMA SavedStep ==
  ASSUME IInv, NEW w \in Workers, pc[w] = "saving", NEW h \in DOMAIN mem[w], NEW n,
         Saved(w, h), file' = Put(file, h, n),
         UNCHANGED <<input, phase, todo, failed, marker, faults, result>>,
         n \in GroupOf(Alloc(Account)), Kept(n, h),
         n.testIds = mem[w][h].testIds \union {t \in Tests : InFile(t) /\ group[t] = h}
  PROVE  IInv'
<1> DEFINE new == Drop(w, h)
<1>1. TypeOK /\ MemInv /\ FileInv /\ Once /\ Somewhere /\ PhaseInv
  BY DEF IInv
<1>2. DOMAIN new = DOMAIN mem[w] \ {h} /\ \A g \in DOMAIN new : new[g] = mem[w][g]
  BY DEF Drop
<1>3. mem' = [mem EXCEPT ![w] = new] /\ DOMAIN mem = Workers
  BY <1>1 DEF Saved, TypeOK
<1> HIDE DEF new
<1>4. /\ DOMAIN new \subseteq Groups
      /\ \A g \in DOMAIN new : new[g] \in GroupOf(Alloc(Account)) /\ Kept(new[g], g)
  BY <1>1, <1>2 DEF TypeOK, MemInv
<1>5. /\ DOMAIN mem' = Workers
      /\ \A v \in Workers : /\ DOMAIN mem'[v] \subseteq Groups
                            /\ \A g \in DOMAIN mem'[v] : mem'[v][g] \in GroupOf(Alloc(Account))
      /\ MemInv'
  BY <1>1, <1>3, <1>4, MemChange
<1>6. /\ DOMAIN file' = DOMAIN file \union {h} /\ file'[h] = n
      /\ \A g \in DOMAIN file \ {h} : file'[g] = file[g]
  BY DEF Put
<1>7. n # Torn /\ h \in Groups
  BY <1>1, GroupNotTorn DEF TypeOK
<1>8. FileInv'
  <2>1. \A g \in DOMAIN file' : /\ file'[g] = Torn => faults > 0
                                /\ file'[g] # Torn => Kept(file'[g], g)
    BY <1>1, <1>6, <1>7 DEF FileInv
  <2> QED
    BY <2>1 DEF FileInv, Kept, input
<1>9. /\ DOMAIN file' \subseteq Groups
      /\ \A g \in DOMAIN file' : file'[g] = Torn \/ file'[g] \in GroupOf(Alloc(Account))
  BY <1>1, <1>6, <1>7 DEF TypeOK
<1>10. \A v \in Workers : /\ pc'[v] \in {"done", "raised"} => DOMAIN mem'[v] = {}
                          /\ pc[v] \in {"done", "raised"} => pc'[v] = pc[v]
                          /\ pc'[v] = "tests" => pc[v] = "tests"
  <2>1. pc \in [Workers -> {"tests", "saving", "done", "raised"}]
    BY <1>1 DEF TypeOK
  <2>2. \A v \in Workers \ {w} : pc'[v] = pc[v] /\ mem'[v] = mem[v]
    BY <1>3, <2>1 DEF Saved
  <2>3. pc'[w] \in {"done", "saving"} /\ (pc'[w] = "done" => DOMAIN mem[w] = {h})
    BY <2>1 DEF Saved
  <2>4. mem'[w] = new
    BY <1>3
  <2> QED
    BY <1>1, <1>2, <2>2, <2>3, <2>4 DEF TypeOK
<1>11. pc' \in [Workers -> {"tests", "saving", "done", "raised"}]
  BY <1>1 DEF TypeOK, Saved
<1>12. TypeOK'
  BY <1>1, <1>5, <1>9, <1>10, <1>11 DEF TypeOK, input
<1>13. \A v \in Workers, t \in Tests :
         InMemory(v, t)' <=> InMemory(v, t) /\ ~(v = w /\ group[t] = h)
  BY <1>2, <1>3 DEF InMemory, input
<1>14. \A t \in Tests : InFile(t)' <=> InFile(t) \/ (group[t] = h /\ InMemory(w, t))
  <2> SUFFICES ASSUME NEW t \in Tests
               PROVE  InFile(t)' <=> InFile(t) \/ (group[t] = h /\ InMemory(w, t))
    OBVIOUS
  <2>1. CASE group[t] = h
    BY <1>6, <1>7, <2>1 DEF InFile, InMemory, input
  <2>2. CASE group[t] # h
    BY <1>6, <2>2 DEF InFile, input
  <2> QED
    BY <2>1, <2>2
<1>15. Once'
  BY <1>1, <1>13, <1>14 DEF Once
<1>16. Somewhere'
  BY <1>1, <1>13, <1>14 DEF Somewhere
<1>17. phase = "grouping"
  BY <1>1 DEF PhaseInv
<1>18. PhaseInv'
  BY <1>1, <1>10, <1>17 DEF PhaseInv
<1> QED
  BY <1>5, <1>8, <1>12, <1>15, <1>16, <1>18 DEF IInv

LEMMA SaveStep ==
  ASSUME IInv, NEW w \in Workers, Save(w)
  PROVE  IInv'
<1>1. PICK h \in DOMAIN mem[w] :
        SaveFirst(w, h) \/ SaveMerged(w, h) \/ SaveClash(w, h) \/ SaveTorn(w, h)
  BY DEF Save
<1>2. /\ pc[w] = "saving" /\ UNCHANGED <<input, phase, todo, failed, faults, result>>
      /\ TypeOK /\ MemInv /\ FileInv /\ Once
  BY DEF Save, IInv
<1>3. mem[w][h] \in GroupOf(Alloc(Account)) /\ Kept(mem[w][h], h) /\ h \in Groups
  BY <1>2 DEF TypeOK, MemInv
<1>4. mem[w][h].testIds \in SUBSET Tests
  BY <1>3, GroupParts
<1>5. CASE SaveFirst(w, h)
  <2>1. Saved(w, h) /\ file' = Put(file, h, mem[w][h]) /\ UNCHANGED marker /\ h \notin DOMAIN file
    BY <1>5 DEF SaveFirst
  <2>2. {t \in Tests : InFile(t) /\ group[t] = h} = {}
    BY <2>1 DEF InFile
  <2> QED
    BY <1>2, <1>3, <2>1, <2>2, SavedStep
<1>6. CASE SaveMerged(w, h)
  <2>1. PICK m, g, n :
          /\ m = mem[w][h] /\ g = file[h]
          /\ n = Group(m.testIds \union g.testIds, m.count + g.count, Both(m.pre, g.pre))
    OBVIOUS
  <2>2. /\ Saved(w, h) /\ file' = Put(file, h, n) /\ UNCHANGED marker
        /\ h \in DOMAIN file /\ g # Torn /\ ~Clash(m.pre, g.pre)
    BY <1>6, <2>1 DEF SaveMerged
  <2>3. g \in GroupOf(Alloc(Account)) /\ Kept(g, h)
    BY <1>2, <2>1, <2>2 DEF TypeOK, FileInv
  <2>4. m \in GroupOf(Alloc(Account)) /\ Kept(m, h)
    BY <1>3, <2>1
  <2>5. g.testIds = {t \in Tests : InFile(t) /\ group[t] = h}
    BY <2>1, <2>2, <2>3, GroupParts DEF InFile, Kept
  <2>6. m.testIds \intersect g.testIds = {}
    BY <1>2, <1>3, <1>4, <2>1, <2>5 DEF Once, InMemory, Kept
  <2>7. n \in GroupOf(Alloc(Account)) /\ Kept(n, h) /\ n.testIds = m.testIds \union g.testIds
    <3>1. n = Group(m.testIds \union g.testIds, m.count + g.count, Both(m.pre, g.pre))
      BY <2>1
    <3>2. ~Clash(m.pre, g.pre)
      BY <2>2
    <3>3. Kept(m, h) /\ Kept(g, h)
      BY <2>3, <2>4
    <3>4. m \in GroupOf(Alloc(Account)) /\ g \in GroupOf(Alloc(Account))
      BY <2>3, <2>4
    <3>5. Kept(n, h)
      BY <2>6, <3>1, <3>2, <3>3, <3>4, MergeGroups
    <3>6. n \in GroupOf(Alloc(Account))
      BY <2>6, <3>1, <3>2, <3>3, <3>4, MergeGroups
    <3>7. n.testIds = m.testIds \union g.testIds
      BY <3>1 DEF Group
    <3> QED
      BY <3>5, <3>6, <3>7
  <2> QED
    BY <1>2, <2>1, <2>2, <2>5, <2>7, SavedStep
<1>7. CASE SaveClash(w, h)
  <2>1. Raised(w) /\ UNCHANGED file /\ marker' = marker \union {h}
    BY <1>7 DEF SaveClash
  <2>2. FileInv'
    BY <1>2, <2>1 DEF FileInv, Kept, input
  <2>3. \A t \in Tests : InFile(t)' => InFile(t)
    BY <1>2, <2>1 DEF InFile, input
  <2>4. /\ DOMAIN file' \subseteq Groups
        /\ \A g \in DOMAIN file' : file'[g] = Torn \/ file'[g] \in GroupOf(Alloc(Account))
        /\ marker' \subseteq Groups /\ marker' # {} /\ marker \subseteq marker'
        /\ faults' \in 0..MaxFaults
    BY <1>2, <1>3, <2>1 DEF TypeOK
  <2> QED
    BY <1>2, <2>1, <2>2, <2>3, <2>4, RaisedStep
<1>8. CASE SaveTorn(w, h)
  <2>1. Raised(w) /\ UNCHANGED <<file, marker>> /\ h \in DOMAIN file /\ file[h] = Torn
    BY <1>8 DEF SaveTorn
  <2>2. FileInv' /\ faults' > 0
    BY <1>2, <2>1 DEF FileInv, Kept, input
  <2>3. \A t \in Tests : InFile(t)' => InFile(t)
    BY <1>2, <2>1 DEF InFile, input
  <2>4. /\ DOMAIN file' \subseteq Groups
        /\ \A g \in DOMAIN file' : file'[g] = Torn \/ file'[g] \in GroupOf(Alloc(Account))
        /\ marker' \subseteq Groups /\ marker \subseteq marker'
        /\ faults' \in 0..MaxFaults
    BY <1>2, <2>1 DEF TypeOK
  <2> QED
    BY <1>2, <2>1, <2>2, <2>3, <2>4, RaisedStep
<1> QED
  BY <1>1, <1>5, <1>6, <1>7, <1>8

LEMMA SaveFailsStep ==
  ASSUME IInv, NEW w \in Workers, SaveFails(w)
  PROVE  IInv'
<1>1. /\ pc[w] = "saving" /\ UNCHANGED <<input, phase, todo, failed, marker, result>>
      /\ Raised(w) /\ faults' = faults + 1 /\ faults < MaxFaults
      /\ TypeOK /\ FileInv
  BY DEF SaveFails, IInv
<1>2. faults \in 0..MaxFaults /\ MaxFaults \in Nat
  BY <1>1, GroupingAssumption DEF TypeOK
<1>3. faults' \in 0..MaxFaults /\ faults' > 0
  BY <1>1, <1>2
<1>4. PICK h \in DOMAIN mem[w] : file' = Put(file, h, Torn) \/ UNCHANGED file
  BY DEF SaveFails
<1>5. h \in Groups
  BY <1>1 DEF TypeOK
<1>6. /\ DOMAIN file' \subseteq DOMAIN file \union {h}
      /\ \A g \in DOMAIN file' : file'[g] = Torn \/ (g \in DOMAIN file /\ file'[g] = file[g])
  BY <1>4 DEF Put
<1>7. FileInv'
  <2>1. \A g \in DOMAIN file' : file'[g] # Torn => Kept(file'[g], g)
    BY <1>1, <1>6 DEF FileInv
  <2> QED
    BY <1>1, <1>3, <2>1 DEF FileInv, Kept, input
<1>8. /\ DOMAIN file' \subseteq Groups
      /\ \A g \in DOMAIN file' : file'[g] = Torn \/ file'[g] \in GroupOf(Alloc(Account))
      /\ marker' \subseteq Groups /\ marker \subseteq marker'
  BY <1>1, <1>5, <1>6 DEF TypeOK
<1>9. \A t \in Tests : InFile(t)' => InFile(t)
  BY <1>1, <1>6 DEF InFile, input
<1> QED
  BY <1>1, <1>3, <1>7, <1>8, <1>9, RaisedStep
LEMMA FinishStep ==
  ASSUME IInv, NEW w \in Workers, Finish(w)
  PROVE  IInv'
<1>1. /\ UNCHANGED <<input, phase, todo, failed, mem, file, marker, faults, result>>
      /\ todo = {} /\ pc[w] = "tests"
      /\ pc' = [pc EXCEPT ![w] = IF DOMAIN mem[w] = {} THEN "done" ELSE "saving"]
      /\ TypeOK /\ MemInv /\ FileInv /\ Once /\ Somewhere /\ PhaseInv
  BY DEF Finish, IInv
<1>2. /\ pc' \in [Workers -> {"tests", "saving", "done", "raised"}]
      /\ \A v \in Workers : pc'[v] \in {"done", "raised"} => DOMAIN mem[v] = {}
  BY <1>1 DEF TypeOK
<1>3. TypeOK'
  BY <1>1, <1>2 DEF TypeOK, input
<1>4. MemInv' /\ FileInv'
  BY <1>1 DEF MemInv, FileInv, Kept, input
<1>5. Once' /\ Somewhere'
  BY <1>1 DEF Once, Somewhere, InMemory, InFile, input
<1>6. phase = "grouping"
  BY <1>1 DEF PhaseInv
<1>7. PhaseInv'
  BY <1>1, <1>6 DEF PhaseInv
<1> QED
  BY <1>3, <1>4, <1>5, <1>7 DEF IInv

\* The steps of the second phase, and the one that starts it.
LEMMA FillingStep ==
  ASSUME IInv, StartPhase2 \/ FillTest \/ UNCHANGED vars
  PROVE  IInv'
<1>1. /\ UNCHANGED <<input, todo, failed, mem, pc, file, marker, faults>>
      /\ TypeOK /\ MemInv /\ FileInv /\ Once /\ Somewhere /\ PhaseInv
  <2>1. CASE StartPhase2
    BY <2>1 DEF StartPhase2, IInv
  <2>2. CASE FillTest
    BY <2>2 DEF FillTest, IInv
  <2>3. CASE UNCHANGED vars
    BY <2>3 DEF vars, input, IInv
  <2> QED
    BY <2>1, <2>2, <2>3
<1>2. phase' \in {"grouping", "filling", "stopped"} /\ result' \in [Tests -> {"none", "filled", "error"}]
  BY <1>1 DEF StartPhase2, FillTest, vars, TypeOK
<1>3. TypeOK'
  BY <1>1, <1>2 DEF TypeOK, input
<1>4. MemInv' /\ FileInv'
  BY <1>1 DEF MemInv, FileInv, Kept, input
<1>5. Once' /\ Somewhere'
  BY <1>1 DEF Once, Somewhere, InMemory, InFile, input
<1>6. PhaseInv'
  <2>1. CASE StartPhase2
    BY <1>1, <2>1 DEF StartPhase2, PhaseInv, TypeOK
  <2>2. CASE FillTest \/ UNCHANGED vars
    BY <1>1, <2>2 DEF FillTest, PhaseInv, vars
  <2> QED
    BY <2>1, <2>2
<1> QED
  BY <1>3, <1>4, <1>5, <1>6 DEF IInv

------------------------------------------------------------------------------
(* Where the accounts of a group come from.                                   *)

\* Each account of an allocation is the fork's, or one that a test of the group sets.
From(alloc, h) == \A a \in DOMAIN alloc :
  \/ a \in DOMAIN ForkPre /\ alloc[a] = ForkPre[a]
  \/ \E t \in Tests : group[t] = h /\ a \in DOMAIN pre[t] /\ alloc[a] = Fill(pre[t][a])

SourceInv == Agree =>
  /\ ~failed /\ marker = {} /\ phase # "stopped"
  /\ \A w \in Workers : \A h \in DOMAIN mem[w] : From(mem[w][h].pre, h)
  /\ \A h \in DOMAIN file : file[h] # Torn => From(file[h].pre, h)

\* Then no allocation of a group clashes with another, or with a test of the group.
LEMMA NoClash ==
  ASSUME Agree, NEW h, NEW x, NEW y, From(x, h), From(y, h)
  PROVE  ~Clash(x, y)
<1> SUFFICES ASSUME NEW a \in DOMAIN x, a \in DOMAIN y
             PROVE  x[a] = y[a]
  BY DEF Clash
<1>1. ASSUME NEW t \in Tests, a \in DOMAIN pre[t]
      PROVE  a \notin DOMAIN ForkPre
  BY <1>1 DEF Agree
<1>2. CASE a \in DOMAIN ForkPre
  BY <1>1, <1>2 DEF From
<1>3. CASE a \notin DOMAIN ForkPre
  <2>1. PICK t \in Tests : group[t] = h /\ a \in DOMAIN pre[t] /\ x[a] = Fill(pre[t][a])
    BY <1>3 DEF From
  <2>2. PICK u \in Tests : group[u] = h /\ a \in DOMAIN pre[u] /\ y[a] = Fill(pre[u][a])
    BY <1>3 DEF From
  <2>3. ~Clash(Filled(pre[t]), Filled(pre[u]))
    BY <2>1, <2>2 DEF Agree
  <2> QED
    BY <2>1, <2>2, <2>3 DEF Clash, Filled
<1> QED
  BY <1>2, <1>3

LEMMA OwnFrom ==
  ASSUME NEW t \in Tests
  PROVE  From(Filled(pre[t]), group[t])
  BY DEF From, Filled

\* What a test sets over nothing, or over the same, is what it sets and the defaults.
LEMMA OverlayFill ==
  ASSUME NEW account
  PROVE  /\ Overlay(Default, account) = Fill(account)
         /\ Overlay(Fill(account), account) = Fill(account)
  BY DEF Overlay, Default, Fill

LEMMA MergeFrom ==
  ASSUME NEW t \in Tests, NEW base, From(base, group[t]), ~Clash(base, Filled(pre[t]))
  PROVE  From(AllocMerge(base, pre[t]), group[t])
<1> DEFINE own == pre[t]
           new == AllocMerge(base, own)
<1> SUFFICES ASSUME NEW a \in DOMAIN new
             PROVE  \/ a \in DOMAIN ForkPre /\ new[a] = ForkPre[a]
                    \/ \E u \in Tests : group[u] = group[t] /\ a \in DOMAIN pre[u]
                                          /\ new[a] = Fill(pre[u][a])
  BY DEF From
<1>1. /\ a \in DOMAIN base \union DOMAIN own
      /\ new[a] = IF a \in DOMAIN own THEN Overlay(AccountOf(base, a), own[a]) ELSE base[a]
  BY DEF AllocMerge
<1>2. CASE a \notin DOMAIN own
  BY <1>1, <1>2 DEF From
<1>3. CASE a \in DOMAIN own /\ a \in DOMAIN base
  <2>1. base[a] = Fill(own[a])
    BY <1>3 DEF Clash, Filled
  <2>2. new[a] = Fill(own[a])
    BY <1>1, <1>3, <2>1, OverlayFill DEF AccountOf
  <2> QED
    BY <1>3, <2>2
<1>4. CASE a \in DOMAIN own /\ a \notin DOMAIN base
  <2>1. new[a] = Fill(own[a])
    BY <1>1, <1>4, OverlayFill DEF AccountOf
  <2> QED
    BY <1>4, <2>1
<1> QED
  BY <1>2, <1>3, <1>4

LEMMA BothFrom ==
  ASSUME NEW h, NEW x, NEW y, From(x, h), From(y, h)
  PROVE  From(Both(x, y), h)
  BY DEF From, Both

LEMMA ForkFrom == \A h : From(ForkPre, h)
  BY DEF From

\* The groups of a worker are changed in one place.
LEMMA PutFrom ==
  ASSUME TypeOK, SourceInv, Agree, NEW w \in Workers, NEW h, NEW g, From(g.pre, h),
         mem' = [mem EXCEPT ![w] = Put(@, h, g)]
  PROVE  \A v \in Workers : \A k \in DOMAIN mem'[v] : From(mem'[v][k].pre, k)
<1>1. DOMAIN mem = Workers
  BY DEF TypeOK
<1>2. mem'[w] = Put(mem[w], h, g) /\ \A v \in Workers \ {w} : mem'[v] = mem[v]
  BY <1>1
<1>3. /\ DOMAIN Put(mem[w], h, g) = DOMAIN mem[w] \union {h} /\ Put(mem[w], h, g)[h] = g
      /\ \A k \in DOMAIN mem[w] \ {h} : Put(mem[w], h, g)[k] = mem[w][k]
  BY DEF Put
<1> QED
  BY <1>2, <1>3 DEF SourceInv

LEMMA SourceStep == IInv /\ SourceInv /\ [Next]_vars => SourceInv'
<1> SUFFICES ASSUME IInv, SourceInv, [Next]_vars, Agree'
             PROVE  SourceInv'
  BY DEF SourceInv
<1>i. UNCHANGED input
  BY DEF Next, RunTest, Finish, Save, SaveFails, StartPhase2, FillTest, vars, input
<1>g. group' = group /\ pre' = pre
  BY <1>i DEF input
<1>a. Agree
  BY <1>g DEF Agree
<1>t. TypeOK
  BY DEF IInv
<1>s. /\ ~failed /\ marker = {} /\ phase # "stopped"
      /\ \A w \in Workers : \A h \in DOMAIN mem[w] : From(mem[w][h].pre, h)
      /\ \A h \in DOMAIN file : file[h] # Torn => From(file[h].pre, h)
  BY <1>a DEF SourceInv
<1>f. \A alloc, h : From(alloc, h)' <=> From(alloc, h)
  BY <1>g DEF From
\* Enough to look at what a step leaves.
<1>e. ASSUME ~failed', marker' = {}, phase' # "stopped",
             \A w \in Workers : \A h \in DOMAIN mem'[w] : From(mem'[w][h].pre, h),
             \A h \in DOMAIN file' : file'[h] # Torn => From(file'[h].pre, h)
      PROVE  SourceInv'
  BY <1>e, <1>g DEF SourceInv, From
<1>1. ASSUME NEW w \in Workers, RunTest(w)
      PROVE  SourceInv'
  <2>1. PICK t \in Tests : Update(w, t)
    BY <1>1, <1>t DEF RunTest, TypeOK
  <2>2. UNCHANGED <<phase, file, marker>>
    BY <1>1 DEF RunTest
  <2> DEFINE h == group[t]  g == mem[w][h]
  <2>3. From(Filled(pre[t]), h)
    BY OwnFrom
  <2>4. CASE h \notin DOMAIN mem[w]
    <3>1. ~Clash(ForkPre, Filled(pre[t]))
      BY <1>a, <2>3, ForkFrom, NoClash
    <3>2. From(AllocMerge(ForkPre, pre[t]), h)
      BY <3>1, ForkFrom, MergeFrom
    <3>3. /\ mem' = [mem EXCEPT ![w] = Put(@, h, Group({t}, 1, AllocMerge(ForkPre, pre[t])))]
          /\ UNCHANGED failed
      BY <2>1, <2>4 DEF Update
    <3>4. Group({t}, 1, AllocMerge(ForkPre, pre[t])).pre = AllocMerge(ForkPre, pre[t])
      BY DEF Group
    <3>5. \A v \in Workers : \A k \in DOMAIN mem'[v] : From(mem'[v][k].pre, k)
      BY <1>a, <1>t, <3>2, <3>3, <3>4, PutFrom
    <3> QED
      BY <1>e, <1>s, <2>2, <3>3, <3>5
  <2>5. CASE h \in DOMAIN mem[w]
    <3> DEFINE n == Group(g.testIds \union {t}, g.count + 1, AllocMerge(g.pre, pre[t]))
    <3>0. From(g.pre, h)
      BY <1>s, <2>5
    <3>1. ~Clash(g.pre, Filled(pre[t]))
      BY <1>a, <2>3, <3>0, NoClash
    <3>2. From(AllocMerge(g.pre, pre[t]), h)
      BY <3>0, <3>1, MergeFrom
    <3>3. mem' = [mem EXCEPT ![w] = Put(@, h, n)] /\ UNCHANGED failed
      BY <2>1, <2>5, <3>1 DEF Update
    <3>4. n.pre = AllocMerge(g.pre, pre[t])
      BY DEF Group
    <3> HIDE DEF n
    <3>5. \A v \in Workers : \A k \in DOMAIN mem'[v] : From(mem'[v][k].pre, k)
      BY <1>a, <1>t, <3>2, <3>3, <3>4, PutFrom
    <3> QED
      BY <1>e, <1>s, <2>2, <3>3, <3>5
  <2> QED
    BY <2>4, <2>5
\* A worker that saves has fewer groups.
<1>m. ASSUME NEW w \in Workers, NEW h, mem' = [mem EXCEPT ![w] = Drop(w, h)] \/ Raised(w)
      PROVE  \A v \in Workers : \A k \in DOMAIN mem'[v] : From(mem'[v][k].pre, k)
  <2>1. DOMAIN mem = Workers /\ DOMAIN Nothing = {}
    BY <1>t DEF TypeOK, Nothing
  <2>2. \A v \in Workers \ {w} : mem'[v] = mem[v]
    BY <1>m, <2>1 DEF Raised
  <2>3. \A k \in DOMAIN mem'[w] : k \in DOMAIN mem[w] /\ mem'[w][k] = mem[w][k]
    BY <1>m, <2>1 DEF Raised, Drop
  <2> QED
    BY <1>s, <2>2, <2>3
<1>p. ASSUME NEW h, NEW g, file' = Put(file, h, g), g # Torn => From(g.pre, h)
      PROVE  \A k \in DOMAIN file' : file'[k] # Torn => From(file'[k].pre, k)
  BY <1>p, <1>s DEF Put
<1>2. ASSUME NEW w \in Workers, Save(w)
      PROVE  SourceInv'
  <2>1. PICK h \in DOMAIN mem[w] :
          SaveFirst(w, h) \/ SaveMerged(w, h) \/ SaveClash(w, h) \/ SaveTorn(w, h)
    BY <1>2 DEF Save
  <2>2. UNCHANGED <<phase, failed>> /\ From(mem[w][h].pre, h)
    BY <1>2, <1>s DEF Save
  <2>3. CASE SaveFirst(w, h)
    <3>1. file' = Put(file, h, mem[w][h]) /\ Saved(w, h) /\ UNCHANGED marker
      BY <2>3 DEF SaveFirst
    <3> QED
      BY <1>e, <1>m, <1>p, <1>s, <2>2, <3>1 DEF Saved
  <2>4. CASE SaveMerged(w, h)
    <3> DEFINE n == Group(mem[w][h].testIds \union file[h].testIds,
                          mem[w][h].count + file[h].count, Both(mem[w][h].pre, file[h].pre))
    <3>1. file' = Put(file, h, n) /\ Saved(w, h) /\ UNCHANGED marker
      BY <2>4 DEF SaveMerged
    <3>2. From(file[h].pre, h)
      BY <1>s, <2>4 DEF SaveMerged
    <3>3. n.pre = Both(mem[w][h].pre, file[h].pre)
      BY DEF Group
    <3>4. From(n.pre, h)
      BY <2>2, <3>2, <3>3, BothFrom
    <3> HIDE DEF n
    <3> QED
      BY <1>e, <1>m, <1>p, <1>s, <2>2, <3>1, <3>4 DEF Saved
  <2>5. ~SaveClash(w, h)
    <3>1. h \in DOMAIN file /\ file[h] # Torn => ~Clash(mem[w][h].pre, file[h].pre)
      BY <1>a, <1>s, <2>2, NoClash
    <3> QED
      BY <3>1 DEF SaveClash
  <2>6. CASE SaveTorn(w, h)
    <3>1. Raised(w) /\ UNCHANGED <<file, marker>>
      BY <2>6 DEF SaveTorn
    <3> QED
      BY <1>e, <1>m, <1>s, <2>2, <3>1
  <2> QED
    BY <2>1, <2>3, <2>4, <2>5, <2>6
<1>3. ASSUME NEW w \in Workers, SaveFails(w)
      PROVE  SourceInv'
  <2>1. Raised(w) /\ UNCHANGED <<phase, failed, marker>>
    BY <1>3 DEF SaveFails
  <2>2. PICK h : file' = Put(file, h, Torn) \/ UNCHANGED file
    BY <1>3 DEF SaveFails
  <2>3. \A k \in DOMAIN file' : file'[k] # Torn => From(file'[k].pre, k)
    BY <1>p, <1>s, <2>2
  <2> QED
    BY <1>e, <1>m, <1>s, <2>1, <2>3
<1>4. ASSUME NEW w \in Workers, Finish(w)
      PROVE  SourceInv'
  BY <1>4, <1>e, <1>s DEF Finish
<1>5. CASE StartPhase2
  BY <1>5, <1>e, <1>s DEF StartPhase2
<1>6. CASE FillTest
  BY <1>6, <1>e, <1>s DEF FillTest
<1>7. CASE UNCHANGED vars
  BY <1>7, <1>e, <1>s DEF vars
<1> QED
  BY <1>1, <1>2, <1>3, <1>4, <1>5, <1>6, <1>7 DEF Next

------------------------------------------------------------------------------
(* The theorems.                                                              *)

\* A test is listed once and in one place, in a group that holds what it sets, and is lost
\* only if phase 2 is told of it or a write failed.
THEOREM Invariance == Spec => []IInv
<1>1. Init => IInv
  BY InitIInv
<1>2. IInv /\ [Next]_vars => IInv'
  BY RunTestStep, FinishStep, SaveStep, SaveFailsStep, FillingStep DEF Next
<1> QED
  BY <1>1, <1>2, PTL DEF Spec

\* Every variable keeps its type.
THEOREM TypeCorrect == Spec => []TypeOK
<1>1. IInv => TypeOK
  BY DEF IInv
<1> QED
  BY <1>1, Invariance, PTL

\* However the tests are spread over the workers and whatever writes fail, a test that is
\* listed in the group it is filled with finds its own accounts there.
THEOREM AccountsKept == Spec => []OwnKept
<1>1. IInv => OwnKept
  BY DEF IInv, OwnKept, InFile, FileInv, Kept
<1> QED
  BY <1>1, Invariance, PTL

\* test_count is the number of the tests listed.
THEOREM Counted == Spec => []CountRight
<1>1. IInv => CountRight
  BY DEF IInv, CountRight, FileInv, Kept
<1> QED
  BY <1>1, Invariance, PTL

\* When the second phase starts and no write failed, each test is listed in its group.
THEOREM NothingLost == Spec => []Complete
<1>1. IInv => Complete
  <2> SUFFICES ASSUME IInv, phase = "filling", faults = 0, NEW t \in Tests
               PROVE  InFile(t)
    BY DEF Complete
  <2>1. \A w \in Workers : pc[w] \in {"done", "raised"}
    BY DEF IInv, PhaseInv
  <2>2. todo = {}
    BY <2>1, GroupingAssumption DEF IInv, PhaseInv
  <2>3. \A w \in Workers : ~InMemory(w, t)
    BY <2>1 DEF IInv, TypeOK, InMemory
  <2> QED
    BY <2>2, <2>3 DEF IInv, PhaseInv, Somewhere
<1> QED
  BY <1>1, Invariance, PTL

\* Tests that agree on every address, and name no account of the fork, are never reported
\* as a collision, however they are spread over the workers and whatever writes fail.
THEOREM NobodyStopped == Spec => []NoFalseAlarm
<1>1. Init => IInv /\ SourceInv
  <2>1. ASSUME Init PROVE SourceInv
    <3>1. DOMAIN file = {} /\ \A w \in Workers : DOMAIN mem[w] = {}
      BY <2>1 DEF Init, Nothing
    <3> QED
      BY <2>1, <3>1 DEF Init, SourceInv
  <2> QED
    BY <2>1, InitIInv
<1>2. IInv /\ SourceInv /\ [Next]_vars => SourceInv'
  BY SourceStep
<1>3. SourceInv => NoFalseAlarm
  BY DEF SourceInv, NoFalseAlarm
<1> QED
  BY <1>1, <1>2, <1>3, Invariance, PTL DEF Spec
==============================================================================
