-------------------------- MODULE HiveSession_proofs --------------------------
(* For any number of workers and levels, failing starts and killed workers:   *)
(* the users files count, one object of a kind is alive, and what is used by  *)
(* workers set up together is alive and ended by the last of them.            *)
EXTENDS HiveSession, FiniteSetTheorems, TLAPS

Starting == {"load", "start", "record"}
Ending == {"end", "unlink"}

\* A lock is held by whoever is between taking and freeing it.
LockInv ==
  \A k \in Levels, w \in Workers :
    /\ baseLock[k] = w <=> pc[w] \in Starting /\ at[w] = k
    /\ usersLock[k] = w <=> pc[w] \in Ending /\ at[w] = k

\* Objects are numbered from 1; a start finds no base file, and its object is
\* nobody else's until it is recorded.
ObjectInv ==
  /\ \A k \in Levels : base[k] <= started[k] /\ alive[k] \subseteq 1..started[k]
  /\ \A w \in Workers, k \in Levels : obj[w][k] <= started[k]
  /\ \A w \in Workers : pc[w] \in {"start", "record"} => base[at[w]] = 0
  /\ \A v, w \in Workers : pc[w] = "record" /\ v # w => obj[v][at[w]] # obj[w][at[w]]

\* Who ends an object is its last user.
LastUser == \A w \in Workers : pc[w] \in Ending => users[at[w]] = 0

\* Unless a worker was killed, what is alive is recorded or about to be, and
\* what is being unlinked has ended.
Recording(w, k) == pc[w] = "record" /\ at[w] = k
KnownAlive ==
  crashes = 0 =>
    /\ \A w \in Workers : pc[w] # "killed"
    /\ \A k \in Levels, o \in Nat :
         o \in alive[k] => o = base[k] \/ \E w \in Workers : Recording(w, k) /\ obj[w][k] = o
    /\ \A w \in Workers : pc[w] = "unlink" =>
         base[at[w]] # 0 /\ base[at[w]] = obj[w][at[w]] /\ base[at[w]] \notin alive[at[w]]

\* Workers set up together: nobody ends anything before all are set up, and what
\* somebody has, or may load, is alive until its last user ends it.
SomeoneSetsUp == \E v \in Workers : pc[v] \in SettingUp
Has(w, k) == Counted(w, k) \/ (pc[w] \in {"record", "join", "end"} /\ k = at[w])
Together ==
  together =>
    /\ SomeoneSetsUp => \A w \in Workers : pc[w] \notin Ending
    /\ \A w \in Workers, k \in Levels : Has(w, k) => obj[w][k] \in alive[k]
    /\ SomeoneSetsUp => \A k \in Levels : base[k] # 0 => base[k] \in alive[k]

\* And each file has somebody who is going to remove it.
Responsible ==
  together /\ crashes = 0 =>
    \A k \in Levels :
      /\ base[k] # 0 =>
           Users(k) # {} \/ \E w \in Workers : at[w] = k /\ pc[w] \in {"join", "end", "unlink"}
      /\ users[k] = 0 => \E w \in Workers : at[w] = k /\ pc[w] \in Ending

\* Tests run once everything is set up.
AtTop == \A w \in Workers : pc[w] = "run" => at[w] = Depth

IInv == /\ TypeOK /\ LockInv /\ ObjectInv /\ LastUser /\ CountRight
        /\ KnownAlive /\ Together /\ Responsible /\ AtTop

LEMMA FiniteUsers ==
  ASSUME NEW k PROVE IsFiniteSet(Users(k)) /\ Cardinality(Users(k)) \in Nat
<1>1. Users(k) \subseteq Workers BY DEF Users
<1>2. IsFiniteSet(Users(k)) BY <1>1, WorkersAssumption, FS_Subset
<1> QED BY <1>2, FS_CardinalityType

LEMMA InitOK == Init => IInv
<1> SUFFICES ASSUME Init PROVE IInv OBVIOUS
<1>1. TypeOK
  BY DepthAssumption, BoundsAssumption DEF Init, TypeOK, SettingUp, NoFile, Levels
<1>2. LockInv BY NobodyAssumption DEF Init, LockInv, Starting, Ending
<1>3. ObjectInv BY DepthAssumption DEF Init, ObjectInv, Levels
<1>4. LastUser BY DEF Init, LastUser, Ending
<1>5. CountRight
  <2> SUFFICES ASSUME NEW k \in Levels PROVE Users(k) = {} /\ users[k] = NoFile
    BY FS_EmptySet DEF CountRight
  <2> QED BY DepthAssumption DEF Init, Users, Counted, SettingUp, Levels
<1>6. KnownAlive BY DEF Init, KnownAlive
<1>7. Together
  <2>1. \A w \in Workers, k \in Levels : ~Has(w, k)
    BY DepthAssumption DEF Init, Has, Counted, SettingUp, Levels
  <2> QED BY <2>1 DEF Init, Together, Ending
<1>8. Responsible BY DEF Init, Responsible, NoFile
<1>9. AtTop BY DEF Init, AtTop
<1> QED BY <1>1, <1>2, <1>3, <1>4, <1>5, <1>6, <1>7, <1>8, <1>9 DEF IInv

-------------------------------------------------------------------------------
(* Types and locks.                                                           *)

LEMMA TypeStep == TypeOK /\ [Next]_vars => TypeOK'
<1> SUFFICES ASSUME TypeOK, [Next]_vars PROVE TypeOK' OBVIOUS
<1> USE DEF TypeOK, SettingUp, bounds, files, locks, server
<1>a. ASSUME NEW w \in Workers
      PROVE  /\ at[w] \in Levels /\ at[w] \in Nat
             /\ at[w] # 1 => at[w] - 1 \in Levels
             /\ at[w] # Depth => at[w] + 1 \in Levels
  <2>1. at[w] \in 1..Depth /\ Depth \in Nat BY DepthAssumption DEF Levels
  <2>2. ASSUME NEW n \in 1..Depth
        PROVE  n \in Nat /\ (n # 1 => n - 1 \in 1..Depth) /\ (n # Depth => n + 1 \in 1..Depth)
    BY <2>1
  <2> QED BY <2>1, <2>2 DEF Levels
<1>b. ASSUME NEW w \in Workers, Down(w)
      PROVE  /\ pc' \in [Workers -> SettingUp \union {"run", "leave", "end", "unlink", "done", "killed"}]
             /\ at' \in [Workers -> Levels]
  BY <1>b, <1>a DEF Down, Goto
<1>1. ASSUME NEW w \in Workers, Lookup(w) PROVE TypeOK'
  <2>1. err' \in [Levels -> BOOLEAN]
    <3>1. (at[w] \in Sentinel) \in BOOLEAN OBVIOUS
    <3>2. err' = err \/ err' = [err EXCEPT ![at[w]] = at[w] \in Sentinel] BY <1>1 DEF Lookup
    <3> QED BY <3>1, <3>2, Zenon
  <2>2. baseLock' \in [Levels -> Workers \union {Nobody}] BY <1>1, <1>a DEF Lookup
  <2> QED BY <1>1, <2>1, <2>2 DEF Lookup, Goto
<1>2. ASSUME NEW w \in Workers, Refused(w) PROVE TypeOK'
  BY <1>2, <1>b DEF Refused
<1>3. ASSUME NEW w \in Workers, Load(w) PROVE TypeOK'
  <2>1. CASE base[at[w]] # 0
    <3>1. obj' \in [Workers -> [Levels -> Nat]] BY SMTT(30), <1>3, <2>1, <1>a DEF Load
    <3> QED BY <1>3, <2>1, <3>1 DEF Load, Goto, Release
  <2>2. CASE base[at[w]] = 0
    BY <1>3, <2>2, <1>b DEF Load, Release
  <2> QED BY <2>1, <2>2
<1>4. ASSUME NEW w \in Workers, Start(w) PROVE TypeOK'
  BY <1>4 DEF Start, Goto
<1>5. ASSUME NEW w \in Workers, StartError(w) PROVE TypeOK'
  <2>1. errors' \in 0..MaxErrors BY <1>5, BoundsAssumption DEF StartError
  <2> QED BY <1>5, <2>1, <1>b DEF StartError, Release
<1>6. ASSUME NEW w \in Workers, Record(w) PROVE TypeOK'
  BY <1>6 DEF Record, Goto, Release
<1>7. ASSUME NEW w \in Workers, Join(w) PROVE TypeOK'
  <2>1. users' \in [Levels -> Nat \union {NoFile}] BY <1>7 DEF Join
  <2>2. at' \in [Workers -> Levels] BY <1>7, <1>a DEF Join
  <2>3. pc' \in [Workers -> SettingUp \union {"run", "leave", "end", "unlink", "done", "killed"}]
    BY <1>7 DEF Join, Goto
  <2> QED BY <1>7, <2>1, <2>2, <2>3 DEF Join
<1>8. ASSUME NEW w \in Workers, Finish(w) PROVE TypeOK'
  BY <1>8 DEF Finish, Goto
<1>9. ASSUME NEW w \in Workers, Leave(w) PROVE TypeOK'
  <2>1. users' \in [Levels -> Nat \union {NoFile}]
    <3>1. users[at[w]] \in Nat BY <1>9, <1>a DEF Leave
    <3>2. users[at[w]] - 1 \in Nat \union {NoFile} BY <3>1 DEF NoFile
    <3> QED BY <1>9, <3>2 DEF Leave
  <2>2. CASE users[at[w]] = 1
    <3>1. usersLock' \in [Levels -> Workers \union {Nobody}] BY <1>9, <2>2 DEF Leave
    <3> QED BY <1>9, <2>1, <2>2, <3>1 DEF Leave, Goto
  <2>3. CASE users[at[w]] # 1 BY <1>9, <2>1, <2>3, <1>b DEF Leave
  <2> QED BY <2>2, <2>3
<1>10. ASSUME NEW w \in Workers, End(w) PROVE TypeOK'
  BY <1>10 DEF End, Goto
<1>11. ASSUME NEW w \in Workers, EndError(w) PROVE TypeOK'
  BY <1>11, <1>b DEF EndError, Release
<1>12. ASSUME NEW w \in Workers, Unlink(w) PROVE TypeOK'
  <2>1. users' \in [Levels -> Nat \union {NoFile}] BY <1>12 DEF Unlink
  <2> QED BY <1>12, <2>1, <1>b DEF Unlink, Release
<1>13. ASSUME NEW w \in Workers, Crash(w) PROVE TypeOK'
  <2>1. crashes' \in 0..MaxCrashes BY <1>13, BoundsAssumption DEF Crash
  <2> QED BY <1>13, <2>1 DEF Crash, Goto
<1>14. CASE UNCHANGED vars BY <1>14 DEF vars
<1> QED BY <1>1, <1>2, <1>3, <1>4, <1>5, <1>6, <1>7, <1>8, <1>9, <1>10, <1>11, <1>12, <1>13, <1>14
        DEF Next, Setup, Teardown

LEMMA LockStep == TypeOK /\ LockInv /\ [Next]_vars => LockInv'
<1> SUFFICES ASSUME TypeOK, LockInv, [Next]_vars PROVE LockInv' OBVIOUS
<1> USE NobodyAssumption DEF TypeOK, LockInv, Starting, Ending, SettingUp, bounds, files, locks, server
<1>1. ASSUME NEW w \in Workers, Lookup(w) PROVE LockInv'
  BY <1>1 DEF Lookup, Goto
<1>2. ASSUME NEW w \in Workers, Refused(w) PROVE LockInv'
  BY <1>2 DEF Refused, Down, Goto
<1>3. ASSUME NEW w \in Workers, Load(w) PROVE LockInv'
  BY <1>3 DEF Load, Goto, Release, Down
<1>4. ASSUME NEW w \in Workers, Start(w) PROVE LockInv'
  BY <1>4 DEF Start, Goto
<1>5. ASSUME NEW w \in Workers, StartError(w) PROVE LockInv'
  BY <1>5 DEF StartError, Release, Down, Goto
<1>6. ASSUME NEW w \in Workers, Record(w) PROVE LockInv'
  BY <1>6 DEF Record, Goto, Release
<1>7. ASSUME NEW w \in Workers, Join(w) PROVE LockInv'
  BY <1>7 DEF Join, Goto
<1>8. ASSUME NEW w \in Workers, Finish(w) PROVE LockInv'
  BY <1>8 DEF Finish, Goto
<1>9. ASSUME NEW w \in Workers, Leave(w) PROVE LockInv'
  BY <1>9 DEF Leave, Goto, Down
<1>10. ASSUME NEW w \in Workers, End(w) PROVE LockInv'
  BY <1>10 DEF End, Goto
<1>11. ASSUME NEW w \in Workers, EndError(w) PROVE LockInv'
  BY <1>11 DEF EndError, Release, Down, Goto
<1>12. ASSUME NEW w \in Workers, Unlink(w) PROVE LockInv'
  BY <1>12 DEF Unlink, Release, Down, Goto
<1>13. ASSUME NEW w \in Workers, Crash(w) PROVE LockInv'
  BY <1>13 DEF Crash, Goto
<1>14. CASE UNCHANGED vars BY <1>14 DEF vars
<1> QED BY <1>1, <1>2, <1>3, <1>4, <1>5, <1>6, <1>7, <1>8, <1>9, <1>10, <1>11, <1>12, <1>13, <1>14
        DEF Next, Setup, Teardown

-------------------------------------------------------------------------------
(* Objects.                                                                   *)

\* Who goes down a level takes nobody else along.
LEMMA DownMoves ==
  ASSUME TypeOK, NEW w \in Workers, Down(w)
  PROVE  /\ \/ at[w] = 1 /\ at'[w] = 1 /\ pc'[w] = "done"
            \/ at[w] # 1 /\ at'[w] = at[w] - 1 /\ pc'[w] = "leave"
         /\ \A v \in Workers \ {w} : pc'[v] = pc[v] /\ at'[v] = at[v]
BY DEF Down, Goto, TypeOK

LEMMA ObjectQuiet ==
  ASSUME ObjectInv, NEW w \in Workers, UNCHANGED <<base, started, alive>>,
         pc'[w] \notin {"start", "record"}, \A k \in Levels : obj'[w][k] <= started[k],
         \A v \in Workers \ {w} : pc'[v] = pc[v] /\ at'[v] = at[v] /\ obj'[v] = obj[v],
         \A v \in Workers \ {w} : pc[v] = "record" => obj'[w][at[v]] # obj[v][at[v]]
  PROVE  ObjectInv'
BY DEF ObjectInv

LEMMA ObjectSame ==
  ASSUME TypeOK, ObjectInv, NEW w \in Workers, UNCHANGED <<base, started, alive, obj>>,
         pc'[w] \notin {"start", "record"},
         \A v \in Workers \ {w} : pc'[v] = pc[v] /\ at'[v] = at[v]
  PROVE  ObjectInv'
<1>1. \A k \in Levels : obj'[w][k] <= started[k] BY DEF ObjectInv
<1>2. \A v \in Workers \ {w} : pc[v] = "record" => obj'[w][at[v]] # obj[v][at[v]] BY DEF ObjectInv
<1>3. obj' = obj OBVIOUS
<1> QED BY <1>1, <1>2, <1>3, ObjectQuiet

\* A worker that moves without touching what is alive or recorded.
LEMMA KnownQuiet ==
  ASSUME KnownAlive, NEW w \in Workers, UNCHANGED <<base, alive, crashes>>,
         pc[w] # "record", pc'[w] \notin {"record", "unlink", "killed"},
         \A v \in Workers \ {w} : pc'[v] = pc[v] /\ at'[v] = at[v] /\ obj'[v] = obj[v]
  PROVE  KnownAlive'
<1> SUFFICES ASSUME crashes = 0 PROVE KnownAlive' BY DEF KnownAlive
<1>1. \A v \in Workers : pc'[v] # "killed" BY DEF KnownAlive
<1>2. ASSUME NEW k \in Levels, NEW o \in Nat, o \in alive[k], o # base[k]
      PROVE  \E v \in Workers : Recording(v, k)' /\ obj'[v][k] = o
  <2>1. PICK v \in Workers : Recording(v, k) /\ obj[v][k] = o BY <1>2 DEF KnownAlive
  <2>2. v # w BY <2>1 DEF Recording
  <2> QED BY <2>1, <2>2 DEF Recording
<1>3. ASSUME NEW v \in Workers, pc'[v] = "unlink"
      PROVE  base[at'[v]] # 0 /\ base[at'[v]] = obj'[v][at'[v]] /\ base[at'[v]] \notin alive[at'[v]]
  <2>1. v # w /\ pc[v] = "unlink" BY <1>3
  <2> QED BY <2>1 DEF KnownAlive
<1> QED BY <1>1, <1>2, <1>3 DEF KnownAlive

LEMMA ObjectStep == TypeOK /\ LockInv /\ ObjectInv /\ [Next]_vars => ObjectInv'
<1> SUFFICES ASSUME TypeOK, LockInv, ObjectInv, [Next]_vars PROVE ObjectInv' OBVIOUS
<1> USE DEF TypeOK, SettingUp, bounds, files, locks, server, LockInv, Starting
<1>1. ASSUME NEW w \in Workers, Lookup(w) PROVE ObjectInv'
  BY <1>1 DEF Lookup, Goto, ObjectInv
<1>2. ASSUME NEW w \in Workers, Refused(w) PROVE ObjectInv'
  <2>1. Down(w) BY <1>2 DEF Refused
  <2>2. pc'[w] \in {"done", "leave"} /\ \A v \in Workers \ {w} : pc'[v] = pc[v] /\ at'[v] = at[v]
    BY <2>1, DownMoves
  <2> QED BY <1>2, <2>2, ObjectSame DEF Refused
<1>3. ASSUME NEW w \in Workers, Load(w) PROVE ObjectInv'
  <2>1. CASE base[at[w]] # 0
    <3>1. obj' = [obj EXCEPT ![w][at[w]] = base[at[w]]] /\ UNCHANGED <<base, started, alive, at>>
      BY <1>3, <2>1 DEF Load
    <3>2. pc'[w] = "join" /\ \A v \in Workers \ {w} : pc'[v] = pc[v] /\ obj'[v] = obj[v]
      BY <1>3, <2>1, <3>1 DEF Load, Goto
    <3>3. \A k \in Levels : obj'[w][k] <= started[k] BY <3>1 DEF ObjectInv
    <3>4. ASSUME NEW v \in Workers \ {w}, pc[v] = "record"
          PROVE  obj'[w][at[v]] # obj[v][at[v]]
      <4>1. at[v] # at[w] BY <1>3, <3>4 DEF Load, LockInv, Starting
      <4> QED BY <3>1, <3>4, <4>1 DEF ObjectInv
    <3> QED BY <3>1, <3>2, <3>3, <3>4, ObjectQuiet
  <2>2. CASE base[at[w]] = 0
    <3>1. Down(w) /\ UNCHANGED <<base, started, alive, obj>> BY <1>3, <2>2 DEF Load
    <3> QED BY SMTT(30), <3>1, DownMoves, ObjectSame
  <2> QED BY <2>1, <2>2
<1>4. ASSUME NEW w \in Workers, Start(w) PROVE ObjectInv'
  BY <1>4 DEF Start, Goto, ObjectInv
<1>5. ASSUME NEW w \in Workers, StartError(w) PROVE ObjectInv'
  <2>1. Down(w) BY <1>5 DEF StartError
  <2>2. pc'[w] \in {"done", "leave"} /\ \A v \in Workers \ {w} : pc'[v] = pc[v] /\ at'[v] = at[v]
    BY <2>1, DownMoves
  <2> QED BY <1>5, <2>2, ObjectSame DEF StartError
<1>6. ASSUME NEW w \in Workers, Record(w) PROVE ObjectInv'
  BY <1>6 DEF Record, Goto, Release, ObjectInv
<1>7. ASSUME NEW w \in Workers, Join(w) PROVE ObjectInv'
  BY <1>7, ObjectSame DEF Join, Goto
<1>8. ASSUME NEW w \in Workers, Finish(w) PROVE ObjectInv'
  BY <1>8 DEF Finish, Goto, ObjectInv
<1>9. ASSUME NEW w \in Workers, Leave(w) PROVE ObjectInv'
  <2>1. pc'[w] \in {"done", "leave", "end"} /\ \A v \in Workers \ {w} : pc'[v] = pc[v] /\ at'[v] = at[v]
    BY <1>9, DownMoves DEF Leave, Goto
  <2> QED BY <1>9, <2>1, ObjectSame DEF Leave
<1>10. ASSUME NEW w \in Workers, End(w) PROVE ObjectInv'
  BY <1>10 DEF End, Goto, ObjectInv
<1>11. ASSUME NEW w \in Workers, EndError(w) PROVE ObjectInv'
  <2>1. Down(w) BY <1>11 DEF EndError
  <2>2. pc'[w] \in {"done", "leave"} /\ \A v \in Workers \ {w} : pc'[v] = pc[v] /\ at'[v] = at[v]
    BY <2>1, DownMoves
  <2> QED BY <1>11, <2>2, ObjectSame DEF EndError
<1>12. ASSUME NEW w \in Workers, Unlink(w) PROVE ObjectInv'
  <2>1. Down(w) BY <1>12 DEF Unlink
  <2>2. pc'[w] \in {"done", "leave"} /\ \A v \in Workers \ {w} : pc'[v] = pc[v] /\ at'[v] = at[v]
    BY <2>1, DownMoves
  <2>3. base' = [base EXCEPT ![at[w]] = 0] /\ UNCHANGED <<started, alive, obj>> BY <1>12 DEF Unlink
  <2>4. \A k \in Levels : base'[k] \in {0, base[k]} BY <2>3
  <2>5. \A k \in Levels : started[k] \in Nat OBVIOUS
  <2> USE DEF ObjectInv
  <2>6. \A k \in Levels : base'[k] <= started'[k] /\ alive'[k] \subseteq 1..started'[k] BY <2>3, <2>4, <2>5
  <2>7. \A v \in Workers, k \in Levels : obj'[v][k] <= started'[k] BY <2>3
  <2>8. \A v \in Workers : pc'[v] \in {"start", "record"} => base'[at'[v]] = 0
    BY <2>2, <2>3, <2>4
  <2>9. \A u, v \in Workers : pc'[v] = "record" /\ u # v => obj'[u][at'[v]] # obj'[v][at'[v]]
    BY <2>2, <2>3
  <2> QED BY <2>6, <2>7, <2>8, <2>9
<1>13. ASSUME NEW w \in Workers, Crash(w) PROVE ObjectInv'
  BY <1>13 DEF Crash, Goto, ObjectInv
<1>14. CASE UNCHANGED vars BY <1>14 DEF vars, ObjectInv, Recording
<1> QED BY <1>1, <1>2, <1>3, <1>4, <1>5, <1>6, <1>7, <1>8, <1>9, <1>10, <1>11, <1>12, <1>13, <1>14
        DEF Next, Setup, Teardown

LEMMA LastUserStep == TypeOK /\ LockInv /\ LastUser /\ [Next]_vars => LastUser'
<1> SUFFICES ASSUME TypeOK, LockInv, LastUser, [Next]_vars PROVE LastUser' OBVIOUS
<1> USE NobodyAssumption DEF TypeOK, SettingUp, bounds, files, locks, server, LockInv, LastUser, Ending
<1>1. ASSUME NEW w \in Workers, Lookup(w) PROVE LastUser'
  BY <1>1 DEF Lookup, Goto
<1>2. ASSUME NEW w \in Workers, Refused(w) PROVE LastUser'
  BY <1>2 DEF Refused, Down, Goto
<1>3. ASSUME NEW w \in Workers, Load(w) PROVE LastUser'
  BY <1>3 DEF Load, Goto, Release, Down
<1>4. ASSUME NEW w \in Workers, Start(w) PROVE LastUser'
  BY <1>4 DEF Start, Goto
<1>5. ASSUME NEW w \in Workers, StartError(w) PROVE LastUser'
  BY <1>5 DEF StartError, Release, Down, Goto
<1>6. ASSUME NEW w \in Workers, Record(w) PROVE LastUser'
  BY <1>6 DEF Record, Goto, Release
<1>7. ASSUME NEW w \in Workers, Join(w) PROVE LastUser'
  BY <1>7 DEF Join, Goto
<1>8. ASSUME NEW w \in Workers, Finish(w) PROVE LastUser'
  BY <1>8 DEF Finish, Goto
<1>9. ASSUME NEW w \in Workers, Leave(w) PROVE LastUser'
  BY <1>9 DEF Leave, Goto, Down
<1>10. ASSUME NEW w \in Workers, End(w) PROVE LastUser'
  BY <1>10 DEF End, Goto
<1>11. ASSUME NEW w \in Workers, EndError(w) PROVE LastUser'
  BY <1>11 DEF EndError, Release, Down, Goto
<1>12. ASSUME NEW w \in Workers, Unlink(w) PROVE LastUser'
  BY <1>12 DEF Unlink, Release, Down, Goto
<1>13. ASSUME NEW w \in Workers, Crash(w) PROVE LastUser'
  BY <1>13 DEF Crash, Goto
<1>14. CASE UNCHANGED vars BY <1>14 DEF vars, LastUser, Recording
<1> QED BY <1>1, <1>2, <1>3, <1>4, <1>5, <1>6, <1>7, <1>8, <1>9, <1>10, <1>11, <1>12, <1>13, <1>14
        DEF Next, Setup, Teardown

LEMMA KnownStep == TypeOK /\ LockInv /\ ObjectInv /\ KnownAlive /\ [Next]_vars => KnownAlive'
<1> SUFFICES ASSUME TypeOK, LockInv, ObjectInv, KnownAlive, [Next]_vars PROVE KnownAlive' OBVIOUS
<1> USE NobodyAssumption DEF TypeOK, SettingUp, bounds, files, locks, server, LockInv, Starting, Ending
<1>1. ASSUME NEW w \in Workers, Lookup(w) PROVE KnownAlive'
  <2>1. UNCHANGED <<base, alive, crashes, obj>> /\ pc[w] # "record" BY <1>1 DEF Lookup
  <2>2. pc'[w] \notin {"record", "unlink", "killed"} /\ \A v \in Workers \ {w} : pc'[v] = pc[v] /\ at'[v] = at[v]
    BY <1>1 DEF Lookup, Goto
  <2> QED BY <2>1, <2>2, KnownQuiet
<1>2. ASSUME NEW w \in Workers, Refused(w) PROVE KnownAlive'
  <2>1. Down(w) /\ UNCHANGED <<base, alive, crashes, obj>> /\ pc[w] # "record" BY <1>2 DEF Refused
  <2>2. pc'[w] \in {"done", "leave"} /\ \A v \in Workers \ {w} : pc'[v] = pc[v] /\ at'[v] = at[v]
    BY <2>1, DownMoves
  <2> QED BY SMTT(30), <2>1, <2>2, KnownQuiet
<1>3. ASSUME NEW w \in Workers, Load(w) PROVE KnownAlive'
  <2>1. UNCHANGED <<base, alive, crashes>> /\ pc[w] = "load" BY <1>3 DEF Load
  <2>2. pc'[w] \in {"join", "done", "leave"} BY <1>3, DownMoves DEF Load, Goto
  <2>3. \A v \in Workers \ {w} : pc'[v] = pc[v] /\ at'[v] = at[v] /\ obj'[v] = obj[v]
    BY <1>3, DownMoves DEF Load, Goto
  <2> QED BY <2>1, <2>2, <2>3, KnownQuiet
<1>4. ASSUME NEW w \in Workers, Start(w) PROVE KnownAlive'
  BY <1>4 DEF Start, Goto, ObjectInv, KnownAlive, Recording
<1>5. ASSUME NEW w \in Workers, StartError(w) PROVE KnownAlive'
  <2>1. Down(w) /\ UNCHANGED <<base, alive, crashes, obj>> /\ pc[w] # "record" BY <1>5 DEF StartError
  <2>2. pc'[w] \in {"done", "leave"} /\ \A v \in Workers \ {w} : pc'[v] = pc[v] /\ at'[v] = at[v]
    BY <2>1, DownMoves
  <2> QED BY SMTT(30), <2>1, <2>2, KnownQuiet
<1>6. ASSUME NEW w \in Workers, Record(w) PROVE KnownAlive'
  <2> SUFFICES ASSUME crashes = 0 PROVE KnownAlive' BY <1>6 DEF Record, KnownAlive
  <2> DEFINE k == at[w]
  <2>1. base' = [base EXCEPT ![k] = obj[w][k]] /\ UNCHANGED <<alive, at, obj, crashes>>
        /\ pc[w] = "record" /\ pc' = [pc EXCEPT ![w] = "join"]
    BY <1>6 DEF Record, Goto
  <2>2. \A v \in Workers : pc'[v] # "killed" BY <2>1 DEF KnownAlive
  <2> USE DEF KnownAlive, ObjectInv, Recording
  <2>3. ASSUME NEW l \in Levels, NEW o \in Nat, o \in alive[l]
        PROVE  o = base'[l] \/ \E v \in Workers : Recording(v, l)' /\ obj'[v][l] = o
    <3>1. CASE o = base[l] /\ l = k
      BY <2>1, <2>3, <3>1
    <3>2. CASE o = base[l] /\ l # k BY <2>1, <3>2
    <3>3. CASE o # base[l]
      <4>1. PICK v \in Workers : Recording(v, l) /\ obj[v][l] = o BY <2>3, <3>3
      <4> QED BY <2>1, <4>1
    <3> QED BY <3>1, <3>2, <3>3
  <2>4. ASSUME NEW v \in Workers, pc'[v] = "unlink"
        PROVE  base'[at'[v]] # 0 /\ base'[at'[v]] = obj'[v][at'[v]] /\ base'[at'[v]] \notin alive'[at'[v]]
    <3>1. pc[v] = "unlink" /\ v # w BY <2>1, <2>4
    <3>2. base[k] = 0 BY <2>1
    <3>3. at[v] # k => base'[at'[v]] = base[at[v]] BY <2>1, <3>1
    <3>4. at[v] # k BY <2>1, <3>1, <3>2
    <3> QED BY <2>1, <3>1, <3>3, <3>4
  <2> QED BY <2>1, <2>2, <2>3, <2>4
<1>7. ASSUME NEW w \in Workers, Join(w) PROVE KnownAlive'
  <2>1. UNCHANGED <<base, alive, crashes, obj>> /\ pc[w] # "record" BY <1>7 DEF Join
  <2>2. pc'[w] \notin {"record", "unlink", "killed"} /\ \A v \in Workers \ {w} : pc'[v] = pc[v] /\ at'[v] = at[v]
    BY <1>7 DEF Join, Goto
  <2> QED BY <2>1, <2>2, KnownQuiet
<1>8. ASSUME NEW w \in Workers, Finish(w) PROVE KnownAlive'
  <2>1. UNCHANGED <<base, alive, crashes, obj>> /\ pc[w] # "record" BY <1>8 DEF Finish
  <2>2. pc'[w] \notin {"record", "unlink", "killed"} /\ \A v \in Workers \ {w} : pc'[v] = pc[v] /\ at'[v] = at[v]
    BY <1>8 DEF Finish, Goto
  <2> QED BY <2>1, <2>2, KnownQuiet
<1>9. ASSUME NEW w \in Workers, Leave(w) PROVE KnownAlive'
  <2>1. pc'[w] \in {"done", "leave", "end"} /\ \A v \in Workers \ {w} : pc'[v] = pc[v] /\ at'[v] = at[v]
    BY <1>9, DownMoves DEF Leave, Goto
  <2> QED BY <1>9, <2>1, KnownQuiet DEF Leave
<1>10. ASSUME NEW w \in Workers, End(w) PROVE KnownAlive'
  BY <1>10 DEF End, Goto, ObjectInv, KnownAlive, Recording
<1>11. ASSUME NEW w \in Workers, EndError(w) PROVE KnownAlive'
  <2>1. Down(w) /\ UNCHANGED <<base, alive, crashes, obj>> /\ pc[w] # "record" BY <1>11 DEF EndError
  <2>2. pc'[w] \in {"done", "leave"} /\ \A v \in Workers \ {w} : pc'[v] = pc[v] /\ at'[v] = at[v]
    BY <2>1, DownMoves
  <2> QED BY SMTT(30), <2>1, <2>2, KnownQuiet
<1>12. ASSUME NEW w \in Workers, Unlink(w) PROVE KnownAlive'
  BY <1>12 DEF Unlink, Release, Down, Goto, ObjectInv, KnownAlive, Recording
<1>13. ASSUME NEW w \in Workers, Crash(w) PROVE KnownAlive'
  BY <1>13 DEF Crash, Goto, ObjectInv, KnownAlive, Recording
<1>14. CASE UNCHANGED vars BY <1>14 DEF vars, KnownAlive, Recording
<1> QED BY <1>1, <1>2, <1>3, <1>4, <1>5, <1>6, <1>7, <1>8, <1>9, <1>10, <1>11, <1>12, <1>13, <1>14
        DEF Next, Setup, Teardown

-------------------------------------------------------------------------------
(* The counts.                                                                *)

\* Only who joins or leaves a level changes who is counted there.
Joined(w, k) == /\ Users(k)' = Users(k) \union {w} /\ w \notin Users(k)
                /\ \A l \in Levels \ {k} : Users(l)' = Users(l)
Left(w, k) == /\ Users(k)' = Users(k) \ {w} /\ w \in Users(k)
              /\ \A l \in Levels \ {k} : Users(l)' = Users(l)

LEMMA LevelRange ==
  ASSUME TypeOK, NEW w \in Workers
  PROVE  at[w] \in Levels /\ at[w] \in Nat /\ at[w] >= 1
<1>1. at[w] \in 1..Depth /\ Depth \in Nat BY DepthAssumption DEF Levels, TypeOK
<1> QED BY <1>1 DEF Levels

LEMMA DownCounted ==
  ASSUME TypeOK, NEW w \in Workers, Down(w), pc[w] \in SettingUp \union Ending
  PROVE  \A k \in Levels : Users(k)' = Users(k)
<1>1. \A v \in Workers \ {w} : pc'[v] = pc[v] /\ at'[v] = at[v] BY DownMoves
<1>2. ASSUME NEW k \in Levels PROVE Counted(w, k)' <=> Counted(w, k)
  <2>1. k \in Nat /\ k >= 1 BY DepthAssumption DEF Levels
  <2>2. Counted(w, k) <=> k < at[w] BY DEF Counted, SettingUp, Ending
  <2>3. CASE at[w] = 1 BY <2>1, <2>2, <2>3, DownMoves DEF Counted, SettingUp
  <2>4. CASE at[w] # 1
    <3>1. at'[w] = at[w] - 1 /\ pc'[w] = "leave" BY <2>4, DownMoves
    <3> QED BY <2>1, <2>2, <3>1, LevelRange DEF Counted, SettingUp
  <2> QED BY <2>3, <2>4
<1>3. ASSUME NEW k \in Levels, NEW v \in Workers PROVE Counted(v, k)' <=> Counted(v, k)
  BY <1>1, <1>2, <1>3 DEF Counted
<1> QED BY <1>3 DEF Users

\* Who stays at its level, and among those who are set up, running or ending.
Stays(w) == /\ \/ pc[w] \in SettingUp /\ pc'[w] \in SettingUp
               \/ pc[w] = "run" /\ pc'[w] = "leave"
               \/ pc[w] = "end" /\ pc'[w] = "unlink"
            /\ at' = at
            /\ \A v \in Workers \ {w} : pc'[v] = pc[v]

LEMMA StaysCounted ==
  ASSUME TypeOK, NEW w \in Workers, Stays(w)
  PROVE  \A k \in Levels : Users(k)' = Users(k)
<1>1. ASSUME NEW k \in Levels, NEW v \in Workers PROVE Counted(v, k)' <=> Counted(v, k)
  BY <1>1 DEF Stays, Counted, SettingUp
<1> QED BY <1>1 DEF Users

LEMMA JoinCounted ==
  ASSUME TypeOK, NEW w \in Workers, Join(w), NEW n \in Levels, n = at[w] PROVE Joined(w, n)
<1>1. ASSUME NEW k \in Levels, NEW v \in Workers
      PROVE  Counted(v, k)' <=> Counted(v, k) \/ (v = w /\ k = n)
  <2>1. k \in Nat /\ k \in 1..Depth /\ Depth \in Nat BY DepthAssumption DEF Levels
  <2>2. CASE v # w BY <2>2 DEF Join, Goto, Counted, TypeOK
  <2>3. CASE v = w
    <3>1. Counted(w, k) <=> k < at[w] BY DEF Join, Counted, SettingUp
    <3>2. CASE at[w] = Depth
      <4>1. pc'[w] = "run" /\ at'[w] = Depth BY <3>2 DEF Join, Goto, TypeOK
      <4> QED BY <2>1, <2>3, <3>1, <3>2, <4>1 DEF Counted, SettingUp
    <3>3. CASE at[w] # Depth
      <4>1. pc'[w] = "lookup" /\ at'[w] = at[w] + 1 BY <3>3 DEF Join, Goto, TypeOK
      <4> QED BY <2>1, <2>3, <3>1, <4>1, LevelRange DEF Counted, SettingUp
    <3> QED BY <3>2, <3>3
  <2> QED BY <2>2, <2>3
<1>2. ~Counted(w, n)
  BY LevelRange DEF Counted, SettingUp, Join
<1> QED BY <1>1, <1>2 DEF Users, Joined

LEMMA LeaveCounted ==
  ASSUME TypeOK, NEW w \in Workers, Leave(w), NEW n \in Levels, n = at[w] PROVE Left(w, n)
<1>0. pc[w] = "leave" /\ \/ pc'[w] = "end" /\ at' = at /\ \A v \in Workers \ {w} : pc'[v] = pc[v]
                         \/ Down(w)
  BY DEF Leave, Goto, TypeOK
<1>1. ASSUME NEW k \in Levels, NEW v \in Workers
      PROVE  Counted(v, k)' <=> Counted(v, k) /\ ~(v = w /\ k = n)
  <2>1. k \in Nat /\ k >= 1 BY DepthAssumption DEF Levels
  <2>2. CASE v # w BY <1>0, <2>2, DownMoves DEF Counted
  <2>3. CASE v = w
    <3>1. Counted(w, k) <=> k <= at[w] BY <1>0 DEF Counted, SettingUp
    <3>2. CASE Down(w) /\ at[w] # 1
      <4>1. pc'[w] = "leave" /\ at'[w] = at[w] - 1 BY <3>2, DownMoves
      <4> QED BY <2>1, <2>3, <3>1, <4>1, LevelRange DEF Counted, SettingUp
    <3>3. CASE Down(w) /\ at[w] = 1
      <4>1. pc'[w] = "done" BY <3>3, DownMoves
      <4> QED BY <2>1, <2>3, <3>1, <3>3, <4>1 DEF Counted, SettingUp
    <3>4. CASE pc'[w] = "end" /\ at' = at
      BY <2>1, <2>3, <3>1, <3>4, LevelRange DEF Counted, SettingUp
    <3> QED BY <1>0, <3>2, <3>3, <3>4
  <2> QED BY <2>2, <2>3
<1>2. Counted(w, n)
  BY <1>0, LevelRange DEF Counted, SettingUp
<1> QED BY <1>1, <1>2 DEF Users, Left

LEMMA CrashCounted ==
  ASSUME TypeOK, NEW w \in Workers, Crash(w) PROVE \A k \in Levels : Users(k)' \subseteq Users(k)
<1>1. ASSUME NEW k \in Levels, NEW v \in Workers, Counted(v, k)' PROVE Counted(v, k)
  BY <1>1 DEF Crash, Goto, Counted, SettingUp, TypeOK
<1> QED BY <1>1 DEF Users

LEMMA CountSame ==
  ASSUME CountRight, \A k \in Levels : Users(k)' = Users(k), UNCHANGED <<users, crashes>>
  PROVE  CountRight'
<1>1. \A k \in Levels : Cardinality(Users(k)') = Cardinality(Users(k)) OBVIOUS
<1> QED BY <1>1 DEF CountRight

LEMMA CountStep == TypeOK /\ LastUser /\ CountRight /\ [Next]_vars => CountRight'
<1> SUFFICES ASSUME TypeOK, LastUser, CountRight, [Next]_vars PROVE CountRight' OBVIOUS
<1> USE DEF TypeOK, SettingUp, bounds, files, locks, server
<1>1. ASSUME NEW w \in Workers, Lookup(w) PROVE CountRight'
  <2>1. Stays(w) BY <1>1 DEF Lookup, Goto, Stays
  <2>2. UNCHANGED <<users, crashes>> BY <1>1 DEF Lookup
  <2> QED BY <2>1, <2>2, StaysCounted, CountSame
<1>2. ASSUME NEW w \in Workers, Refused(w) PROVE CountRight'
  <2>1. Down(w) /\ pc[w] \in SettingUp \union Ending /\ UNCHANGED <<users, crashes>> BY <1>2 DEF Refused, Ending
  <2> QED BY <2>1, DownCounted, CountSame
<1>3. ASSUME NEW w \in Workers, Load(w) PROVE CountRight'
  <2>1. UNCHANGED <<users, crashes>> BY <1>3 DEF Load
  <2>2. CASE base[at[w]] # 0
    <3>1. Stays(w) BY <1>3, <2>2 DEF Load, Goto, Stays
    <3> QED BY <2>1, <3>1, StaysCounted, CountSame
  <2>3. CASE base[at[w]] = 0
    <3>1. Down(w) /\ pc[w] \in SettingUp BY <1>3, <2>3 DEF Load
    <3> QED BY <2>1, <3>1, DownCounted, CountSame
  <2> QED BY <2>2, <2>3
<1>4. ASSUME NEW w \in Workers, Start(w) PROVE CountRight'
  <2>1. Stays(w) BY <1>4 DEF Start, Goto, Stays
  <2>2. UNCHANGED <<users, crashes>> BY <1>4 DEF Start
  <2> QED BY <2>1, <2>2, StaysCounted, CountSame
<1>5. ASSUME NEW w \in Workers, StartError(w) PROVE CountRight'
  <2>1. Down(w) /\ pc[w] \in SettingUp \union Ending /\ UNCHANGED <<users, crashes>> BY <1>5 DEF StartError, Ending
  <2> QED BY <2>1, DownCounted, CountSame
<1>6. ASSUME NEW w \in Workers, Record(w) PROVE CountRight'
  <2>1. Stays(w) BY <1>6 DEF Record, Goto, Stays
  <2>2. UNCHANGED <<users, crashes>> BY <1>6 DEF Record
  <2> QED BY <2>1, <2>2, StaysCounted, CountSame
<1>7. ASSUME NEW w \in Workers, Join(w) PROVE CountRight'
  <2>0. PICK n \in Levels : n = at[w] BY LevelRange
  <2>1. Joined(w, n) BY <1>7, <2>0, JoinCounted
  <2>2. Cardinality(Users(n)') = Cardinality(Users(n)) + 1
    BY <2>1, FiniteUsers, FS_AddElement DEF Joined
  <2>3. /\ users'[n] = IF users[n] = NoFile THEN 1 ELSE users[n] + 1
        /\ \A k \in Levels \ {n} : users'[k] = users[k]
        /\ crashes' = crashes
    BY <1>7, <2>0 DEF Join
  <2>4. ASSUME NEW k \in Levels
        PROVE  LET count == IF users'[k] = NoFile THEN 0 ELSE users'[k]
               IN  /\ Cardinality(Users(k)') <= count
                   /\ crashes' = 0 => Cardinality(Users(k)') = count
    <3>1. CASE k # n
      <4>1. Users(k)' = Users(k) /\ users'[k] = users[k] BY <2>1, <2>3, <3>1 DEF Joined
      <4> QED BY <2>3, <4>1 DEF CountRight
    <3>2. CASE k = n
      <4>1. Cardinality(Users(k)) \in Nat /\ users[k] \in Nat \union {-1} BY FiniteUsers DEF NoFile
      <4> QED BY <2>2, <2>3, <3>2, <4>1 DEF CountRight, NoFile
    <3> QED BY <3>1, <3>2
  <2> QED BY <2>4 DEF CountRight
<1>8. ASSUME NEW w \in Workers, Finish(w) PROVE CountRight'
  <2>1. Stays(w) BY <1>8 DEF Finish, Goto, Stays
  <2>2. UNCHANGED <<users, crashes>> BY <1>8 DEF Finish
  <2> QED BY <2>1, <2>2, StaysCounted, CountSame
<1>9. ASSUME NEW w \in Workers, Leave(w) PROVE CountRight'
  <2>0. PICK n \in Levels : n = at[w] BY LevelRange
  <2>1. Left(w, n) BY <1>9, <2>0, LeaveCounted
  <2>2. Cardinality(Users(n)') = Cardinality(Users(n)) - 1
    BY <2>1, FiniteUsers, FS_RemoveElement DEF Left
  <2>3. /\ users'[n] = users[n] - 1 /\ users[n] # NoFile
        /\ \A k \in Levels \ {n} : users'[k] = users[k]
        /\ crashes' = crashes
    BY <1>9, <2>0 DEF Leave
  <2>4. Cardinality(Users(n)) >= 1 BY <2>1, FiniteUsers, FS_EmptySet DEF Left
  <2>5. ASSUME NEW k \in Levels
        PROVE  LET count == IF users'[k] = NoFile THEN 0 ELSE users'[k]
               IN  /\ Cardinality(Users(k)') <= count
                   /\ crashes' = 0 => Cardinality(Users(k)') = count
    <3>1. CASE k # n
      <4>1. Users(k)' = Users(k) /\ users'[k] = users[k] BY <2>1, <2>3, <3>1 DEF Left
      <4> QED BY <2>3, <4>1 DEF CountRight
    <3>2. CASE k = n
      <4>1. Cardinality(Users(k)) \in Nat /\ users[k] \in Nat \union {-1} BY FiniteUsers DEF NoFile
      <4> QED BY <2>2, <2>3, <2>4, <3>2, <4>1 DEF CountRight, NoFile
    <3> QED BY <3>1, <3>2
  <2> QED BY <2>5 DEF CountRight
<1>10. ASSUME NEW w \in Workers, End(w) PROVE CountRight'
  <2>1. Stays(w) BY <1>10 DEF End, Goto, Stays
  <2>2. UNCHANGED <<users, crashes>> BY <1>10 DEF End
  <2> QED BY <2>1, <2>2, StaysCounted, CountSame
<1>11. ASSUME NEW w \in Workers, EndError(w) PROVE CountRight'
  <2>1. Down(w) /\ pc[w] \in SettingUp \union Ending /\ UNCHANGED <<users, crashes>> BY <1>11 DEF EndError, Ending
  <2> QED BY <2>1, DownCounted, CountSame
<1>12. ASSUME NEW w \in Workers, Unlink(w) PROVE CountRight'
  <2>1. Down(w) /\ pc[w] \in SettingUp \union Ending /\ crashes' = crashes BY <1>12 DEF Unlink, Ending
  <2>2. \A k \in Levels : Users(k)' = Users(k) BY <2>1, DownCounted
  <2>3. \A k \in Levels : Cardinality(Users(k)') = Cardinality(Users(k)) BY <2>2
  <2>4. users[at[w]] = 0 /\ at[w] \in Levels BY <1>12, LevelRange DEF Unlink, LastUser, Ending
  <2>5. ASSUME NEW k \in Levels
        PROVE  (IF users'[k] = NoFile THEN 0 ELSE users'[k]) = (IF users[k] = NoFile THEN 0 ELSE users[k])
    BY <1>12, <2>4 DEF Unlink
  <2> QED BY <2>1, <2>3, <2>5 DEF CountRight
<1>13. ASSUME NEW w \in Workers, Crash(w) PROVE CountRight'
  <2>1. crashes' = crashes + 1 /\ users' = users BY <1>13 DEF Crash
  <2>2. crashes' # 0 BY <2>1
  <2>3. ASSUME NEW k \in Levels PROVE Cardinality(Users(k)') <= Cardinality(Users(k))
    BY <1>13, CrashCounted, FiniteUsers, FS_Subset
  <2>4. \A k \in Levels : Cardinality(Users(k)) \in Nat /\ Cardinality(Users(k)') \in Nat
    <3> SUFFICES ASSUME NEW k \in Levels
                 PROVE  Cardinality(Users(k)) \in Nat /\ Cardinality(Users(k)') \in Nat
      OBVIOUS
    <3>1. Users(k)' \subseteq Users(k) BY <1>13, CrashCounted
    <3> QED BY <3>1, FiniteUsers, FS_Subset, FS_CardinalityType
  <2> QED BY <2>1, <2>2, <2>3, <2>4 DEF CountRight
<1>14. CASE UNCHANGED vars BY <1>14 DEF vars, CountRight, Users, Counted
<1> QED BY <1>1, <1>2, <1>3, <1>4, <1>5, <1>6, <1>7, <1>8, <1>9, <1>10, <1>11, <1>12, <1>13, <1>14
        DEF Next, Setup, Teardown

-------------------------------------------------------------------------------
(* What a step of a worker changes for the others.                            *)

Acts(w) == Setup(w) \/ Teardown(w) \/ Crash(w)

LEMMA OthersStay ==
  ASSUME TypeOK, NEW w \in Workers, Acts(w)
  PROVE  /\ \A v \in Workers \ {w} : pc'[v] = pc[v] /\ at'[v] = at[v] /\ obj'[v] = obj[v]
         /\ together' = together
<1> USE DEF TypeOK, bounds, files, locks, server
<1>1. CASE Lookup(w) BY <1>1 DEF Lookup, Goto
<1>2. CASE Refused(w) BY <1>2, DownMoves DEF Refused
<1>3. CASE Load(w) BY <1>3, DownMoves DEF Load, Goto
<1>4. CASE Start(w) BY <1>4 DEF Start, Goto
<1>5. CASE StartError(w) BY <1>5, DownMoves DEF StartError
<1>6. CASE Record(w) BY <1>6 DEF Record, Goto
<1>7. CASE Join(w) BY <1>7 DEF Join, Goto
<1>8. CASE Finish(w) BY <1>8 DEF Finish, Goto
<1>9. CASE Leave(w) BY <1>9, DownMoves DEF Leave, Goto
<1>10. CASE End(w) BY <1>10 DEF End, Goto
<1>11. CASE EndError(w) BY <1>11, DownMoves DEF EndError
<1>12. CASE Unlink(w) BY <1>12, DownMoves DEF Unlink
<1>13. CASE Crash(w) BY <1>13 DEF Crash, Goto
<1> QED BY <1>1, <1>2, <1>3, <1>4, <1>5, <1>6, <1>7, <1>8, <1>9, <1>10, <1>11, <1>12, <1>13
        DEF Acts, Setup, Teardown

\* Nobody sets up again.
LEMMA SetUpOnce ==
  ASSUME TypeOK, NEW w \in Workers, Acts(w), pc'[w] \in SettingUp
  PROVE  pc[w] \in SettingUp
<1> USE DEF TypeOK, SettingUp
<1>1. CASE Setup(w)
  BY <1>1 DEF Setup, Lookup, Refused, Load, Start, StartError, Record, Join
<1>2. CASE Finish(w) BY <1>2 DEF Finish, Goto
<1>3. CASE Leave(w) BY <1>3, DownMoves DEF Leave, Goto
<1>4. CASE End(w) BY <1>4 DEF End, Goto
<1>5. CASE EndError(w) BY <1>5, DownMoves DEF EndError
<1>6. CASE Unlink(w) BY <1>6, DownMoves DEF Unlink
<1>7. CASE Crash(w) BY <1>7 DEF Crash, Goto
<1> QED BY <1>1, <1>2, <1>3, <1>4, <1>5, <1>6, <1>7 DEF Acts, Teardown

\* Only a leaving worker comes to end an object.
LEMMA EndingFrom ==
  ASSUME TypeOK, NEW w \in Workers, Acts(w), pc'[w] \in Ending
  PROVE  End(w) \/ (Leave(w) /\ MayLeave)
<1> USE DEF TypeOK, Ending
<1>1. CASE Lookup(w) BY <1>1 DEF Lookup, Goto
<1>2. CASE Refused(w) BY <1>2, DownMoves DEF Refused
<1>3. CASE Load(w) BY <1>3, DownMoves DEF Load, Goto
<1>4. CASE Start(w) BY <1>4 DEF Start, Goto
<1>5. CASE StartError(w) BY <1>5, DownMoves DEF StartError
<1>6. CASE Record(w) BY <1>6 DEF Record, Goto
<1>7. CASE Join(w) BY <1>7 DEF Join, Goto
<1>8. CASE Finish(w) BY <1>8 DEF Finish, Goto
<1>9. CASE Leave(w) BY <1>9 DEF Leave
<1>11. CASE EndError(w) BY <1>11, DownMoves DEF EndError
<1>12. CASE Unlink(w) BY <1>12, DownMoves DEF Unlink
<1>13. CASE Crash(w) BY <1>13 DEF Crash, Goto
<1> QED BY <1>1, <1>2, <1>3, <1>4, <1>5, <1>6, <1>7, <1>8, <1>9, <1>11, <1>12, <1>13
        DEF Acts, Setup, Teardown

\* Only End takes an object away, only Record puts one into a base file.
LEMMA AliveKept ==
  ASSUME TypeOK, NEW w \in Workers, Acts(w), ~End(w), NEW k \in Levels
  PROVE  alive[k] \subseteq alive'[k]
BY SMTT(30) DEF Acts, Setup, Teardown, Lookup, Refused, Load, Start, StartError, Record, Join, Finish,
       Leave, EndError, Unlink, Crash, TypeOK, files, locks, server

LEMMA BaseFrom ==
  ASSUME TypeOK, NEW w \in Workers, Acts(w), NEW k \in Levels, base'[k] # 0, base'[k] # base[k]
  PROVE  pc[w] = "record" /\ at[w] = k /\ base'[k] = obj[w][k] /\ UNCHANGED alive
<1>1. Record(w) \/ Unlink(w)
  BY DEF Acts, Setup, Teardown, Lookup, Refused, Load, Start, StartError, Join, Finish,
         Leave, End, EndError, Crash, files
<1>2. CASE Record(w) BY <1>2 DEF Record, TypeOK, server
<1>3. CASE Unlink(w) BY <1>3 DEF Unlink, TypeOK
<1> QED BY <1>1, <1>2, <1>3

\* What a worker has it had before, or it loads or starts it now.
LEMMA HadBefore ==
  ASSUME TypeOK, NEW w \in Workers, Acts(w), NEW k \in Levels, Has(w, k)'
  PROVE  \/ Has(w, k) /\ obj'[w][k] = obj[w][k]
         \/ k = at[w] /\ Load(w) /\ base[k] # 0 /\ obj'[w][k] = base[k]
         \/ k = at[w] /\ Start(w) /\ obj'[w][k] \in alive'[k]
<1> USE DEF TypeOK, bounds, files, locks, server
<1>0. k \in Nat /\ k >= 1 /\ k <= Depth /\ Depth \in Nat BY DepthAssumption DEF Levels
<1>a. at[w] \in Nat /\ at[w] >= 1 BY LevelRange
<1>b. ASSUME Down(w) PROVE Counted(w, k)' /\ k < at[w]
  <2>1. at[w] # 1 /\ at'[w] = at[w] - 1 /\ pc'[w] = "leave"
    BY <1>b, DownMoves DEF Has, Counted, SettingUp
  <2>2. k <= at[w] - 1 BY <2>1 DEF Has, Counted, SettingUp
  <2> QED BY <1>0, <1>a, <2>1, <2>2 DEF Has, Counted, SettingUp
<1>1. CASE Lookup(w)
  BY <1>1 DEF Lookup, Goto, Has, Counted, SettingUp
<1>2. CASE Refused(w)
  BY <1>2, <1>b DEF Refused, Has, Counted, SettingUp
<1>3. CASE Load(w)
  <2>1. CASE base[at[w]] # 0
    <3>1. /\ obj' = [obj EXCEPT ![w][at[w]] = base[at[w]]]
          /\ pc[w] = "load" /\ pc'[w] = "join" /\ at' = at
      BY <1>3, <2>1 DEF Load, Goto
    <3>2. CASE k = at[w] BY <1>3, <2>1, <3>1, <3>2
    <3>3. CASE k # at[w]
      <4>1. obj'[w][k] = obj[w][k] BY <3>1, <3>3
      <4> QED BY <3>1, <3>3, <4>1 DEF Has, Counted, SettingUp
    <3> QED BY <3>2, <3>3
  <2>2. CASE base[at[w]] = 0
    <3>1. Down(w) /\ pc[w] = "load" /\ obj' = obj BY <1>3, <2>2 DEF Load
    <3> QED BY <3>1, <1>b DEF Has, Counted, SettingUp
  <2> QED BY <2>1, <2>2
<1>4. CASE Start(w)
  <2>1. /\ obj' = [obj EXCEPT ![w][at[w]] = started[at[w]] + 1]
        /\ alive' = [alive EXCEPT ![at[w]] = @ \union {started[at[w]] + 1}]
        /\ pc[w] = "start" /\ pc'[w] = "record" /\ at' = at
    BY <1>4 DEF Start, Goto
  <2>2. CASE k = at[w] BY <1>4, <2>1, <2>2
  <2>3. CASE k # at[w]
    <3>1. obj'[w][k] = obj[w][k] BY <2>1, <2>3
    <3> QED BY <2>1, <2>3, <3>1 DEF Has, Counted, SettingUp
  <2> QED BY <2>2, <2>3
<1>5. CASE StartError(w)
  BY <1>5, <1>b DEF StartError, Has, Counted, SettingUp
<1>6. CASE Record(w)
  BY <1>6 DEF Record, Goto, Has, Counted, SettingUp
<1>7. CASE Join(w)
  <2>1. obj' = obj /\ pc[w] = "join" BY <1>7 DEF Join
  <2>2. CASE at[w] = Depth
    BY <1>7, <1>0, <2>1, <2>2 DEF Join, Goto, Has, Counted, SettingUp
  <2>3. CASE at[w] # Depth
    <3>1. pc'[w] = "lookup" /\ at'[w] = at[w] + 1 BY <1>7, <2>3 DEF Join, Goto
    <3>2. k < at[w] + 1 BY <3>1 DEF Has, Counted, SettingUp
    <3>3. k < at[w] \/ k = at[w]
      <4>1. \A m \in Nat : k < m + 1 => k < m \/ k = m BY <1>0
      <4> QED BY <1>a, <3>2, <4>1
    <3>4. Has(w, k)
      <4>1. CASE k < at[w] BY <2>1, <4>1 DEF Has, Counted, SettingUp
      <4>2. CASE k = at[w] BY <2>1, <4>2 DEF Has
      <4> QED BY <3>3, <4>1, <4>2
    <3> QED BY <2>1, <3>4
  <2> QED BY <2>2, <2>3
<1>8. CASE Finish(w)
  BY <1>8 DEF Finish, Goto, Has, Counted, SettingUp
<1>9. CASE Leave(w)
  <2>1. obj' = obj /\ pc[w] = "leave" BY <1>9 DEF Leave
  <2>2. CASE users[at[w]] = 1
    BY <1>9, <1>0, <1>a, <2>1, <2>2 DEF Leave, Goto, Has, Counted, SettingUp
  <2>3. CASE users[at[w]] # 1
    <3>1. k < at[w] BY <1>9, <1>b, <2>3 DEF Leave
    <3> QED BY <1>0, <1>a, <2>1, <3>1 DEF Has, Counted
  <2> QED BY <2>2, <2>3
<1>10. CASE End(w)
  BY <1>10 DEF End, Goto, Has, Counted, SettingUp
<1>11. CASE EndError(w)
  BY <1>11, <1>b DEF EndError, Has, Counted, SettingUp
<1>12. CASE Unlink(w)
  BY <1>12, <1>b DEF Unlink, Has, Counted, SettingUp
<1>13. CASE Crash(w)
  BY <1>13 DEF Crash, Goto, Has, Counted, SettingUp
<1> QED BY <1>1, <1>2, <1>3, <1>4, <1>5, <1>6, <1>7, <1>8, <1>9, <1>10, <1>11, <1>12, <1>13
        DEF Acts, Setup, Teardown

\* Who ends an object is the only one to have one of that level.
LEMMA OnlyLastHas ==
  ASSUME TypeOK, LockInv, LastUser, CountRight, together, Together, NEW w \in Workers, End(w),
         NEW v \in Workers, NEW k \in Levels, k = at[w], Has(v, k)
  PROVE  v = w /\ pc[v] = "end"
<1>1. pc[w] = "end" BY DEF End
<1>2. ~SomeoneSetsUp BY <1>1 DEF Together, Ending
<1>3. pc[v] \notin SettingUp BY <1>2 DEF SomeoneSetsUp
<1>4. users[k] = 0 BY <1>1 DEF LastUser, Ending
<1>5. Cardinality(Users(k)) = 0
  <2>1. Cardinality(Users(k)) <= 0 BY <1>4 DEF CountRight, NoFile
  <2> QED BY <2>1, FiniteUsers
<1>6. Users(k) = {} BY <1>5, FiniteUsers, FS_EmptySet
<1>7. ~Counted(v, k) BY <1>6 DEF Users
<1>8. pc[v] = "end" /\ k = at[v] BY <1>3, <1>7 DEF Has, SettingUp
<1>9. usersLock[k] = v BY <1>8 DEF LockInv, Ending
<1>10. usersLock[k] = w BY <1>1 DEF LockInv, Ending
<1> QED BY <1>8, <1>9, <1>10

LEMMA TogetherStep ==
  TypeOK /\ LockInv /\ LastUser /\ CountRight /\ Together /\ [Next]_vars => Together'
<1> SUFFICES ASSUME TypeOK, LockInv, LastUser, CountRight, Together, [Next]_vars
             PROVE  Together'
  OBVIOUS
<1>1. ASSUME NEW w \in Workers, Acts(w) PROVE Together'
  <2>1. SUFFICES ASSUME together PROVE Together' BY <1>1, OthersStay DEF Together
  <2>2. SomeoneSetsUp' => SomeoneSetsUp
    BY <1>1, OthersStay, SetUpOnce DEF SomeoneSetsUp
  <2>3. ASSUME SomeoneSetsUp' PROVE \A v \in Workers : pc'[v] \notin Ending
    <3>1. SomeoneSetsUp /\ \A v \in Workers : pc[v] \notin Ending BY <2>1, <2>2, <2>3 DEF Together
    <3>2. ~MayLeave BY <2>1, <3>1 DEF MayLeave, SomeoneSetsUp
    <3>3. ~End(w) BY <3>1 DEF End, Ending
    <3>4. pc'[w] \notin Ending BY <1>1, <3>2, <3>3, EndingFrom
    <3> QED BY <1>1, <3>1, <3>4, OthersStay
  <2>4. ASSUME NEW v \in Workers, NEW k \in Levels, Has(v, k)' PROVE obj'[v][k] \in alive'[k]
    <3>1. CASE End(w)
      <4>1. PICK n \in Levels : n = at[w] BY LevelRange
      <4>2. /\ alive' = [alive EXCEPT ![n] = @ \ {obj[w][n]}] /\ UNCHANGED <<at, obj>>
            /\ pc[w] = "end" /\ pc'[w] = "unlink"
        BY <3>1, <4>1 DEF End, Goto, TypeOK
      <4>3. Has(v, k)
        <5>1. CASE v = w BY <2>4, <4>2, <5>1 DEF Has, Counted, SettingUp
        <5>2. CASE v # w BY <1>1, <2>4, <5>2, OthersStay DEF Has, Counted
        <5> QED BY <5>1, <5>2
      <4>4. k # n
        <5>1. SUFFICES ASSUME k = n PROVE FALSE OBVIOUS
        <5>2. v = w BY <2>1, <3>1, <4>1, <4>3, <5>1, OnlyLastHas
        <5>3. Counted(w, n)' BY <2>4, <4>2, <5>1, <5>2 DEF Has
        <5> QED BY <4>1, <4>2, <5>3, LevelRange DEF Counted, SettingUp
      <4>5. obj[v][k] \in alive[k] BY <2>1, <4>3 DEF Together
      <4> QED BY <4>2, <4>4, <4>5 DEF TypeOK
    <3>2. CASE ~End(w) /\ v # w
      <4>1. Has(v, k) /\ obj'[v][k] = obj[v][k] BY <1>1, <2>4, <3>2, OthersStay DEF Has, Counted
      <4> QED BY <1>1, <2>1, <3>2, <4>1, AliveKept DEF Together
    <3>3. CASE ~End(w) /\ v = w
      <4>1. CASE Has(w, k) /\ obj'[w][k] = obj[w][k]
        BY <1>1, <2>1, <3>3, <4>1, AliveKept DEF Together
      <4>2. CASE Load(w) /\ base[k] # 0 /\ obj'[w][k] = base[k]
        <5>1. SomeoneSetsUp BY <4>2 DEF Load, SomeoneSetsUp, SettingUp
        <5> QED BY <1>1, <2>1, <3>3, <4>2, <5>1, AliveKept DEF Together
      <4> QED BY <1>1, <2>4, <3>3, <4>1, <4>2, HadBefore
    <3> QED BY <3>1, <3>2, <3>3
  <2>5. ASSUME SomeoneSetsUp', NEW k \in Levels, base'[k] # 0 PROVE base'[k] \in alive'[k]
    <3>1. SomeoneSetsUp /\ ~End(w) BY <2>1, <2>2, <2>5 DEF Together, End, Ending
    <3>2. CASE base'[k] = base[k] BY <1>1, <2>1, <2>5, <3>1, <3>2, AliveKept DEF Together
    <3>3. CASE base'[k] # base[k]
      <4>1. pc[w] = "record" /\ at[w] = k /\ base'[k] = obj[w][k] /\ alive' = alive
        BY <1>1, <2>5, <3>3, BaseFrom
      <4>2. Has(w, k) BY <4>1 DEF Has
      <4> QED BY <2>1, <4>1, <4>2 DEF Together
    <3> QED BY <3>2, <3>3
  <2> QED BY <2>3, <2>4, <2>5 DEF Together
<1>2. CASE UNCHANGED vars
  BY <1>2 DEF vars, files, server, Together, SomeoneSetsUp, Has, Counted
<1> QED BY <1>1, <1>2 DEF Next, Acts

-------------------------------------------------------------------------------
(* Nothing is left over.                                                      *)

\* A worker that was to remove nothing, and touches neither file nor count.
LEMMA ResponsibleQuiet ==
  ASSUME TypeOK, NEW w \in Workers, Acts(w), Responsible, together, crashes = 0,
         UNCHANGED <<base, users>>, \A k \in Levels : Users(k)' = Users(k),
         pc[w] \notin {"join", "end", "unlink"}
  PROVE  Responsible'
<1>1. ASSUME NEW k \in Levels, base[k] # 0
      PROVE  Users(k) # {} \/ \E v \in Workers : at'[v] = k /\ pc'[v] \in {"join", "end", "unlink"}
  <2>1. Users(k) # {} \/ \E v \in Workers : at[v] = k /\ pc[v] \in {"join", "end", "unlink"}
    BY <1>1 DEF Responsible
  <2> QED BY <2>1, OthersStay
<1>2. ASSUME NEW k \in Levels, users[k] = 0
      PROVE  \E v \in Workers : at'[v] = k /\ pc'[v] \in Ending
  <2>1. PICK v \in Workers : at[v] = k /\ pc[v] \in Ending BY <1>2 DEF Responsible
  <2>2. v # w BY <2>1 DEF Ending
  <2> QED BY <2>1, <2>2, OthersStay
<1> QED BY <1>1, <1>2 DEF Responsible

\* A worker that changes the files of its own level only.
LEMMA ResponsibleElsewhere ==
  ASSUME TypeOK, NEW w \in Workers, Acts(w), Responsible, together, crashes = 0,
         NEW n \in Levels, n = at[w],
         \A k \in Levels \ {n} : base'[k] = base[k] /\ users'[k] = users[k] /\ Users(k)' = Users(k),
         base'[n] # 0 =>
           Users(n)' # {} \/ \E v \in Workers : at'[v] = n /\ pc'[v] \in {"join", "end", "unlink"},
         users'[n] = 0 => \E v \in Workers : at'[v] = n /\ pc'[v] \in Ending
  PROVE  Responsible'
<1>1. ASSUME NEW k \in Levels \ {n}, base'[k] # 0
      PROVE  Users(k)' # {} \/ \E v \in Workers : at'[v] = k /\ pc'[v] \in {"join", "end", "unlink"}
  <2>1. Users(k) # {} \/ \E v \in Workers : at[v] = k /\ pc[v] \in {"join", "end", "unlink"}
    BY <1>1 DEF Responsible
  <2>2. CASE Users(k) # {} BY <2>2
  <2>3. ASSUME NEW v \in Workers, at[v] = k, pc[v] \in {"join", "end", "unlink"}
        PROVE  at'[v] = k /\ pc'[v] \in {"join", "end", "unlink"}
    BY <2>3, OthersStay
  <2> QED BY <2>1, <2>2, <2>3
<1>2. ASSUME NEW k \in Levels \ {n}, users'[k] = 0
      PROVE  \E v \in Workers : at'[v] = k /\ pc'[v] \in Ending
  <2>1. PICK v \in Workers : at[v] = k /\ pc[v] \in Ending BY <1>2 DEF Responsible
  <2>2. pc'[v] = pc[v] /\ at'[v] = at[v] BY ZenonT(60), <2>1, OthersStay
  <2> QED BY <2>1, <2>2
<1> QED BY <1>1, <1>2 DEF Responsible

LEMMA ResponsibleStep ==
  TypeOK /\ LastUser /\ CountRight /\ KnownAlive /\ Together /\ Responsible /\ [Next]_vars
    => Responsible'
<1> SUFFICES ASSUME TypeOK, LastUser, CountRight, KnownAlive, Together, Responsible, [Next]_vars
             PROVE  Responsible'
  OBVIOUS
<1> USE DEF bounds, files, locks, server
<1>a. ASSUME NEW w \in Workers, Acts(w), together, crashes = 0 PROVE Responsible'
  <2>0. PICK n \in Levels : n = at[w] BY LevelRange
  <2>1. CASE Lookup(w)
    <3>1. Stays(w) /\ UNCHANGED <<base, users>> /\ pc[w] = "lookup"
      BY <2>1 DEF Lookup, Goto, Stays, SettingUp, TypeOK
    <3> QED BY <1>a, <3>1, StaysCounted, ResponsibleQuiet
  <2>2. CASE Refused(w)
    <3>1. Down(w) /\ UNCHANGED <<base, users>> /\ pc[w] = "lookup" BY <2>2 DEF Refused
    <3> QED BY <1>a, <3>1, DownCounted, ResponsibleQuiet DEF SettingUp
  <2>3. CASE Load(w)
    <3>1. UNCHANGED <<base, users>> /\ pc[w] = "load" BY <2>3 DEF Load
    <3>2. Stays(w) \/ Down(w) BY <2>3 DEF Load, Goto, Stays, SettingUp, TypeOK
    <3> QED BY <1>a, <3>1, <3>2, StaysCounted, DownCounted, ResponsibleQuiet DEF SettingUp
  <2>4. CASE Start(w)
    <3>1. Stays(w) /\ UNCHANGED <<base, users>> /\ pc[w] = "start"
      BY <2>4 DEF Start, Goto, Stays, SettingUp, TypeOK
    <3> QED BY <1>a, <3>1, StaysCounted, ResponsibleQuiet
  <2>5. CASE StartError(w)
    <3>1. Down(w) /\ UNCHANGED <<base, users>> /\ pc[w] = "start" BY <2>5 DEF StartError
    <3> QED BY <1>a, <3>1, DownCounted, ResponsibleQuiet DEF SettingUp
  <2>6. CASE Record(w)
    <3>1. Stays(w) BY <2>6 DEF Record, Goto, Stays, SettingUp, TypeOK
    <3>2. /\ base' = [base EXCEPT ![n] = obj[w][n]] /\ UNCHANGED <<users, at>>
          /\ pc[w] = "record" /\ pc'[w] = "join"
      BY <2>0, <2>6 DEF Record, Goto, TypeOK
    <3>3. \A k \in Levels \ {n} : base'[k] = base[k] /\ users'[k] = users[k] /\ Users(k)' = Users(k)
      BY <3>1, <3>2, StaysCounted DEF TypeOK
    <3>4. at'[w] = n /\ pc'[w] \in {"join", "end", "unlink"} BY <2>0, <3>2
    <3>5. users'[n] = 0 => \E v \in Workers : at'[v] = n /\ pc'[v] \in Ending
      <4>1. ASSUME users[n] = 0 PROVE \E v \in Workers \ {w} : at[v] = n /\ pc[v] \in Ending
        BY <1>a, <3>2, <4>1 DEF Responsible, Ending
      <4> QED BY <1>a, <3>2, <4>1, OthersStay
    <3> QED BY <1>a, <2>0, <3>3, <3>4, <3>5, ResponsibleElsewhere
  <2>7. CASE Join(w)
    <3>1. Joined(w, n) BY <2>0, <2>7, JoinCounted
    <3>2. /\ users' = [users EXCEPT ![n] = IF @ = NoFile THEN 1 ELSE @ + 1]
          /\ base' = base
      BY <2>0, <2>7 DEF Join
    <3>3. \A k \in Levels \ {n} : base'[k] = base[k] /\ users'[k] = users[k] /\ Users(k)' = Users(k)
      BY <3>1, <3>2 DEF Joined, TypeOK
    <3>4. Users(n)' # {} BY <3>1 DEF Joined
    <3>5. users'[n] # 0 BY <3>2 DEF TypeOK, NoFile
    <3> QED BY <1>a, <2>0, <3>3, <3>4, <3>5, ResponsibleElsewhere
  <2>8. CASE Finish(w)
    <3>1. Stays(w) /\ UNCHANGED <<base, users>> /\ pc[w] = "run"
      BY <2>8 DEF Finish, Goto, Stays, TypeOK
    <3> QED BY <1>a, <3>1, StaysCounted, ResponsibleQuiet
  <2>9. CASE Leave(w)
    <3>1. Left(w, n) BY <2>0, <2>9, LeaveCounted
    <3>2. users' = [users EXCEPT ![n] = @ - 1] /\ base' = base /\ users[n] # NoFile
      BY <2>0, <2>9 DEF Leave
    <3>3. \A k \in Levels \ {n} : base'[k] = base[k] /\ users'[k] = users[k] /\ Users(k)' = Users(k)
      BY <3>1, <3>2 DEF Left, TypeOK
    <3>4. CASE users[n] = 1
      <4>1. at'[w] = n /\ pc'[w] = "end" BY <2>0, <2>9, <3>4 DEF Leave, Goto, TypeOK
      <4>2. \E v \in Workers : at'[v] = n /\ pc'[v] \in {"join", "end", "unlink"} BY <4>1
      <4>3. \E v \in Workers : at'[v] = n /\ pc'[v] \in Ending BY <4>1 DEF Ending
      <4> QED BY <1>a, <2>0, <3>3, <4>2, <4>3, ResponsibleElsewhere
    <3>5. CASE users[n] # 1
      <4>1. Cardinality(Users(n)) = users[n] BY <1>a, <3>2 DEF CountRight
      <4>2. Cardinality(Users(n)') = users[n] - 1
        BY <3>1, <4>1, FiniteUsers, FS_RemoveElement DEF Left
      <4>3. users[n] # 0
        <5>1. Users(n) # {} BY <3>1 DEF Left
        <5> QED BY <4>1, <5>1, FiniteUsers, FS_EmptySet
      <4>4. users[n] \in Nat BY <3>2 DEF TypeOK
      <4>5. Users(n)' # {}
        <5>1. users[n] - 1 # 0 BY <3>5, <4>4
        <5>2. Cardinality({}) = 0 BY FS_EmptySet
        <5> QED BY <4>2, <5>1, <5>2
      <4>6. users'[n] # 0 BY <3>2, <3>5, <4>4 DEF TypeOK
      <4> QED BY <1>a, <2>0, <3>3, <4>5, <4>6, ResponsibleElsewhere
    <3> QED BY <3>4, <3>5
  <2>10. CASE End(w)
    <3>1. Stays(w) BY <2>10 DEF End, Goto, Stays, TypeOK
    <3>2. UNCHANGED <<base, users, at>> /\ pc'[w] = "unlink" BY <2>10 DEF End, Goto, TypeOK
    <3>3. \A k \in Levels : Users(k)' = Users(k) BY <3>1, StaysCounted
    <3>4. at'[w] = n /\ pc'[w] \in {"join", "end", "unlink"} /\ pc'[w] \in Ending
      BY <2>0, <3>2 DEF Ending
    <3> QED BY <1>a, <2>0, <3>2, <3>3, <3>4, ResponsibleElsewhere
  <2>11. CASE EndError(w)
    <3>1. Has(w, n) /\ obj[w][n] \notin alive[n] BY <2>0, <2>11 DEF EndError, Has
    <3> QED BY <1>a, <3>1 DEF Together
  <2>12. CASE Unlink(w)
    <3>1. pc[w] = "unlink" /\ Down(w) BY <2>12 DEF Unlink
    <3>2. base[n] # 0 BY <1>a, <2>0, <3>1 DEF KnownAlive
    <3>3. base' = [base EXCEPT ![n] = 0] /\ users' = [users EXCEPT ![n] = NoFile]
      BY <2>0, <2>12, <3>2 DEF Unlink
    <3>4. \A k \in Levels : Users(k)' = Users(k) BY <3>1, DownCounted DEF Ending
    <3>5. \A k \in Levels \ {n} : base'[k] = base[k] /\ users'[k] = users[k] /\ Users(k)' = Users(k)
      BY <3>3, <3>4 DEF TypeOK
    <3>6. base'[n] = 0 /\ users'[n] # 0 BY <3>3 DEF TypeOK, NoFile
    <3> QED BY <1>a, <2>0, <3>5, <3>6, ResponsibleElsewhere
  <2>13. CASE Crash(w)
    <3>1. crashes' # 0 BY <1>a, <2>13 DEF Crash
    <3> QED BY <3>1 DEF Responsible
  <2> QED BY <1>a, <2>1, <2>2, <2>3, <2>4, <2>5, <2>6, <2>7, <2>8, <2>9, <2>10, <2>11, <2>12, <2>13
          DEF Acts, Setup, Teardown
<1>b. ASSUME NEW w \in Workers, Acts(w), ~(together /\ crashes = 0) PROVE Responsible'
  <2>1. together' = together BY <1>b, OthersStay
  <2>2. crashes' = 0 => crashes = 0
    BY <1>b DEF Acts, Setup, Teardown, Lookup, Refused, Load, Start, StartError, Record, Join,
                Finish, Leave, End, EndError, Unlink, Crash, TypeOK
  <2> QED BY <1>b, <2>1, <2>2 DEF Responsible
<1>c. CASE UNCHANGED vars BY <1>c DEF vars, Responsible, Users, Counted
<1> QED BY <1>a, <1>b, <1>c DEF Next, Acts

LEMMA AtTopStep == TypeOK /\ AtTop /\ [Next]_vars => AtTop'
<1> SUFFICES ASSUME TypeOK, AtTop, [Next]_vars PROVE AtTop' OBVIOUS
<1>1. ASSUME NEW w \in Workers, Acts(w), pc'[w] = "run" PROVE at'[w] = Depth
  <2> USE DEF TypeOK
  <2>1. CASE Join(w) BY <1>1, <2>1 DEF Join, Goto
  <2>2. CASE ~Join(w)
    <3>1. CASE Setup(w)
      BY <1>1, <2>2, <3>1, DownMoves
         DEF Setup, Lookup, Refused, Load, Start, StartError, Record, Goto
    <3>2. CASE Teardown(w) \/ Crash(w)
      BY <1>1, <3>2, DownMoves DEF Teardown, Finish, Leave, End, EndError, Unlink, Crash, Goto
    <3> QED BY <1>1, <3>1, <3>2 DEF Acts
  <2> QED BY <2>1, <2>2
<1>2. ASSUME NEW w \in Workers, Acts(w) PROVE AtTop'
  BY <1>1, <1>2, OthersStay DEF AtTop
<1>3. CASE UNCHANGED vars BY <1>3 DEF vars, AtTop
<1> QED BY <1>2, <1>3 DEF Next, Acts

LEMMA Inductive == IInv /\ [Next]_vars => IInv'
BY TypeStep, LockStep, ObjectStep, LastUserStep, CountStep, KnownStep, TogetherStep,
   ResponsibleStep, AtTopStep DEF IInv

\* Locks, objects, counts and who is responsible for what are right together.
THEOREM Invariance == Spec => []IInv
<1>1. Init => IInv BY InitOK
<1>2. IInv /\ [Next]_vars => IInv' BY Inductive
<1> QED BY <1>1, <1>2, PTL DEF Spec

-------------------------------------------------------------------------------
(* What it all is for.                                                        *)

\* The state of files, locks, server and workers keeps its types, whatever the number of
\* workers and of levels and whoever fails or is killed.
THEOREM TypeCorrect == Spec => []TypeOK
<1>1. IInv => TypeOK BY DEF IInv
<1> QED BY <1>1, Invariance, PTL

\* The users file of every level counts who joined and did not leave, exactly as long as no
\* worker is killed and never too low afterwards.
THEOREM UsersCounted == Spec => []CountRight
<1>1. IInv => CountRight BY DEF IInv
<1> QED BY <1>1, Invariance, PTL

\* Unless a worker is killed hive never runs two suites, two base tests or two clients.
THEOREM OneObject == Spec => []OneAlive
<1>1. ASSUME IInv, crashes = 0, NEW k \in Levels PROVE Cardinality(alive[k]) <= 1
  <2>1. alive[k] \subseteq Nat /\ 0 \notin alive[k] BY <1>1 DEF IInv, TypeOK, ObjectInv
  <2>2. \E x : alive[k] \subseteq {x}
    <3>1. CASE \E w \in Workers : Recording(w, k)
      <4>1. PICK w \in Workers : Recording(w, k) BY <3>1
      <4>2. base[k] = 0 BY <1>1, <4>1 DEF IInv, ObjectInv, Recording
      <4>3. \A v \in Workers : Recording(v, k) => v = w
        <5>1. \A v \in Workers : Recording(v, k) => baseLock[k] = v
          BY <1>1 DEF IInv, LockInv, Recording, Starting
        <5> QED BY <4>1, <5>1
      <4>4. ASSUME NEW o \in alive[k] PROVE o = obj[w][k]
        <5>1. o \in Nat /\ o # base[k] BY <2>1, <4>2
        <5>2. PICK v \in Workers : Recording(v, k) /\ obj[v][k] = o
          BY <1>1, <5>1 DEF IInv, KnownAlive
        <5> QED BY <4>3, <5>2
      <4> QED BY <4>4
    <3>2. CASE ~\E w \in Workers : Recording(w, k)
      <4>1. ASSUME NEW o \in alive[k] PROVE o = base[k]
        BY <1>1, <2>1, <3>2 DEF IInv, KnownAlive
      <4> QED BY <4>1
    <3> QED BY <3>1, <3>2
  <2>3. PICK x : alive[k] \subseteq {x} BY <2>2
  <2>4. IsFiniteSet({x}) /\ Cardinality({x}) = 1 BY FS_Singleton
  <2>5. Cardinality(alive[k]) <= Cardinality({x}) BY <2>3, <2>4, FS_Subset
  <2> QED BY <2>4, <2>5
<1>2. IInv => OneAlive BY <1>1 DEF OneAlive
<1> QED BY <1>2, Invariance, PTL

\* Workers that are all set up before one tears down run their tests in a suite, a base test
\* and a client that have not ended, whichever starts fail and whoever is killed.
THEOREM SetUpTogether == Spec => []TogetherAlive
<1>1. ASSUME IInv, together, NEW w \in Workers, pc[w] = "run", NEW k \in Levels
      PROVE  obj[w][k] \in alive[k]
  <2>1. at[w] = Depth /\ k <= Depth BY <1>1, DepthAssumption DEF IInv, AtTop, Levels
  <2>2. Has(w, k) BY <1>1, <2>1 DEF Has, Counted
  <2> QED BY <1>1, <2>2 DEF IInv, Together
<1>2. IInv => TogetherAlive BY <1>1 DEF TogetherAlive, UsedIsAlive
<1> QED BY <1>2, Invariance, PTL

\* When they have all stopped, and none was killed, hive runs nothing on for them and no
\* file is left to mislead the next session.
THEOREM NothingLeftOver == Spec => []NothingLeft
<1>1. ASSUME IInv, together, crashes = 0, \A w \in Workers : Stopped(w), NEW k \in Levels
      PROVE  alive[k] = {} /\ base[k] = 0 /\ users[k] = NoFile
  <2>1. \A w \in Workers : pc[w] = "done" BY <1>1 DEF Stopped, IInv, KnownAlive
  <2>2. Users(k) = {} BY <2>1 DEF Users, Counted, SettingUp
  <2>3. base[k] = 0 BY <1>1, <2>1, <2>2 DEF IInv, Responsible
  <2>4. users[k] # 0 BY <1>1, <2>1 DEF IInv, Responsible, Ending
  <2>5. Cardinality(Users(k)) = 0 BY <2>2, FS_EmptySet
  <2>6. users[k] = NoFile BY <1>1, <2>4, <2>5 DEF IInv, CountRight
  <2>7. \A o \in Nat : o \notin alive[k] \/ o = 0 BY <1>1, <2>1, <2>3 DEF IInv, KnownAlive, Recording
  <2>8. alive[k] \subseteq Nat /\ 0 \notin alive[k] BY <1>1 DEF IInv, TypeOK, ObjectInv
  <2>9. alive[k] = {} BY <2>7, <2>8
  <2> QED BY <2>3, <2>6, <2>9
<1>2. IInv => NothingLeft BY <1>1 DEF NothingLeft
<1> QED BY <1>2, Invariance, PTL

===============================================================================
