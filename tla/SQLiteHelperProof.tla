------------------------- MODULE SQLiteHelperProof -------------------------
(***************************************************************************)
(* What SQLiteHelper guarantees for every set of threads and every         *)
(* maxSize, and the lockout it runs into when threads outnumber the        *)
(* connections.                                                            *)
(***************************************************************************)
EXTENDS SQLiteHelper, FiniteSetTheorems, TLAPS

PP == INSTANCE PoolProof

USE HelperAssumption

(***************************************************************************)
(* The pool's own invariant carries over: a step of the helper is a step   *)
(* of the pool or leaves the pool alone.                                   *)
(***************************************************************************)
LEMMA StepOfPool == [Next]_vars => [PP!Next]_poolVars
BY DEF Next, Work, Call, getReadableDatabase, getReadableDatabaseFails,
   getReadableDatabaseWaits, getReadableDatabaseResumes, SpuriousWakeup,
   releaseReadableDatabase, getWritableDatabase, beginTransaction,
   endDMLOffTransaction, vars, poolVars, PP!Next, PP!Step,
   P!UseFree, P!UseCreate, P!UseCreateFails, P!UseWait, P!SpuriousWakeup,
   P!ResumeFree, P!ResumeNull, P!Unuse,
   PP!UseFree, PP!UseCreate, PP!UseCreateFails, PP!UseWait, PP!SpuriousWakeup,
   PP!ResumeFree, PP!ResumeNull, PP!Unuse, P!vars, PP!vars,
   P!Free, PP!Free, P!FirstFree, PP!FirstFree, P!MayCreate, PP!MayCreate,
   P!Hand, PP!Hand, P!NotifyAll, PP!NotifyAll

(***************************************************************************)
(* The pool's inductive invariant is kept by every step of the helper.     *)
(***************************************************************************)
LEMMA PoolPart == PP!IInv /\ [Next]_vars => PP!IInv'
<1>1. PP!IInv /\ [PP!Next]_poolVars => PP!IInv'
  BY PP!StepIInv DEF poolVars, PP!vars
<1> QED BY <1>1, StepOfPool

(***************************************************************************)
(* Inductive invariant: whoever sleeps in wait() owns the helper, with     *)
(* every connection lent; a connection is in a thread's hands only during  *)
(* its query.                                                              *)
(***************************************************************************)
QueryUses == \A t \in Threads : task[t] = "query" <=> pc[t] = "using"

HInv == TypeOK /\ PP!IInv /\ MonitorOwnerWaits /\ QueryUses

(***************************************************************************)
(* A helper that has just been made satisfies it.                          *)
(***************************************************************************)
LEMMA InitHInv == Init => HInv
<1> SUFFICES ASSUME Init PROVE HInv
  OBVIOUS
<1>1. PP!Init
  BY DEF Init, P!Init, PP!Init
<1>2. PP!IInv
  BY <1>1, PP!InitIInv
<1>3. TypeOK
  BY DEF Init, P!Init, TypeOK, P!TypeOK, Tasks
<1>4. MonitorOwnerWaits /\ QueryUses
  BY DEF Init, P!Init, MonitorOwnerWaits, QueryUses
<1> QED BY <1>2, <1>3, <1>4 DEF HInv

(***************************************************************************)
(* A step that leaves the pool and the monitor alone.                      *)
(***************************************************************************)
LEMMA TaskStep ==
    ASSUME HInv, UNCHANGED <<poolVars, monitor>>, NEW t \in Threads,
           NEW s \in Tasks \ {"query"}, Become(t, s), task[t] # "query",
           task[t] = "beginDQL" => t \notin monitor,
           writer' \in {{}} \cup {{u} : u \in Threads}
    PROVE  TypeOK' /\ MonitorOwnerWaits' /\ QueryUses'
<1> USE DEF HInv, poolVars, Become
<1>1. TypeOK'
  BY DEF TypeOK, P!TypeOK
<1>2. MonitorOwnerWaits'
  BY DEF TypeOK, MonitorOwnerWaits
<1>3. QueryUses'
  BY DEF TypeOK, QueryUses
<1> QED BY <1>1, <1>2, <1>3

(***************************************************************************)
(* A thread that is handed a connection (or null) by a pool that was free, *)
(* or for which it was waiting.                                            *)
(***************************************************************************)
LEMMA QueryBegins ==
    ASSUME HInv, NEW t \in Threads, task[t] = "beginDQL",
           P!TypeOK', pc' = [pc EXCEPT ![t] = "using"], Become(t, "query"),
           monitor \subseteq {t}, monitor' = monitor \ {t}, writer' = writer
    PROVE  TypeOK' /\ MonitorOwnerWaits' /\ QueryUses'
<1> USE DEF HInv, Become
<1>1. TypeOK'
  BY DEF TypeOK, Tasks
<1>2. \A u \in Threads :
         /\ pc'[u] = IF u = t THEN "using" ELSE pc[u]
         /\ task'[u] = IF u = t THEN "query" ELSE task[u]
  BY DEF TypeOK, P!TypeOK
<1>3. MonitorOwnerWaits'
  BY <1>2 DEF MonitorOwnerWaits
<1>4. QueryUses'
  BY <1>2 DEF QueryUses
<1> QED BY <1>1, <1>3, <1>4

(***************************************************************************)
(* Every step of the helper and of the threads that use it keeps it.       *)
(***************************************************************************)
LEMMA StepHInv == HInv /\ [Next]_vars => HInv'
<1> SUFFICES ASSUME HInv, [Next]_vars PROVE HInv'
  OBVIOUS
<1>1. PP!IInv'
  BY PoolPart DEF HInv
<1>2. P!TypeOK'
  BY <1>1 DEF PP!IInv, PP!TypeOK, P!TypeOK
<1>3. SUFFICES TypeOK' /\ MonitorOwnerWaits' /\ QueryUses'
  BY <1>1 DEF HInv
<1>4. CASE UNCHANGED vars
  BY <1>4 DEF vars, HInv, TypeOK, P!TypeOK, MonitorOwnerWaits, QueryUses
<1>5. ASSUME NEW t \in Threads, Call(t)
      PROVE  TypeOK' /\ MonitorOwnerWaits' /\ QueryUses'
  <2>1. PICK s \in {"beginDQL", "beginDML"} : Become(t, s)
    BY <1>5 DEF Call
  <2> QED
    BY <1>5, <2>1, TaskStep DEF Call, HInv, TypeOK, Tasks
<1>6. ASSUME NEW t \in Threads, getReadableDatabaseFails(t)
      PROVE  TypeOK' /\ MonitorOwnerWaits' /\ QueryUses'
  <2>1. UNCHANGED <<poolVars, monitor, writer>> /\ monitor = {}
    BY <1>6 DEF getReadableDatabaseFails, P!UseCreateFails, P!vars, poolVars,
                Enter
  <2> QED
    BY <1>6, <2>1, TaskStep
       DEF getReadableDatabaseFails, HInv, TypeOK, Tasks
<1>7. ASSUME NEW t \in Threads, SpuriousWakeup(t)
      PROVE  TypeOK' /\ MonitorOwnerWaits' /\ QueryUses'
  <2>1. /\ pc[t] = "waiting" /\ pc' = [pc EXCEPT ![t] = "woken"]
        /\ UNCHANGED <<lists, sets, got, monitor, task, writer>>
    BY <1>7 DEF SpuriousWakeup, P!SpuriousWakeup
  <2>2. TypeOK'
    BY <1>2, <2>1 DEF HInv, TypeOK
  <2>3. MonitorOwnerWaits' /\ QueryUses'
    BY <2>1 DEF HInv, TypeOK, P!TypeOK, MonitorOwnerWaits, QueryUses
  <2> QED BY <2>2, <2>3
<1>8. ASSUME NEW t \in Threads, getReadableDatabase(t)
      PROVE  TypeOK' /\ MonitorOwnerWaits' /\ QueryUses'
  <2>1. /\ task[t] = "beginDQL" /\ monitor = {} /\ monitor' = {}
        /\ pc' = [pc EXCEPT ![t] = "using"]
        /\ Become(t, "query") /\ writer' = writer
    BY <1>8 DEF getReadableDatabase, Enter, P!UseFree, P!UseCreate, P!Hand
  <2> QED BY <1>2, <2>1, QueryBegins
<1>9. ASSUME NEW t \in Threads, getReadableDatabaseWaits(t)
      PROVE  TypeOK' /\ MonitorOwnerWaits' /\ QueryUses'
  <2>1. /\ task[t] = "beginDQL" /\ monitor = {} /\ monitor' = {t}
        /\ pc[t] = "out" /\ pc' = [pc EXCEPT ![t] = "waiting"]
        /\ UNCHANGED <<lists, sets, got, task, writer>>
    BY <1>9 DEF getReadableDatabaseWaits, Enter, KeepMonitor, P!UseWait
  <2>2. sets = 1..(MaxSize + 1)
    <3>1. 1..lists \subseteq sets /\ ~(lists <= MaxSize)
      BY <1>9 DEF getReadableDatabaseWaits, P!UseWait, P!Free, P!MayCreate
    <3>2. lists \in 0..(MaxSize + 1) /\ sets \subseteq 1..lists
      BY DEF HInv, TypeOK, P!TypeOK
    <3>3. lists = MaxSize + 1
      BY <3>1, <3>2
    <3> QED BY <3>1, <3>2, <3>3
  <2>3. TypeOK'
    BY <1>2, <2>1 DEF HInv, TypeOK
  <2>4. MonitorOwnerWaits' /\ QueryUses'
    BY <2>1, <2>2 DEF HInv, TypeOK, P!TypeOK, MonitorOwnerWaits, QueryUses
  <2> QED BY <2>3, <2>4
<1>10. ASSUME NEW t \in Threads, getReadableDatabaseResumes(t)
      PROVE  TypeOK' /\ MonitorOwnerWaits' /\ QueryUses'
  <2>1. /\ pc[t] = "woken" /\ pc' = [pc EXCEPT ![t] = "using"]
        /\ monitor' = monitor \ {t} /\ Become(t, "query") /\ writer' = writer
    BY <1>10 DEF getReadableDatabaseResumes, P!ResumeFree, P!ResumeNull, P!Hand
  <2>2. task[t] = "beginDQL" /\ monitor = {t}
    BY <2>1 DEF HInv, MonitorOwnerWaits, TypeOK
  <2> QED BY <1>2, <2>1, <2>2, QueryBegins
<1>11. ASSUME NEW t \in Threads, releaseReadableDatabase(t)
      PROVE  TypeOK' /\ MonitorOwnerWaits' /\ QueryUses'
  <2>1. /\ task[t] = "query" /\ monitor = {} /\ monitor' = {}
        /\ pc' = [u \in Threads |-> IF u = t THEN "out"
                      ELSE IF pc[u] = "waiting" THEN "woken" ELSE pc[u]]
        /\ task' = [task EXCEPT ![t] = "idle"] /\ writer' = writer
    BY <1>11 DEF releaseReadableDatabase, Enter, Become, P!Unuse, P!NotifyAll
  <2>2. TypeOK'
    BY <1>2, <2>1 DEF HInv, TypeOK, Tasks
  <2>3. MonitorOwnerWaits' /\ QueryUses'
    BY <2>1 DEF HInv, TypeOK, P!TypeOK, MonitorOwnerWaits, QueryUses
  <2> QED BY <2>2, <2>3
<1>12. ASSUME NEW t \in Threads,
              getWritableDatabase(t) \/ beginTransaction(t)
              \/ endDMLOffTransaction(t)
      PROVE  TypeOK' /\ MonitorOwnerWaits' /\ QueryUses'
  <2>1. PICK s \in {"beginTx", "transaction", "idle"} : Become(t, s)
    BY <1>12 DEF getWritableDatabase, beginTransaction, endDMLOffTransaction
  <2>2. /\ UNCHANGED <<poolVars, monitor>>
        /\ task[t] \notin {"query", "beginDQL"}
        /\ writer' \in {{}} \cup {{u} : u \in Threads}
    BY <1>12 DEF getWritableDatabase, beginTransaction, endDMLOffTransaction,
                 DropWriter, HInv, TypeOK
  <2> QED BY <2>1, <2>2, TaskStep DEF Tasks
<1> QED
  BY <1>4, <1>5, <1>6, <1>7, <1>8, <1>9, <1>10, <1>11, <1>12 DEF Next, Work

(***************************************************************************)
(* The inductive invariant of the helper, its pool and its callers holds in *)
(* every reachable state (SQLiteHelper.java:73-276).                       *)
(***************************************************************************)
THEOREM HelperInvariant == Spec => []HInv
BY InitHInv, StepHInv, PTL DEF Spec

(***************************************************************************)
(* The helper's types, in particular that at most maxSize + 1 connections  *)
(* are ever created (SQLiteHelper.java:178-271).                           *)
(***************************************************************************)
THEOREM HelperTypeOK == Spec => []TypeOK
<1>1. HInv => TypeOK
  BY DEF HInv
<1> QED BY <1>1, HelperInvariant, PTL

(***************************************************************************)
(* Whoever sleeps in wait() owns the helper, and every connection is lent  *)
(* (SQLiteHelper.java:179,261).                                            *)
(***************************************************************************)
THEOREM WaiterOwnsMonitor == Spec => []MonitorOwnerWaits
<1>1. HInv => MonitorOwnerWaits
  BY DEF HInv
<1> QED BY <1>1, HelperInvariant, PTL

(***************************************************************************)
(* Two threads never query on the same connection (BaseDao.java:41-52).    *)
(***************************************************************************)
THEOREM ExclusiveQueries == Spec => []QueriesAreExclusive
<1>1. HInv => QueriesAreExclusive
  BY DEF HInv, QueryUses, QueriesAreExclusive, PP!IInv, PP!ExclusiveUse,
         PP!HoldsOnlyWhileUsing
<1> QED BY <1>1, HelperInvariant, PTL

(***************************************************************************)
(* The lockout, for every maxSize: a give-back never wakes a sleeper, since*)
(* the sleeper holds the monitor that a give-back needs                    *)
(* (SQLiteHelper.java:179,273).                                            *)
(***************************************************************************)
LEMMA OnlySpuriousWakes ==
    ASSUME HInv, NEW u \in Threads, Next, pc[u] = "waiting", pc'[u] # "waiting"
    PROVE  UNCHANGED sets
<1> USE DEF HInv, TypeOK, P!TypeOK
<1>1. PICK t \in Threads :
        Call(t) \/ getReadableDatabaseFails(t) \/ SpuriousWakeup(t)
        \/ Work(t) \/ beginTransaction(t)
  BY DEF Next
<1>2. u \in monitor
  BY DEF MonitorOwnerWaits
<1>3. CASE SpuriousWakeup(t)
  BY <1>3 DEF SpuriousWakeup, P!SpuriousWakeup
<1>4. CASE getReadableDatabaseResumes(t)
  BY <1>4 DEF getReadableDatabaseResumes, P!ResumeFree, P!ResumeNull, P!Hand
<1>5. CASE Call(t) \/ beginTransaction(t) \/ endDMLOffTransaction(t)
  BY <1>5 DEF Call, beginTransaction, endDMLOffTransaction, poolVars
<1> QED
  BY <1>1, <1>2, <1>3, <1>4, <1>5 DEF Work, Enter, getReadableDatabase,
     getReadableDatabaseFails, getReadableDatabaseWaits, getWritableDatabase,
     releaseReadableDatabase

(***************************************************************************)
(* No give-back ever wakes a thread that waits for a connection            *)
(* (SQLiteHelper.java:273-276).                                            *)
(***************************************************************************)
THEOREM NoReleaseWakes == Spec => NeverWokenByRelease
<1>1. HInv /\ [Next]_vars =>
        [\A t \in Threads :
           pc[t] = "waiting" /\ pc'[t] # "waiting" => UNCHANGED sets]_vars
  BY OnlySpuriousWakes
<1> QED BY <1>1, HelperInvariant, PTL DEF Spec, NeverWokenByRelease

(***************************************************************************)
(* The extent of the lockout: while a thread sleeps in wait() no query     *)
(* begins and none ends (SQLiteHelper.java:74,179,273).                    *)
(***************************************************************************)
LEMMA AsleepFreezes ==
    ASSUME HInv, [Next]_vars, monitor # {}, monitor' = monitor
    PROVE  /\ UNCHANGED <<lists, sets, got>>
           /\ \A u \in Threads : (task[u] = "query") = (task'[u] = "query")
<1> USE DEF HInv, TypeOK, P!TypeOK
<1>1. CASE UNCHANGED vars
  BY <1>1 DEF vars
<1>2. ASSUME NEW t \in Threads,
             Call(t) \/ getReadableDatabaseFails(t) \/ SpuriousWakeup(t)
             \/ Work(t) \/ beginTransaction(t)
      PROVE  /\ UNCHANGED <<lists, sets, got>>
             /\ \A u \in Threads : (task[u] = "query") = (task'[u] = "query")
  <2>1. ~Enter
    BY DEF Enter
  <2>2. ~getReadableDatabaseResumes(t)
    <3> SUFFICES ASSUME getReadableDatabaseResumes(t) PROVE FALSE
      OBVIOUS
    <3>1. pc[t] = "woken" /\ monitor' = monitor \ {t}
      BY DEF getReadableDatabaseResumes, P!ResumeFree, P!ResumeNull
    <3>2. t \in monitor
      BY <3>1 DEF MonitorOwnerWaits
    <3> QED BY <3>1, <3>2
  <2>3. CASE SpuriousWakeup(t)
    BY <2>3 DEF SpuriousWakeup, P!SpuriousWakeup
  <2>4. CASE Call(t)
    BY <2>4 DEF Call, Become, poolVars
  <2>5. CASE beginTransaction(t) \/ endDMLOffTransaction(t)
    BY <2>5 DEF beginTransaction, endDMLOffTransaction, Become, poolVars
  <2> QED
    BY <1>2, <2>1, <2>2, <2>3, <2>4, <2>5 DEF Work, getReadableDatabase,
       getReadableDatabaseFails, getReadableDatabaseWaits,
       getWritableDatabase, releaseReadableDatabase
<1> QED BY <1>1, <1>2 DEF Next

(***************************************************************************)
(* While a thread waits owning the helper, queries neither begin nor end   *)
(* (SQLiteHelper.java:179,273).                                            *)
(***************************************************************************)
THEOREM LockoutFreezes == Spec => LockoutFreezesQueries
<1>1. HInv /\ [Next]_vars =>
        [monitor # {} /\ monitor' = monitor =>
           /\ UNCHANGED <<lists, sets, got>>
           /\ \A t \in Threads : (task[t] = "query") = (task'[t] = "query")]_vars
  BY AsleepFreezes
<1> QED BY <1>1, HelperInvariant, PTL DEF Spec, LockoutFreezesQueries

(***************************************************************************)
(* The bound below which the app is safe: with at most maxSize + 1 threads *)
(* (9 for the app) the pigeonhole principle leaves a connection for each,  *)
(* and nobody ever sleeps owning the helper (Pool.java:40,47).             *)
(***************************************************************************)
LEMMA SleeperOutnumbered ==
    ASSUME HInv, IsFiniteSet(Threads), monitor # {}
    PROVE  Cardinality(Threads) > MaxSize + 1
<1>1. PICK t \in Threads : t \in monitor
  BY DEF HInv, TypeOK
<1>2. sets = 1..(MaxSize + 1) /\ got[t] = 0
  BY <1>1 DEF HInv, MonitorOwnerWaits, PP!IInv, PP!HoldsOnlyWhileUsing
<1> DEFINE Others == Threads \ {t}
           g == [c \in 1..(MaxSize + 1) |-> CHOOSE u \in Threads : got[u] = c]
<1>3. \A c \in 1..(MaxSize + 1) : g[c] \in Threads /\ got[g[c]] = c
  BY <1>2 DEF HInv, PP!IInv, PP!ExclusiveUse
<1>4. g \in [1..(MaxSize + 1) -> Others]
  <2>1. \A c \in 1..(MaxSize + 1) : c # 0
    OBVIOUS
  <2>2. \A c \in 1..(MaxSize + 1) : g[c] # t
    <3> HIDE DEF g
    <3> QED BY <1>2, <1>3, <2>1
  <2>3. \A c \in 1..(MaxSize + 1) : (CHOOSE u \in Threads : got[u] = c) \in Others
    BY <1>3, <2>2
  <2> QED BY <2>3
<1>5. \A a, b \in 1..(MaxSize + 1) : g[a] = g[b] => a = b
  BY <1>3
<1> HIDE DEF g
<1>6. g \in Injection(1..(MaxSize + 1), Others)
  BY <1>4, <1>5 DEF Injection, IsInjective
<1>7. IsFiniteSet(Others) /\ Cardinality(Others) = Cardinality(Threads) - 1
  BY FS_RemoveElement
<1>8. Cardinality(1..(MaxSize + 1)) <= Cardinality(Others)
  BY <1>6, <1>7, FS_Injection
<1>9. Cardinality(1..(MaxSize + 1)) = MaxSize + 1
  BY FS_Interval
<1>10. Cardinality(Threads) \in Nat
  BY FS_CardinalityType
<1> QED BY <1>7, <1>8, <1>9, <1>10

(***************************************************************************)
(* With no more threads than connections nobody ever waits                 *)
(* (SQLiteHelper.java:261, Pool.java:40).                                  *)
(***************************************************************************)
THEOREM EnoughConnections ==
    ASSUME IsFiniteSet(Threads), Cardinality(Threads) <= MaxSize + 1
    PROVE  Spec => []NobodyWaits
<1>1. HInv => NobodyWaits
  <2> SUFFICES ASSUME HInv, monitor # {} PROVE FALSE
    BY DEF NobodyWaits
  <2>1. Cardinality(Threads) > MaxSize + 1 /\ Cardinality(Threads) \in Nat
    BY SleeperOutnumbered, FS_CardinalityType
  <2> QED BY <2>1
<1> QED BY <1>1, HelperInvariant, PTL

(***************************************************************************)
(* The helper, too, lends each connection to one thread at a time.         *)
(***************************************************************************)
THEOREM HelperImplementsLending == Spec => Lends
<1>1. Init => P!L!Init
  BY DEF Init, P!Init, P!L!Init
<1>2. HInv /\ [Next]_vars => [P!L!Next]_got
  <2>1. PP!IInv /\ [PP!Next]_poolVars => [PP!L!Next]_got
    BY PP!StepLends DEF poolVars, PP!vars
  <2>2. PP!L!Next <=> P!L!Next
    BY DEF PP!L!Next, P!L!Next, PP!L!Lend, P!L!Lend, PP!L!GiveBack, P!L!GiveBack
  <2> QED BY <2>1, <2>2, StepOfPool DEF HInv
<1> QED BY <1>1, <1>2, HelperInvariant, PTL DEF Spec, Lends, P!Lends, P!L!Spec
=============================================================================
