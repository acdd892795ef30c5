----------------------------- MODULE PoolProof -----------------------------
(***************************************************************************)
(* What Pool guarantees for every set of threads and every maxSize.        *)
(***************************************************************************)
EXTENDS Pool, WellFoundedInduction, TLAPS

USE PoolAssumption

(***************************************************************************)
(* The scan of lists finds an object that is not in use when there is one. *)
(***************************************************************************)
LEMMA FirstFreeIsFree ==
    ASSUME Free # {}
    PROVE  FirstFree \in Free
<1> DEFINE R == OpToRel(<, Nat)
<1>1. Free \subseteq Nat
  BY DEF Free
<1>2. IsWellFoundedOn(R, Nat)
  BY NatLessThanWellFounded
<1>3. PICK c \in Free : \A d \in Free : <<d, c>> \notin R
  <2> HIDE DEF R
  <2> QED BY <1>1, <1>2, WFMin
<1>4. ASSUME NEW d \in Free PROVE c <= d
  <2>1. c \in Nat /\ d \in Nat
    BY <1>1
  <2>2. d < c => <<d, c>> \in R
    BY <2>1 DEF OpToRel
  <2>3. ~(d < c)
    BY <1>3, <2>2
  <2> QED BY <2>1, <2>3
<1> QED
  BY <1>4 DEF FirstFree

(***************************************************************************)
(* The inductive invariant: the types, the bookkeeping, and that a thread  *)
(* outside a query holds nothing, without which Hand could lose an object. *)
(***************************************************************************)
HoldsOnlyWhileUsing == \A t \in Threads : pc[t] # "using" => got[t] = 0

IInv == TypeOK /\ ExclusiveUse /\ WaitsOnlyWhenExhausted /\ HoldsOnlyWhileUsing

(***************************************************************************)
(* An empty pool satisfies it.                                             *)
(***************************************************************************)
LEMMA InitIInv == Init => IInv
BY DEF Init, IInv, TypeOK, ExclusiveUse, WaitsOnlyWhenExhausted,
       HoldsOnlyWhileUsing

(***************************************************************************)
(* Handing out an object that nobody holds keeps the invariant, whether it *)
(* was free or has just been created.                                      *)
(***************************************************************************)
LEMMA HandIInv ==
    ASSUME IInv, NEW t \in Threads, pc[t] # "using",
           NEW c \in (1..lists') \ sets, Hand(t, c),
           \/ lists' = lists /\ Free # {}
           \/ lists' = lists + 1 /\ MayCreate
    PROVE  IInv'
<1>1. TypeOK'
  BY DEF IInv, TypeOK, Hand, MayCreate
<1>2. got[t] = 0 /\ c # 0
  BY DEF IInv, TypeOK, HoldsOnlyWhileUsing
<1>3. \A u \in Threads : got'[u] = IF u = t THEN c ELSE got[u]
  BY DEF Hand, IInv, TypeOK
<1>4. ExclusiveUse'
  <2>1. sets' = {got'[u] : u \in Threads} \ {0}
    BY <1>2, <1>3 DEF Hand, IInv, ExclusiveUse
  <2>2. \A u \in Threads : got[u] # c
    BY <1>2 DEF IInv, ExclusiveUse
  <2> QED
    BY <1>2, <1>3, <2>1, <2>2 DEF IInv, ExclusiveUse
<1>5. WaitsOnlyWhenExhausted'
  <2> SUFFICES ASSUME NEW u \in Threads, pc'[u] = "waiting"
               PROVE  FALSE
    BY DEF WaitsOnlyWhenExhausted
  <2>1. pc[u] = "waiting"
    BY DEF Hand, IInv, TypeOK
  <2>2. lists = MaxSize + 1 /\ sets = 1..lists
    BY <2>1 DEF IInv, WaitsOnlyWhenExhausted
  <2> QED
    BY <2>2 DEF Free, MayCreate
<1>6. HoldsOnlyWhileUsing'
  BY <1>3 DEF Hand, IInv, TypeOK, HoldsOnlyWhileUsing
<1> QED
  BY <1>1, <1>4, <1>5, <1>6 DEF IInv

(***************************************************************************)
(* A step that lends nothing and takes nothing back, and puts a thread to  *)
(* sleep only when every object is out.                                    *)
(***************************************************************************)
LEMMA MoveIInv ==
    ASSUME IInv, NEW t \in Threads, UNCHANGED <<lists, sets, got>>,
           got[t] = 0,
           NEW s \in {"waiting", "woken", "using"},
           pc' = [pc EXCEPT ![t] = s],
           s = "waiting" => Free = {} /\ ~MayCreate
    PROVE  IInv'
<1>1. TypeOK' /\ ExclusiveUse' /\ HoldsOnlyWhileUsing'
  BY DEF IInv, TypeOK, ExclusiveUse, HoldsOnlyWhileUsing
<1>2. WaitsOnlyWhenExhausted'
  <2> SUFFICES ASSUME NEW u \in Threads, pc'[u] = "waiting"
               PROVE  lists = MaxSize + 1 /\ sets = 1..lists
    BY DEF WaitsOnlyWhenExhausted
  <2>1. CASE pc[u] = "waiting"
    BY <2>1 DEF IInv, WaitsOnlyWhenExhausted
  <2>2. CASE pc[u] # "waiting"
    <3>1. s = "waiting"
      BY <2>2 DEF IInv, TypeOK
    <3>2. lists = MaxSize + 1
      BY <3>1 DEF MayCreate, IInv, TypeOK
    <3>3. 1..lists \subseteq sets
      BY <3>1 DEF Free
    <3> QED BY <3>2, <3>3 DEF IInv, TypeOK
  <2> QED BY <2>1, <2>2
<1> QED BY <1>1, <1>2 DEF IInv

(***************************************************************************)
(* Giving an object back frees it and wakes everybody, so nobody is left   *)
(* asleep in front of it.                                                  *)
(***************************************************************************)
LEMMA UnuseIInv ==
    ASSUME IInv, NEW t \in Threads, Unuse(t)
    PROVE  IInv'
<1>1. /\ pc' = [u \in Threads |-> IF u = t THEN "out"
                       ELSE IF pc[u] = "waiting" THEN "woken" ELSE pc[u]]
      /\ got' = [got EXCEPT ![t] = 0]
      /\ sets' = sets \ {got[t]} /\ lists' = lists
  BY DEF Unuse, NotifyAll
<1>2. TypeOK' /\ HoldsOnlyWhileUsing'
  <2> USE <1>1 DEF IInv, TypeOK, HoldsOnlyWhileUsing
  <2>1. pc' \in [Threads -> {"out", "waiting", "woken", "using"}]
    OBVIOUS
  <2>2. got' \in [Threads -> 0..lists']
    OBVIOUS
  <2>3. \A u \in Threads : pc'[u] # "using" => got'[u] = 0
    OBVIOUS
  <2> QED BY <2>1, <2>2, <2>3
<1>3. ExclusiveUse'
  <2>1. \A u \in Threads : got'[u] = IF u = t THEN 0 ELSE got[u]
    BY <1>1 DEF IInv, TypeOK
  <2>2. sets' = {got'[u] : u \in Threads} \ {0}
    BY <1>1, <2>1 DEF IInv, ExclusiveUse
  <2> QED
    BY <2>1, <2>2 DEF IInv, ExclusiveUse
<1>4. WaitsOnlyWhenExhausted'
  BY <1>1 DEF IInv, TypeOK, WaitsOnlyWhenExhausted
<1> QED BY <1>2, <1>3, <1>4 DEF IInv

(***************************************************************************)
(* Every step of the pool keeps the invariant.                             *)
(***************************************************************************)
LEMMA StepIInv == IInv /\ [Next]_vars => IInv'
<1> SUFFICES ASSUME IInv, [Next]_vars PROVE IInv'
  OBVIOUS
<1>1. CASE UNCHANGED vars
  BY <1>1 DEF vars, IInv, TypeOK, ExclusiveUse, WaitsOnlyWhenExhausted,
              HoldsOnlyWhileUsing
<1>2. ASSUME NEW t \in Threads, Step(t) PROVE IInv'
  <2>0. pc[t] # "using" => got[t] = 0
    BY DEF IInv, HoldsOnlyWhileUsing
  <2>1. CASE UseFree(t) \/ ResumeFree(t)
    <3>1. FirstFree \in Free
      BY <2>1, FirstFreeIsFree DEF UseFree, ResumeFree
    <3> QED
      BY <2>1, <3>1, HandIInv DEF UseFree, ResumeFree, Free
  <2>2. CASE UseCreate(t)
    <3>1. lists + 1 \in (1..lists') \ sets
      BY <2>2 DEF UseCreate, IInv, TypeOK
    <3> QED BY <2>2, <3>1, HandIInv DEF UseCreate
  <2>3. CASE UseCreateFails(t)
    BY <2>3, <1>1 DEF UseCreateFails
  <2>4. CASE UseWait(t)
    BY <2>0, <2>4, MoveIInv DEF UseWait
  <2>5. CASE SpuriousWakeup(t)
    BY <2>0, <2>5, MoveIInv DEF SpuriousWakeup
  <2>6. CASE ResumeNull(t)
    BY <2>0, <2>6, MoveIInv DEF ResumeNull
  <2>7. CASE Unuse(t)
    BY <2>7, UnuseIInv
  <2> QED
    BY <1>2, <2>1, <2>2, <2>3, <2>4, <2>5, <2>6, <2>7 DEF Step
<1> QED BY <1>1, <1>2 DEF Next

(***************************************************************************)
(* The inductive invariant of use and unuse (Pool.java:28-76) holds in every *)
(* reachable state.                                                        *)
(***************************************************************************)
THEOREM PoolInvariant == Spec => []IInv
BY InitIInv, StepIInv, PTL DEF Spec

(***************************************************************************)
(* The objects in use are among those created, never more than MaxSize + 1.*)
(***************************************************************************)
THEOREM PoolTypeOK == Spec => []TypeOK
<1>1. IInv => TypeOK
  BY DEF IInv
<1> QED BY <1>1, PoolInvariant, PTL

(***************************************************************************)
(* No object is ever in the hands of two threads, and sets is exactly what *)
(* is in use (Pool.java:29-76).                                            *)
(***************************************************************************)
THEOREM PoolExclusive == Spec => []ExclusiveUse
<1>1. IInv => ExclusiveUse
  BY DEF IInv
<1> QED BY <1>1, PoolInvariant, PTL

(***************************************************************************)
(* Nobody sleeps while an object is free (Pool.java:47-57,72-76).          *)
(***************************************************************************)
THEOREM PoolNoLostWakeup == Spec => []WaitsOnlyWhenExhausted
<1>1. IInv => WaitsOnlyWhenExhausted
  BY DEF IInv
<1> QED BY <1>1, PoolInvariant, PTL

(***************************************************************************)
(* Every step of the pool is, for the connections, a loan of one that      *)
(* nobody holds, a give-back, or nothing: the pool implements Lending.     *)
(***************************************************************************)
LEMMA HandLends ==
    ASSUME IInv, NEW t \in Threads, pc[t] # "using",
           NEW c \in (1..(MaxSize + 1)) \ sets, Hand(t, c)
    PROVE  L!Lend(t)
<1>1. got[t] = 0
  BY DEF IInv, HoldsOnlyWhileUsing
<1>2. \A u \in Threads : got[u] # c
  BY DEF IInv, ExclusiveUse
<1> QED BY <1>1, <1>2 DEF Hand, L!Lend

(***************************************************************************)
(* What each action of the pool is to Lending.                             *)
(***************************************************************************)
LEMMA StepLends == IInv /\ [Next]_vars => [L!Next]_got
<1> SUFFICES ASSUME IInv, Next PROVE [L!Next]_got
  BY DEF vars
<1>1. PICK t \in Threads : Step(t)
  BY DEF Next
<1>2. CASE UseFree(t) \/ ResumeFree(t)
  <2>1. FirstFree \in (1..(MaxSize + 1)) \ sets
    BY <1>2, FirstFreeIsFree DEF UseFree, ResumeFree, Free, IInv, TypeOK
  <2> QED
    BY <1>2, <2>1, HandLends DEF UseFree, ResumeFree, L!Next
<1>3. CASE UseCreate(t)
  <2>1. lists + 1 \in (1..(MaxSize + 1)) \ sets
    BY <1>3 DEF UseCreate, MayCreate, IInv, TypeOK
  <2> QED BY <1>3, <2>1, HandLends DEF UseCreate, L!Next
<1>4. CASE Unuse(t)
  <2>1. CASE got[t] = 0
    <3>1. got' = got
      BY <1>4, <2>1 DEF Unuse, IInv, TypeOK
    <3> QED BY <3>1
  <2>2. CASE got[t] # 0
    BY <1>4, <2>2 DEF Unuse, L!Next, L!GiveBack
  <2> QED BY <2>1, <2>2
<1>5. CASE UseCreateFails(t) \/ UseWait(t) \/ SpuriousWakeup(t) \/ ResumeNull(t)
  BY <1>5 DEF UseCreateFails, UseWait, SpuriousWakeup, ResumeNull, vars
<1> QED BY <1>1, <1>2, <1>3, <1>4, <1>5 DEF Step

(***************************************************************************)
(* The pool implements Lending with a stock of maxSize + 1 objects         *)
(* (Pool.java:28-76).                                                      *)
(***************************************************************************)
THEOREM PoolImplementsLending == Spec => Lends
<1>1. Init => L!Init
  BY DEF Init, L!Init
<1> QED BY <1>1, PoolInvariant, StepLends, PTL DEF Spec, Lends, L!Spec
=============================================================================
