-------------------------------- MODULE Pool --------------------------------
(***************************************************************************)
(* db/Pool.java: the pool of read connections, as a Java monitor.  use and *)
(* unuse are synchronized, so each runs in one step; only wait() lets      *)
(* another thread in, which splits use in two (UseWait, Resume).           *)
(* An object is named by its position in lists, so lists is its length.    *)
(* destory is left out: only SQLiteHelper.close calls it and the app never *)
(* closes its helper.                                                      *)
(***************************************************************************)
EXTENDS Naturals

CONSTANTS Threads,   \* threads that use the pool
          MaxSize,   \* the constructor's maxSize (SQLiteHelper passes 8)
  Spurious   \* whether the runtime lets wait() return without a notify

ASSUME PoolAssumption == MaxSize \in Nat /\ Spurious \in BOOLEAN

VARIABLES
  lists,   \* lists.size(): how many objects have been created
  sets,    \* the objects in use
  pc,      \* where each thread is: out, waiting, woken (notified), using
  got      \* what use() returned to the thread, 0 for null or nothing

vars == <<lists, sets, pc, got>>

TypeOK ==
    /\ lists \in 0..(MaxSize + 1)
    /\ sets \subseteq 1..lists
    /\ pc \in [Threads -> {"out", "waiting", "woken", "using"}]
    /\ got \in [Threads -> 0..lists]

Init ==
    /\ lists = 0
    /\ sets = {}
    /\ pc = [t \in Threads |-> "out"]
    /\ got = [t \in Threads |-> 0]
-----------------------------------------------------------------------------
Free == (1..lists) \ sets

\* The loop over lists returns the first object that is not in use.
FirstFree == CHOOSE c \in Free : \A d \in Free : c <= d

\* Mutants: one object too many, one too few.
MayCreateMore == lists <= MaxSize + 1
MayCreateLess == lists < MaxSize
MayCreate == lists <= MaxSize

\* HandUnmarked is a mutant: a scan of lists forgets sets.add, so that only
\* a new object is marked.
HandUnmarked(t, c) ==
    /\ sets' = IF Free = {} THEN sets \cup {c} ELSE sets
    /\ got' = [got EXCEPT ![t] = c]
    /\ pc' = [pc EXCEPT ![t] = "using"]
Hand(t, c) ==
    /\ sets' = sets \cup {c}
    /\ got' = [got EXCEPT ![t] = c]
    /\ pc' = [pc EXCEPT ![t] = "using"]

UseFree(t) ==
    /\ pc[t] = "out"
    /\ Free # {}
    /\ Hand(t, FirstFree)
    /\ UNCHANGED lists

UseCreate(t) ==
    /\ pc[t] = "out"
    /\ Free = {} /\ MayCreate
    /\ lists' = lists + 1
    /\ Hand(t, lists + 1)

\* create() may throw: nothing has been recorded yet, use() just propagates.
UseCreateFails(t) ==
    /\ pc[t] = "out"
    /\ Free = {} /\ MayCreate
    /\ UNCHANGED vars

\* Here every object is in use, so sets.size() = lists.size() > maxSize and
\* the test sets.size() >= maxSize always sends the thread to wait().
UseWait(t) ==
    /\ pc[t] = "out"
    /\ Free = {} /\ ~MayCreate
    /\ pc' = [pc EXCEPT ![t] = "waiting"]
    /\ UNCHANGED <<lists, sets, got>>

\* wait() may return without a notify; the code tests nothing again.
SpuriousWakeup(t) ==
    /\ Spurious
    /\ pc[t] = "waiting"
    /\ pc' = [pc EXCEPT ![t] = "woken"]
    /\ UNCHANGED <<lists, sets, got>>

\* Back from wait(): one more look at lists, then null.
ResumeFree(t) ==
    /\ pc[t] = "woken"
    /\ Free # {}
    /\ Hand(t, FirstFree)
    /\ UNCHANGED lists

ResumeNull(t) ==
    /\ pc[t] = "woken"
    /\ Free = {}
    /\ pc' = [pc EXCEPT ![t] = "using"]
    /\ UNCHANGED <<lists, sets, got>>

\* NotifyNobody is a mutant: unuse without notifyAll.
NotifyNobody(t) == [pc EXCEPT ![t] = "out"]
NotifyAll(t) ==
    [u \in Threads |-> IF u = t THEN "out"
                       ELSE IF pc[u] = "waiting" THEN "woken" ELSE pc[u]]

\* unuse(got): also run with null, by the finally of a query that got null.
Unuse(t) ==
    /\ pc[t] = "using"
    /\ sets' = sets \ {got[t]}
    /\ got' = [got EXCEPT ![t] = 0]
    /\ pc' = NotifyAll(t)
    /\ UNCHANGED lists

Step(t) == \/ UseFree(t) \/ UseCreate(t) \/ UseCreateFails(t) \/ UseWait(t)
           \/ SpuriousWakeup(t)
           \/ ResumeFree(t) \/ ResumeNull(t)
           \/ Unuse(t)

Next == \E t \in Threads : Step(t)

Spec == Init /\ [][Next]_vars

\* A thread that was woken gets the monitor, a thread that uses gives back.
Fairness == \A t \in Threads :
    WF_vars(ResumeFree(t) \/ ResumeNull(t)) /\ WF_vars(Unuse(t))

FairSpec == Spec /\ Fairness
-----------------------------------------------------------------------------
\* The objects marked as in use are exactly those that threads hold, and no
\* object is held by two threads (Pool.java:33-37,58-66: scan, mark, return).
ExclusiveUse ==
    /\ sets = {got[t] : t \in Threads} \ {0}
    /\ \A t, u \in Threads : t # u /\ got[t] # 0 => got[t] # got[u]

\* No lost wakeup: a thread sleeps in wait() only while every object that
\* may be created exists and is in use (Pool.java:47-57,72-76).
WaitsOnlyWhenExhausted ==
    (\E t \in Threads : pc[t] = "waiting") =>
        lists = MaxSize + 1 /\ sets = 1..lists

\* A thread that waits in use() comes back (Pool.java:51,75).
WaiterReturns == \A t \in Threads : pc[t] = "waiting" ~> pc[t] = "using"

\* The pool keeps the promise of a stock of MaxSize + 1 connections.
L == INSTANCE Lending WITH held <- got, Capacity <- MaxSize + 1
Lends == L!Spec
=============================================================================
