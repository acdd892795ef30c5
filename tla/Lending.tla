------------------------------ MODULE Lending ------------------------------
(***************************************************************************)
(* What a pool of database connections promises, whatever its bookkeeping: *)
(* a thread holds at most one connection of a fixed stock, a connection is *)
(* held by at most one thread, and what is given back can be lent again.   *)
(***************************************************************************)
EXTENDS Naturals

CONSTANTS Threads,   \* threads that read the database
          Capacity   \* connections that may ever be open

VARIABLE held        \* held[t]: the connection lent to t, 0 for none

Init == held = [t \in Threads |-> 0]

Lend(t) == \E c \in 1..Capacity :
    /\ held[t] = 0
    /\ \A u \in Threads : held[u] # c
    /\ held' = [held EXCEPT ![t] = c]

GiveBack(t) ==
    /\ held[t] # 0
    /\ held' = [held EXCEPT ![t] = 0]

Next == \E t \in Threads : Lend(t) \/ GiveBack(t)

Spec == Init /\ [][Next]_held
=============================================================================
