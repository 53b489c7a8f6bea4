-------------------------- MODULE AbstractBarrier --------------------------
(***************************************************************************)
(* What "a multiple use barrier" (OS_ex3/Resources/Barrier.h:5) promises,  *)
(* without the mutex, the condition variable or the counter: a thread      *)
(* enters the barrier, and leaves it once every thread has entered it as   *)
(* many times.                                                             *)
(***************************************************************************)
EXTENDS Integers

CONSTANT Threads

VARIABLES arrived, left

vars == <<arrived, left>>

Init ==
    /\ arrived = [t \in Threads |-> 0]
    /\ left = [t \in Threads |-> 0]

Arrive(t) ==
    /\ arrived[t] = left[t]
    /\ arrived' = [arrived EXCEPT ![t] = @ + 1]
    /\ UNCHANGED left

Leave(t) ==
    /\ left[t] < arrived[t]
    /\ \A u \in Threads : arrived[t] <= arrived[u]
    /\ left' = [left EXCEPT ![t] = @ + 1]
    /\ UNCHANGED arrived

Next == \E t \in Threads : Arrive(t) \/ Leave(t)

(* Entering is the caller's choice; leaving is the barrier's duty.         *)
Spec == Init /\ [][Next]_vars /\ \A t \in Threads : WF_vars(Leave(t))
=============================================================================
