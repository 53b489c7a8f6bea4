------------------------------ MODULE Barrier ------------------------------
(***************************************************************************)
(* The reusable thread barrier of OS_ex3/Resources/Barrier.cpp: a mutex, a *)
(* condition variable and a counter.  One call of barrier() is             *)
(*                                                                         *)
(*   Lock ; (Wait ; Wake | Broadcast) ; Unlock                             *)
(*                                                                         *)
(* The module is a component: BarrierDemo and MapReduce drive it.          *)
(***************************************************************************)
EXTENDS Integers, FiniteSets

CONSTANT N  \* numThreads, the constructor's argument

ASSUME NAssumption == N \in Nat \ {0}

Threads == 0 .. N - 1
NoThread == -1

VARIABLES
    mutex,    \* the thread that holds the mutex, or NoThread
    bpc,      \* where each thread stands in (or out of) barrier()
    count,    \* the member count
    arrived,  \* history: how many barrier() calls each thread has entered
    left      \* history: how many barrier() calls each thread has returned from

barrierVars == <<mutex, bpc, count, arrived, left>>

(* "waiting" is blocked in pthread_cond_wait; "woken" was released from    *)
(* the condition variable and has yet to take the mutex again.             *)
BarrierPc == {"out", "in", "waiting", "woken", "leaving"}

BarrierTypeOK ==
    /\ mutex \in Threads \cup {NoThread}
    /\ bpc \in [Threads -> BarrierPc]
    /\ count \in 0 .. N - 1
    /\ arrived \in [Threads -> Nat]
    /\ left \in [Threads -> Nat]

BarrierInit ==
    /\ mutex = NoThread
    /\ bpc = [t \in Threads |-> "out"]
    /\ count = 0
    /\ arrived = [t \in Threads |-> 0]
    /\ left = [t \in Threads |-> 0]

-----------------------------------------------------------------------------
Waiting == {t \in Threads : bpc[t] = "waiting"}

Lock(t) ==
    /\ bpc[t] = "out"
    /\ mutex = NoThread
    /\ mutex' = t
    /\ bpc' = [bpc EXCEPT ![t] = "in"]
    /\ UNCHANGED <<count, arrived, left>>

(* ++count < numThreads: wait on cv, which releases the mutex.             *)
Wait(t) ==
    /\ bpc[t] = "in"
    /\ count + 1 < N
    /\ count' = count + 1
    /\ mutex' = NoThread
    /\ bpc' = [bpc EXCEPT ![t] = "waiting"]
    /\ arrived' = [arrived EXCEPT ![t] = @ + 1]
    /\ UNCHANGED left

(* Mutant of Broadcast: the last thread does not reset the counter.        *)
BroadcastKeepsCount(t) ==
    /\ bpc[t] = "in"
    /\ count + 1 >= N
    /\ count' = count + 1
    /\ bpc' = [u \in Threads |->
                 IF u = t THEN "leaving"
                 ELSE IF bpc[u] = "waiting" THEN "woken" ELSE bpc[u]]
    /\ arrived' = [arrived EXCEPT ![t] = @ + 1]
    /\ UNCHANGED <<mutex, left>>

(* The last thread resets the counter and wakes every waiter.              *)
Broadcast(t) ==
    /\ bpc[t] = "in"
    /\ count + 1 >= N
    /\ count' = 0
    /\ bpc' = [u \in Threads |->
                 IF u = t THEN "leaving"
                 ELSE IF bpc[u] = "waiting" THEN "woken" ELSE bpc[u]]
    /\ arrived' = [arrived EXCEPT ![t] = @ + 1]
    /\ UNCHANGED <<mutex, left>>

(* Mutant of Wake: the wait is a loop that ends when count is 0, which a   *)
(* fast thread that is already in the next round makes untrue again.       *)
WakeWhileCounting(t) ==
    /\ bpc[t] = "woken"
    /\ mutex = NoThread
    /\ IF count # 0
       THEN UNCHANGED <<mutex, bpc>>
       ELSE mutex' = t /\ bpc' = [bpc EXCEPT ![t] = "leaving"]
    /\ UNCHANGED <<count, arrived, left>>

(* pthread_cond_wait returns once it holds the mutex again.  The code      *)
(* waits in an if, not in a loop, so nothing is tested again.              *)
Wake(t) ==
    /\ bpc[t] = "woken"
    /\ mutex = NoThread
    /\ mutex' = t
    /\ bpc' = [bpc EXCEPT ![t] = "leaving"]
    /\ UNCHANGED <<count, arrived, left>>

Unlock(t) ==
    /\ bpc[t] = "leaving"
    /\ mutex' = NoThread
    /\ bpc' = [bpc EXCEPT ![t] = "out"]
    /\ left' = [left EXCEPT ![t] = @ + 1]
    /\ UNCHANGED <<count, arrived>>

BarrierNext ==
    \E t \in Threads :
        Lock(t) \/ Wait(t) \/ Broadcast(t) \/ Wake(t) \/ Unlock(t)

BarrierSpec == BarrierInit /\ [][BarrierNext]_barrierVars

-----------------------------------------------------------------------------
(* Nobody returns from its k-th barrier() call before every thread has     *)
(* entered its own k-th call, however often the barrier is used again      *)
(* while slow threads have not yet left it (Barrier.cpp:32-43).            *)
BarrierSafety == \A t, u \in Threads : left[t] <= arrived[u]

(* A thread that has not been woken is counted, and only such threads are: *)
(* the thread that finds count + 1 = numThreads releases exactly the       *)
(* threads of its own round, and none is stranded on the condition         *)
(* variable for ever (Barrier.cpp:32, 38).                                 *)
CountIsWaiters == count = Cardinality(Waiting)

-----------------------------------------------------------------------------
(* The inductive invariant.  The mutex is held exactly by the thread that  *)
(* is between Lock/Wake and Wait/Unlock; waiting threads are one round     *)
(* ahead of all the others.                                                *)
HoldsMutex(t) == bpc[t] \in {"in", "leaving"}

MutexInv == \A t \in Threads : HoldsMutex(t) <=> mutex = t

CallInv ==
    \A t \in Threads :
        arrived[t] = left[t] + (IF bpc[t] \in {"out", "in"} THEN 0 ELSE 1)

(* All threads have completed entering the same rounds; a waiting thread   *)
(* has entered one more.                                                   *)
Completed(t) == IF bpc[t] = "waiting" THEN arrived[t] - 1 ELSE arrived[t]

RoundInv == \A t, u \in Threads : Completed(t) = Completed(u)

BarrierInv == MutexInv /\ CallInv /\ RoundInv /\ CountIsWaiters
=============================================================================
