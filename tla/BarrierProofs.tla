--------------------------- MODULE BarrierProofs ---------------------------
(***************************************************************************)
(* For every number of threads, and any number of rounds: the barrier is   *)
(* type correct, keeps its inductive invariant, is safe, and implements    *)
(* the abstract barrier's steps.                                           *)
(***************************************************************************)
EXTENDS Barrier, FiniteSetTheorems, TLAPS

(* The set of threads is finite and has N members.                         *)
LEMMA ThreadsFinite == IsFiniteSet(Threads) /\ Cardinality(Threads) = N
<1>1. IsFiniteSet(0 .. N - 1)
      /\ Cardinality(0 .. N - 1) = IF 0 > N - 1 THEN 0 ELSE (N - 1) - 0 + 1
  BY NAssumption, FS_Interval
<1> QED  BY <1>1, NAssumption DEF Threads

(* Waiting is a finite subset of Threads.                                  *)
LEMMA WaitingFinite == IsFiniteSet(Waiting) /\ Cardinality(Waiting) \in Nat
<1>1. IsFiniteSet(Waiting)  BY ThreadsFinite, FS_Subset DEF Waiting
<1> QED  BY <1>1, FS_CardinalityType

(* When count says that all the other threads wait, they do: this is what  *)
(* makes a broadcast without a recheck of any condition correct.           *)
LEMMA AllOthersWait ==
  ASSUME BarrierTypeOK, BarrierInv, NEW t \in Threads,
         bpc[t] = "in", count + 1 >= N
  PROVE  Waiting = Threads \ {t}
<1>1. IsFiniteSet(Threads \ {t}) /\ Cardinality(Threads \ {t}) = N - 1
  BY ThreadsFinite, FS_RemoveElement
<1>2. Waiting \subseteq Threads \ {t}  BY DEF Waiting
<1>3. Cardinality(Waiting) = N - 1
  BY NAssumption DEF BarrierInv, CountIsWaiters, BarrierTypeOK
<1> QED  BY <1>1, <1>2, <1>3, FS_Subset

-----------------------------------------------------------------------------
(* Every action keeps the variables in their types.                        *)
LEMMA TypeStep ==
  ASSUME BarrierTypeOK, [BarrierNext]_barrierVars
  PROVE  BarrierTypeOK'
<1> USE NAssumption DEF BarrierTypeOK, BarrierPc
<1>1. CASE UNCHANGED barrierVars  BY <1>1 DEF barrierVars
<1>2. ASSUME NEW t \in Threads, Lock(t)  PROVE BarrierTypeOK'
  BY <1>2 DEF Lock
<1>3. ASSUME NEW t \in Threads, Wait(t)  PROVE BarrierTypeOK'
  BY <1>3 DEF Wait, Threads, NoThread
<1>4. ASSUME NEW t \in Threads, Broadcast(t)  PROVE BarrierTypeOK'
  BY <1>4 DEF Broadcast, Threads
<1>5. ASSUME NEW t \in Threads, Wake(t)  PROVE BarrierTypeOK'
  BY <1>5 DEF Wake
<1>6. ASSUME NEW t \in Threads, Unlock(t)  PROVE BarrierTypeOK'
  BY <1>6 DEF Unlock, Threads, NoThread
<1> QED  BY <1>1, <1>2, <1>3, <1>4, <1>5, <1>6 DEF BarrierNext

-----------------------------------------------------------------------------
(* One lemma per action: it preserves the inductive invariant.             *)
LEMMA LockInv ==
  ASSUME BarrierTypeOK, BarrierInv, NEW t \in Threads, Lock(t)
  PROVE  BarrierInv'
<1> USE DEF BarrierTypeOK, BarrierInv, Lock
<1>1. MutexInv'  BY DEF MutexInv, HoldsMutex, Threads, NoThread
<1>2. CallInv'  BY DEF CallInv
<1>3. RoundInv'  BY DEF RoundInv, Completed
<1>4. CountIsWaiters'
  <2>1. Waiting' = Waiting  BY DEF Waiting
  <2> QED  BY <2>1 DEF CountIsWaiters
<1> QED  BY <1>1, <1>2, <1>3, <1>4

LEMMA WaitInv ==
  ASSUME BarrierTypeOK, BarrierInv, NEW t \in Threads, Wait(t)
  PROVE  BarrierInv'
<1> USE DEF BarrierTypeOK, BarrierInv, Wait
<1>1. MutexInv'  BY DEF MutexInv, HoldsMutex, Threads, NoThread
<1>2. CallInv'  BY DEF CallInv
<1>3. RoundInv'  BY DEF RoundInv, Completed
<1>4. CountIsWaiters'
  <2>1. Waiting' = Waiting \cup {t} /\ t \notin Waiting  BY DEF Waiting
  <2>2. Cardinality(Waiting') = Cardinality(Waiting) + 1
    BY <2>1, WaitingFinite, FS_AddElement
  <2> QED  BY <2>2 DEF CountIsWaiters
<1> QED  BY <1>1, <1>2, <1>3, <1>4

LEMMA BroadcastInv ==
  ASSUME BarrierTypeOK, BarrierInv, NEW t \in Threads, Broadcast(t)
  PROVE  BarrierInv'
<1>1. \A u \in Threads \ {t} : bpc[u] = "waiting"
  BY AllOthersWait DEF Broadcast, Waiting
<1>2. bpc' = [u \in Threads |-> IF u = t THEN "leaving" ELSE "woken"]
  BY <1>1 DEF Broadcast
<1> USE DEF BarrierTypeOK, BarrierInv, Broadcast
<1>3. MutexInv'  BY <1>1, <1>2 DEF MutexInv, HoldsMutex
<1>4. CallInv'  BY <1>1, <1>2 DEF CallInv
<1>5. RoundInv'
  <2>1. \A u \in Threads : Completed(u)' = Completed(u) + 1
    BY <1>1, <1>2 DEF Completed
  <2> QED  BY <2>1 DEF RoundInv
<1>6. CountIsWaiters'
  <2>1. Waiting' = {}  BY <1>2 DEF Waiting
  <2> QED  BY <2>1, FS_EmptySet DEF CountIsWaiters
<1> QED  BY <1>3, <1>4, <1>5, <1>6

LEMMA WakeInv ==
  ASSUME BarrierTypeOK, BarrierInv, NEW t \in Threads, Wake(t)
  PROVE  BarrierInv'
<1> USE DEF BarrierTypeOK, BarrierInv, Wake
<1>1. MutexInv'  BY DEF MutexInv, HoldsMutex, Threads, NoThread
<1>2. CallInv'  BY DEF CallInv
<1>3. RoundInv'  BY DEF RoundInv, Completed
<1>4. CountIsWaiters'
  <2>1. Waiting' = Waiting  BY DEF Waiting
  <2> QED  BY <2>1 DEF CountIsWaiters
<1> QED  BY <1>1, <1>2, <1>3, <1>4

LEMMA UnlockInv ==
  ASSUME BarrierTypeOK, BarrierInv, NEW t \in Threads, Unlock(t)
  PROVE  BarrierInv'
<1> USE DEF BarrierTypeOK, BarrierInv, Unlock
<1>1. MutexInv'  BY DEF MutexInv, HoldsMutex, Threads, NoThread
<1>2. CallInv'  BY DEF CallInv
<1>3. RoundInv'  BY DEF RoundInv, Completed
<1>4. CountIsWaiters'
  <2>1. Waiting' = Waiting  BY DEF Waiting
  <2> QED  BY <2>1 DEF CountIsWaiters
<1> QED  BY <1>1, <1>2, <1>3, <1>4

LEMMA InvStep ==
  ASSUME BarrierTypeOK, BarrierInv, [BarrierNext]_barrierVars
  PROVE  BarrierInv'
<1>1. CASE UNCHANGED barrierVars
  <2>1. Waiting' = Waiting  BY <1>1 DEF Waiting, barrierVars
  <2> QED  BY <1>1, <2>1 DEF BarrierInv, MutexInv, HoldsMutex, CallInv,
              RoundInv, Completed, CountIsWaiters, barrierVars
<1>2. CASE BarrierNext
  BY <1>2, LockInv, WaitInv, BroadcastInv, WakeInv, UnlockInv DEF BarrierNext
<1> QED  BY <1>1, <1>2

(* The invariant implies the safety property.                              *)
LEMMA InvSafe ==
  ASSUME BarrierTypeOK, BarrierInv
  PROVE  BarrierSafety
<1> SUFFICES ASSUME NEW t \in Threads, NEW u \in Threads
             PROVE  left[t] <= arrived[u]
  BY DEF BarrierSafety
<1>1. Completed(t) = Completed(u)  BY DEF BarrierInv, RoundInv
<1>2. left[t] <= Completed(t)
  BY DEF BarrierTypeOK, BarrierInv, CallInv, Completed
<1>3. Completed(u) <= arrived[u]  BY DEF BarrierTypeOK, Completed
<1> QED  BY <1>1, <1>2, <1>3 DEF BarrierTypeOK, Completed

(* The barrier starts with its invariant.                                  *)
LEMMA InitInv == BarrierInit => BarrierTypeOK /\ BarrierInv
<1> SUFFICES ASSUME BarrierInit PROVE BarrierTypeOK /\ BarrierInv  OBVIOUS
<1> USE DEF BarrierInit
<1>1. BarrierTypeOK  BY NAssumption DEF BarrierTypeOK, BarrierPc
<1>2. MutexInv /\ CallInv /\ RoundInv
  BY DEF MutexInv, HoldsMutex, CallInv, RoundInv, Completed, Threads, NoThread
<1>3. CountIsWaiters
  <2>1. Waiting = {}  BY DEF Waiting
  <2> QED  BY <2>1, FS_EmptySet DEF CountIsWaiters
<1> QED  BY <1>1, <1>2, <1>3 DEF BarrierInv

-----------------------------------------------------------------------------
(* barrier() keeps its state well typed: in particular count never reaches *)
(* numThreads outside the mutex (Barrier.cpp:32-38).                       *)
THEOREM TypeCorrect == BarrierSpec => []BarrierTypeOK
<1>1. BarrierInit => BarrierTypeOK  BY InitInv
<1>2. BarrierTypeOK /\ [BarrierNext]_barrierVars => BarrierTypeOK'
  BY TypeStep
<1> QED  BY <1>1, <1>2, PTL DEF BarrierSpec

(* The inductive invariant: who holds the mutex, that count counts exactly *)
(* the threads blocked in pthread_cond_wait, and that the rounds agree.    *)
THEOREM Invariant == BarrierSpec => []BarrierInv
<1>1. BarrierInit => BarrierInv  BY InitInv
<1>2. BarrierTypeOK /\ BarrierInv /\ [BarrierNext]_barrierVars => BarrierInv'
  BY InvStep
<1> QED  BY <1>1, <1>2, TypeCorrect, PTL DEF BarrierSpec

(* For every number of threads, no thread returns from its k-th barrier()  *)
(* call before all have made theirs, provided waits do not end spuriously. *)
THEOREM Safety == BarrierSpec => []BarrierSafety
<1>1. BarrierTypeOK /\ BarrierInv => BarrierSafety  BY InvSafe
<1> QED  BY <1>1, TypeCorrect, Invariant, PTL

-----------------------------------------------------------------------------
Abstract == INSTANCE AbstractBarrier

(* Every step of the barrier is an arrival, a departure or a stutter of    *)
(* the abstract barrier.                                                   *)
LEMMA StepRefines ==
  ASSUME BarrierTypeOK, BarrierInv, [BarrierNext]_barrierVars
  PROVE  [Abstract!Next]_(Abstract!vars)
<1> USE DEF Abstract!Next, Abstract!vars
<1>1. CASE UNCHANGED barrierVars  BY <1>1 DEF barrierVars
<1>2. ASSUME NEW t \in Threads, Lock(t) \/ Wake(t)
      PROVE  UNCHANGED <<arrived, left>>
  BY <1>2 DEF Lock, Wake
<1>3. ASSUME NEW t \in Threads, Wait(t) \/ Broadcast(t)
      PROVE  Abstract!Arrive(t)
  <2>1. arrived[t] = left[t]
    BY <1>3 DEF BarrierTypeOK, BarrierInv, CallInv, Wait, Broadcast
  <2> QED  BY <1>3, <2>1 DEF Wait, Broadcast, Abstract!Arrive
<1>4. ASSUME NEW t \in Threads, Unlock(t)  PROVE Abstract!Leave(t)
  <2>1. left[t] < arrived[t]
    BY <1>4 DEF BarrierTypeOK, BarrierInv, CallInv, Unlock
  <2>2. \A u \in Threads : arrived[t] <= arrived[u]
    BY <1>4 DEF BarrierTypeOK, BarrierInv, RoundInv, Completed, Unlock
  <2> QED  BY <1>4, <2>1, <2>2 DEF Unlock, Abstract!Leave
<1> QED  BY <1>1, <1>2, <1>3, <1>4 DEF BarrierNext

(* barrier() implements the barrier its header promises: the safety part   *)
(* of AbstractBarrier, for every number of threads and rounds.             *)
THEOREM Implements == BarrierSpec => Abstract!Init /\ [][Abstract!Next]_(Abstract!vars)
<1>1. BarrierInit => Abstract!Init  BY DEF BarrierInit, Abstract!Init
<1>2. BarrierTypeOK /\ BarrierInv /\ [BarrierNext]_barrierVars
        => [Abstract!Next]_(Abstract!vars)
  BY StepRefines
<1> QED  BY <1>1, <1>2, TypeCorrect, Invariant, PTL DEF BarrierSpec
=============================================================================
