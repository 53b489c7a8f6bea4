---------------------------- MODULE BarrierDemo ----------------------------
(***************************************************************************)
(* The closed program of Resources/Barrier/barrierdemo.cpp: N threads that *)
(* call barrier() Rounds times each (twice in the demo, and twice in       *)
(* map_reduce_for_thread) and return.                                      *)
(***************************************************************************)
EXTENDS Barrier

CONSTANT Rounds

ASSUME RoundsAssumption == Rounds \in Nat

(* foo() has returned in every thread.                                     *)
Finished ==
    /\ \A t \in Threads : bpc[t] = "out" /\ left[t] = Rounds
    /\ UNCHANGED barrierVars

(* A step inside barrier(), or into it.                                    *)
barrier(t) == Lock(t) \/ Wait(t) \/ Broadcast(t) \/ Wake(t) \/ Unlock(t)

foo(t) == (bpc[t] = "out" => left[t] < Rounds) /\ barrier(t)

DemoNext == Finished \/ \E t \in Threads : foo(t)

-----------------------------------------------------------------------------
(* What barrier() promises, with the mutex, the condition variable and the *)
(* counter hidden: see AbstractBarrier.                                    *)
Abstract == INSTANCE AbstractBarrier
ImplementsAbstractBarrier == Abstract!Spec
=============================================================================
