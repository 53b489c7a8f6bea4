----------------------------- MODULE RoundRobin -----------------------------
(***************************************************************************)
(* What os_ex2/resources/uthreads.h promises of the scheduler: one thread  *)
(* runs; the others wait their turn in a queue, are blocked, or sleep for  *)
(* a number of quantums.  No signals, contexts or threads' memory.         *)
(***************************************************************************)
EXTENDS Integers, Sequences, SequencesExt

CONSTANTS Tids, MaxSleep

VARIABLES
    running,  \* the thread whose quantum it is
    queue,    \* READY threads, in the order in which they will run
    blocked,  \* threads that wait for uthread_resume
    asleep,   \* for each sleeping thread, how many quantums are yet to end
    ended     \* the main thread was terminated

vars == <<running, queue, blocked, asleep, ended>>

Used == {running} \cup ToSet(queue) \cup blocked \cup DOMAIN asleep

Init ==
    /\ running = 0 /\ queue = <<>> /\ blocked = {} /\ asleep = <<>>
    /\ ended = FALSE

(* A quantum ends and the next one starts, whatever the reason.  The       *)
(* order of the threads that become ready at that time is left open.       *)
EndQuantum(ready, sleepers) ==
    LET due == {t \in DOMAIN asleep : asleep[t] = 1}
        still == DOMAIN asleep \ due
    IN  /\ \E order \in SetToSeqs(due \cup ready) :
              /\ queue \o order # <<>>
              /\ running' = Head(queue \o order)
              /\ queue' = Tail(queue \o order)
        /\ asleep' = [t \in still \cup DOMAIN sleepers |->
                        IF t \in still THEN asleep[t] - 1 ELSE sleepers[t]]

Preempt == EndQuantum({running}, <<>>) /\ UNCHANGED blocked

Spawn ==
    /\ \E t \in Tids \ Used : queue' = Append(queue, t)
    /\ UNCHANGED <<running, blocked, asleep>>

(* Terminating a thread removes it from wherever it is.                    *)
TerminateOther(t) ==
    /\ t # running
    /\ queue' = RemoveFirst(queue, t)
    /\ blocked' = blocked \ {t}
    /\ asleep' = [u \in DOMAIN asleep \ {t} |-> asleep[u]]
    /\ UNCHANGED running

TerminateSelf == running # 0 /\ EndQuantum({}, <<>>) /\ UNCHANGED blocked

BlockSelf ==
    running # 0 /\ EndQuantum({}, <<>>) /\ blocked' = blocked \cup {running}

BlockOther(t) ==
    /\ t \in ToSet(queue) \ {0}
    /\ queue' = RemoveFirst(queue, t)
    /\ blocked' = blocked \cup {t}
    /\ UNCHANGED <<running, asleep>>

Resume(t) ==
    /\ t \in blocked
    /\ blocked' = blocked \ {t}
    /\ queue' = Append(queue, t)
    /\ UNCHANGED <<running, asleep>>

(* The quantum of the caller is not counted.                               *)
Sleep(n) ==
    running # 0 /\ EndQuantum({}, [t \in {running} |-> n]) /\ UNCHANGED blocked

TerminateMain ==
    /\ running' = 0 /\ queue' = <<>> /\ blocked' = {} /\ asleep' = <<>>
    /\ ended' = TRUE

Step ==
    \/ Preempt \/ Spawn \/ TerminateSelf \/ BlockSelf
    \/ \E t \in Tids \ {0} : TerminateOther(t) \/ BlockOther(t)
    \/ \E t \in Tids : Resume(t)
    \/ \E n \in 1 .. MaxSleep : Sleep(n)

Next == ~ended /\ ((Step /\ UNCHANGED ended) \/ TerminateMain)

Spec == Init /\ [][Next]_vars
=============================================================================
