--------------------------- MODULE UThreadsProofs ---------------------------
(***************************************************************************)
(* For every number of threads, every bound on sleeps and every program:   *)
(* the scheduler's lists agree with the threads' states, the thread that   *)
(* runs is the one the library takes for the running one, the library      *)
(* implements RoundRobin, and so nobody that waits for a turn is overtaken.*)
(***************************************************************************)
EXTENDS UThreads, DataLemmas

States == {"free", "READY", "RUNNING", "BLOCKED"}

(* The recursive function of push_back_due satisfies its equations.        *)
LEMMA PushedExists ==
  ASSUME NEW s \in Globals
  PROVE  \E f \in [0 .. Len(s.wakes[0]) -> Seq(Tids)] :
            /\ push_back_due(s) = f[Len(s.wakes[0])]
            /\ f[0] = s.ready
            /\ \A i \in 1 .. Len(s.wakes[0]) :
                  f[i] = IF s.st[s.wakes[0][i]] = "BLOCKED" THEN f[i - 1]
                         ELSE Append(f[i - 1], s.wakes[0][i])
<1> DEFINE due == s.wakes[0]
           n == Len(due)
           Q == Seq(Tids)
           b == s.ready
           Step(i, q) == IF s.st[due[i]] = "BLOCKED" THEN q ELSE Append(q, due[i])
           g == [i \in 1 .. n |-> [q \in Q |-> Step(i, q)]]
           Body(f) == [i \in 0 .. n |-> IF i = 0 THEN b ELSE Step(i, f[i - 1])]
           pushed == CHOOSE f : f = Body(f)
<1>1. due \in Seq(Tids) /\ n \in Nat /\ b \in Q
  BY UThreadsAssumption DEF Globals, Delays
<1>2. push_back_due(s) = pushed[n]  BY DEF push_back_due
<1>3. \A i \in 1 .. n, q \in Q : Step(i, q) \in Q
  <2>1. \A i \in 1 .. n : due[i] \in Tids  BY <1>1
  <2> QED  BY <2>1
<1> HIDE DEF due, n, b, Q, Step
<1>4. g \in [1 .. n -> [Q -> Q]] /\ \A i \in 1 .. n, q \in Q : g[i][q] = Step(i, q)
  BY <1>3
<1> HIDE DEF g
<1>5. PICK f : f \in Recursion(n, Q, b, g)  BY <1>1, <1>4, RecursionExists
<1>6. f = Body(f)
  <2>1. f \in [0 .. n -> Q] /\ f[0] = b /\ \A i \in 1 .. n : f[i] = g[i][f[i - 1]]
    BY <1>5 DEF Recursion
  <2>2. \A i \in 1 .. n : f[i - 1] \in Q  BY <1>1, <2>1
  <2>3. \A i \in 1 .. n : f[i] = Step(i, f[i - 1])  BY <1>1, <1>4, <2>1, <2>2
  <2> QED  BY <1>1, <2>1, <2>3
<1>7. pushed = Body(pushed)  BY <1>6
<1> HIDE DEF pushed
<1>8. pushed[0] = b /\ \A i \in 1 .. n : pushed[i] = Step(i, pushed[i - 1])
  BY <1>1, <1>7
<1>9. \A i \in 0 .. n : pushed[i] \in Q
  <2> DEFINE T == {i \in 0 .. n : pushed[i] \in Q}
  <2>1. 0 \in T  BY <1>1, <1>8
  <2>2. ASSUME NEW i \in 0 .. n - 1, i \in T  PROVE i + 1 \in T
    <3>1. i + 1 \in 1 .. n /\ (i + 1) - 1 = i  BY <1>1
    <3>2. pushed[i + 1] = Step(i + 1, pushed[i])  BY <1>8, <3>1
    <3>3. pushed[i + 1] \in Q  BY <1>3, <2>2, <3>1, <3>2
    <3> QED  BY <1>1, <3>1, <3>3
  <2> HIDE DEF T
  <2>3. \A i \in 0 .. n : i \in T  BY <1>1, <2>1, <2>2, UpToInduction
  <2> QED  BY <2>3 DEF T
<1>10. pushed \in [0 .. n -> Q]  BY <1>7, <1>9
<1> QED  BY <1>2, <1>8, <1>10 DEF n, due, Q, b, Step

(* What wake_threads adds is what is due, in the same order, unless a      *)
(* thread is blocked.                                                      *)
LEMMA PushBackDue ==
  ASSUME NEW s \in Globals
  PROVE  /\ push_back_due(s) \in Seq(Tids)
         /\ (\A i \in DOMAIN s.wakes[0] : s.st[s.wakes[0][i]] # "BLOCKED")
              => push_back_due(s) = s.ready \o s.wakes[0]
<1> DEFINE due == s.wakes[0]
           n == Len(due)
<1>1. due \in Seq(Tids) /\ n \in Nat /\ s.ready \in Seq(Tids) /\ DOMAIN due = 1 .. n
  BY UThreadsAssumption DEF Globals, Delays
<1>2. PICK f \in [0 .. n -> Seq(Tids)] :
         /\ push_back_due(s) = f[n]
         /\ f[0] = s.ready
         /\ \A i \in 1 .. n : f[i] = IF s.st[due[i]] = "BLOCKED" THEN f[i - 1]
                                     ELSE Append(f[i - 1], due[i])
  BY PushedExists
<1>3. ASSUME \A i \in DOMAIN due : s.st[due[i]] # "BLOCKED"
      PROVE  push_back_due(s) = s.ready \o due
  <2> DEFINE T == {i \in 0 .. n : f[i] = s.ready \o SubSeq(due, 1, i)}
  <2>1. 0 \in T  BY <1>1, <1>2
  <2>2. ASSUME NEW i \in 0 .. n - 1, i \in T  PROVE i + 1 \in T
    <3> HIDE DEF due, n
    <3>1. i + 1 \in 1 .. n /\ (i + 1) - 1 = i /\ due[i + 1] \in Tids  BY <1>1 DEF n
    <3>2. f[i + 1] = Append(s.ready \o SubSeq(due, 1, i), due[i + 1])
      BY <1>1, <1>2, <1>3, <2>2, <3>1
    <3>3. f[i + 1] = s.ready \o SubSeq(due, 1, i + 1)
      BY <1>1, <3>2, ConcatPrefix DEF n
    <3>4. i + 1 \in 0 .. n  BY <1>1
    <3> QED  BY <3>3, <3>4
  <2> HIDE DEF T
  <2>3. \A i \in 0 .. n : i \in T  BY <1>1, <2>1, <2>2, UpToInduction
  <2>5. n \in T  BY <1>1, <2>3, n \in 0 .. n
  <2>4. SubSeq(due, 1, n) = due  BY <1>1, SubSeqFull
  <2> QED  BY <1>2, <2>5, <2>4 DEF T
<1>4. push_back_due(s) \in Seq(Tids)  BY <1>1, <1>2
<1> QED  BY <1>3, <1>4

-----------------------------------------------------------------------------
(* Each function of the scheduler keeps the record's type.                 *)
LEMMA FaultType ==
  ASSUME NEW s \in Globals, NEW f \in {"useAfterFree", "emptyDeque", "nullRunning", "nullSlot", "outOfBounds"}
  PROVE  Fault(s, f) \in Globals
  BY DEF Fault, Globals

LEMMA WakeType == ASSUME NEW s \in Globals  PROVE wake_threads(s) \in Globals
<1>1. push_back_due(s) \in Seq(Tids)  BY PushBackDue
<1> QED  BY <1>1, FaultType DEF wake_threads, Globals

LEMMA CountType == ASSUME NEW s \in Globals  PROVE count_quantum(s) \in Globals
<1> DEFINE w == [d \in Delays |-> IF d < MaxSleep THEN s.wakes[d + 1] ELSE <<>>]
           u == (s.uncredited + 1) % LedgerSize
<1>1. w \in [Delays -> Seq(Tids)]  BY UThreadsAssumption DEF Globals, Delays
<1>2. u \in 0 .. LedgerSize - 1  BY DEF Globals, LedgerSize
<1>3. count_quantum(s) = [s EXCEPT !.wakes = w, !.uncredited = u]  BY DEF count_quantum, Globals
<1> HIDE DEF w, u
<1> QED  BY <1>1, <1>2, <1>3 DEF Globals

(* The list but its first thread, with or without that one at the back.    *)
LEMMA TailType ==
  ASSUME NEW s \in Globals, s.ready # <<>>
  PROVE  /\ Head(s.ready) \in Tids
         /\ Tail(s.ready) \in Seq(Tids)
         /\ \A t \in Tids : Append(Tail(s.ready), t) \in Seq(Tids)
<1>1. s.ready \in Seq(Tids)  BY DEF Globals
<1>2. Head(s.ready) \in Tids /\ Tail(s.ready) \in Seq(Tids)  BY <1>1, HeadTailProperties
<1> QED  BY <1>2, AppendProperties

LEMMA PopExitingType == ASSUME NEW s \in Globals  PROVE pop_exiting(s) \in Globals
<1> SUFFICES ASSUME s.status = "ok", s.ready # <<>>, s.st[Head(s.ready)] # "free"
             PROVE  pop_exiting(s) \in Globals
  BY FaultType DEF pop_exiting
<1> DEFINE t == Head(s.ready)
           state == IF s.st[t] = "RUNNING" THEN "READY" ELSE s.st[t]
           q == IF state = "READY" /\ ~s.sleep[t] THEN Append(Tail(s.ready), t) ELSE Tail(s.ready)
<1>1. t \in Tids /\ q \in Seq(Tids)  BY TailType
<1>2. state \in States  BY <1>1 DEF Globals, States
<1>3. pop_exiting(s) = [s EXCEPT !.st[t] = state, !.ready = q]  BY DEF pop_exiting
<1> HIDE DEF t, state, q
<1>4. [s.st EXCEPT ![t] = state] \in [Tids -> States]  BY <1>2 DEF Globals, States
<1> QED  BY <1>1, <1>3, <1>4 DEF Globals, States

LEMMA PopFrontType == ASSUME NEW s \in Globals  PROVE pop_front(s) \in Globals
<1> SUFFICES ASSUME s.ready # <<>>  PROVE [s EXCEPT !.ready = Tail(@)] \in Globals
  BY FaultType DEF pop_front
<1> DEFINE q == Tail(s.ready)
<1>1. q \in Seq(Tids)  BY TailType
<1> HIDE DEF q
<1>2. [s EXCEPT !.ready = q] \in Globals  BY <1>1 DEF Globals
<1> QED  BY <1>2 DEF q

LEMMA RunType == ASSUME NEW s \in Globals  PROVE run_new_thread(s) \in Globals
<1> SUFFICES ASSUME s.status = "ok", s.ready # <<>>, s.st[Head(s.ready)] # "free"
             PROVE  run_new_thread(s) \in Globals
  BY FaultType DEF run_new_thread
<1> DEFINE t == Head(s.ready)
           u == (s.uncredited - 1) % LedgerSize
<1>1. t \in Tids  BY TailType
<1>2. u \in 0 .. LedgerSize - 1  BY DEF Globals, LedgerSize
<1>3. run_new_thread(s) = [s EXCEPT !.st[t] = "RUNNING", !.running = t, !.uncredited = u]
  BY DEF run_new_thread
<1> HIDE DEF t, u
<1> DEFINE st == [s.st EXCEPT ![t] = "RUNNING"]
<1>4. st \in [Tids -> {"free", "READY", "RUNNING", "BLOCKED"}]  BY <1>1 DEF Globals
<1>5. run_new_thread(s) = [s EXCEPT !.st = st, !.running = t, !.uncredited = u]
  BY <1>3 DEF Globals
<1> HIDE DEF st
<1> QED  BY <1>1, <1>2, <1>4, <1>5 DEF Globals

-----------------------------------------------------------------------------
LEMMA InitType == Init => UThreadsTypeOK
  BY UThreadsAssumption
     DEF Init, UThreadsTypeOK, Globals, Initialisers, MainThread, Entry, Context, Contexts,
         Places, Tids, Delays, LedgerSize

(* A step that changes only where the executing code is.                   *)
LEMMA GotoType ==
  ASSUME UThreadsTypeOK, NEW place \in Places, Goto(place)
  PROVE  cur' \in Contexts
  BY DEF Goto, UThreadsTypeOK, Contexts

(* A switch to a thread: what is saved was a context.                      *)
LEMMA SchedulerType == UThreadsTypeOK /\ scheduler => UThreadsTypeOK'
<1> SUFFICES ASSUME UThreadsTypeOK, scheduler  PROVE UThreadsTypeOK'  OBVIOUS
<1>1. CASE Alive(k.running)
  <2>1. k' \in Globals
    BY <1>1, WakeType, CountType, PopExitingType, RunType
       DEF scheduler, handle_new_quantum, UThreadsTypeOK
  <2>2. env' \in [Tids -> Contexts]  BY <1>1 DEF scheduler, UThreadsTypeOK
  <2>3. cur' \in Contexts /\ masked' = FALSE
    BY <1>1, <2>1, <2>2 DEF scheduler, JumpTo, Globals
  <2> QED  BY <2>1, <2>2, <2>3 DEF scheduler, UThreadsTypeOK
<1>2. CASE ~ Alive(k.running)  BY <1>2, FaultType DEF scheduler, UThreadsTypeOK
<1> QED  BY <1>1, <1>2

LEMMA SwitchType == UThreadsTypeOK /\ move_to_next_thread => UThreadsTypeOK'
<1> SUFFICES ASSUME UThreadsTypeOK, move_to_next_thread  PROVE UThreadsTypeOK'  OBVIOUS
<1> USE DEF UThreadsTypeOK
<1>0. {"wake", "count", "pop", "run", "user"} \subseteq Places  BY DEF Places
<1>1. CASE Save
  <2>1. cur' \in Contexts  BY <1>0, <1>1, GotoType DEF Save
  <2>2. [cur EXCEPT !.at = "user"] \in Contexts  BY <1>0 DEF Contexts
  <2> QED  BY <1>1, <2>1, <2>2 DEF Save
<1>2. CASE Handle("wake", wake_threads(k), "count")
  BY <1>0, <1>2, GotoType, WakeType DEF Handle
<1>3. CASE Handle("count", count_quantum(k), "pop")
  BY <1>0, <1>3, GotoType, CountType DEF Handle
<1>4. CASE Handle("pop", pop_exiting(k), "run")
  BY <1>0, <1>4, GotoType, PopExitingType DEF Handle
<1>5. CASE Run
  <2>1. k' \in Globals  BY <1>5, RunType DEF Run
  <2>2. k'.running \in Tids  BY <2>1 DEF Globals
  <2> QED  BY <1>5, <2>1, <2>2 DEF Run, Contexts, Places
<1>6. CASE Jump
  <2>1. cur.local \in Tids  BY DEF Contexts
  <2> QED  BY <1>6, <2>1, FaultType DEF Jump, JumpTo
<1> QED  BY <1>1, <1>2, <1>3, <1>4, <1>5, <1>6 DEF move_to_next_thread

LEMMA ReadQuantumsType == UThreadsTypeOK /\ ReadQuantums => UThreadsTypeOK'
<1> SUFFICES ASSUME UThreadsTypeOK, ReadQuantums  PROVE UThreadsTypeOK'  OBVIOUS
<1>1. cur' \in Contexts  BY GotoType DEF ReadQuantums, Places
<1>2. k' \in Globals  BY FaultType DEF ReadQuantums, UThreadsTypeOK
<1> QED  BY <1>1, <1>2 DEF ReadQuantums, UThreadsTypeOK

LEMMA SpawnType == UThreadsTypeOK /\ uthread_spawn => UThreadsTypeOK'
<1> SUFFICES ASSUME UThreadsTypeOK, uthread_spawn  PROVE UThreadsTypeOK'  OBVIOUS
<1> USE DEF UThreadsTypeOK
<1>1. PICK t \in Tids, flag \in {FALSE, dirty} :
         /\ k' = [k EXCEPT !.st[t] = "READY", !.sleep[t] = flag, !.ready = Append(@, t)]
         /\ env' = [env EXCEPT ![t] = Entry(t)]
         /\ masked' = FALSE
         /\ UNCHANGED <<cur, dirty>>
  BY DEF uthread_spawn
<1>2. k' \in Globals
  <2> DEFINE q == Append(k.ready, t)
             a == [k.st EXCEPT ![t] = "READY"]
             b == [k.sleep EXCEPT ![t] = flag]
  <2>1. q \in Seq(Tids) /\ a \in [Tids -> States]  BY DEF Globals, States
  <2>3. b \in [Tids -> BOOLEAN]
    <3>1. flag \in BOOLEAN  OBVIOUS
    <3> QED  BY <3>1 DEF Globals
  <2>2. k' = [k EXCEPT !.st = a, !.sleep = b, !.ready = q]  BY <1>1
  <2> HIDE DEF q, a, b
  <2> QED  BY <2>1, <2>2, <2>3 DEF Globals, States
<1>3. Entry(t) \in Contexts
  BY UThreadsAssumption DEF Entry, Context, Contexts, Places, Tids
<1> QED  BY <1>1, <1>2, <1>3

LEMMA TerminateSelfType ==
  ASSUME UThreadsTypeOK, NEW t \in Tids, TerminateSelf(t)
  PROVE  UThreadsTypeOK'
<1> USE DEF UThreadsTypeOK
<1> DEFINE c == count_quantum(k)
           s == [c EXCEPT !.st[t] = "free"]
<1>1. c \in Globals  BY CountType
<1>2. s \in Globals
  <2> HIDE DEF c
  <2> QED  BY <1>1 DEF Globals
<1>3. k' = run_new_thread(pop_front(s))  BY DEF TerminateSelf
<1> HIDE DEF s
<1>4. k' \in Globals  BY <1>2, <1>3, RunType, PopFrontType
<1>5. k'.running \in Tids  BY <1>4 DEF Globals
<1>6. cur' \in Contexts  BY <1>5 DEF TerminateSelf, Contexts, Places
<1>7. k.sleep[t] \in BOOLEAN  BY DEF Globals
<1> QED  BY <1>4, <1>6, <1>7 DEF TerminateSelf

LEMMA TerminateOtherType ==
  ASSUME UThreadsTypeOK, NEW t \in Tids, TerminateOther(t)
  PROVE  UThreadsTypeOK'
<1> USE DEF UThreadsTypeOK
<1> DEFINE q == IF k.st[t] = "READY" THEN RemoveFirst(k.ready, t) ELSE k.ready
<1>1. q \in Seq(Tids)  BY RemoveFirstType DEF Globals
<1>2. k' = [k EXCEPT !.st[t] = "free", !.ready = q]  BY DEF TerminateOther
<1> HIDE DEF q
<1>3. k' \in Globals  BY <1>1, <1>2 DEF Globals
<1>4. k.sleep[t] \in BOOLEAN  BY DEF Globals
<1> QED  BY <1>3, <1>4 DEF TerminateOther, Return

LEMMA BlockType ==
  ASSUME UThreadsTypeOK, NEW t \in Tids, BlockSelf(t) \/ BlockOther(t)
  PROVE  UThreadsTypeOK'
<1> USE DEF UThreadsTypeOK
<1>1. CASE BlockSelf(t)
  <2>1. k' \in Globals  BY <1>1 DEF BlockSelf, Globals
  <2>2. cur' \in Contexts  BY <1>1, GotoType DEF BlockSelf, Places
  <2> QED  BY <1>1, <2>1, <2>2 DEF BlockSelf
<1>2. CASE BlockOther(t)
  <2> DEFINE q == RemoveFirst(k.ready, t)
  <2>1. q \in Seq(Tids)  BY RemoveFirstType DEF Globals
  <2> HIDE DEF q
  <2>2. [k EXCEPT !.st[t] = "BLOCKED", !.ready = q] \in Globals  BY <2>1 DEF Globals
  <2> QED  BY <1>2, <2>2 DEF BlockOther, Return, ReturnMasked, q
<1> QED  BY <1>1, <1>2

LEMMA ResumeType ==
  ASSUME UThreadsTypeOK, NEW t \in Tids, uthread_resume(t)
  PROVE  UThreadsTypeOK'
<1> USE DEF UThreadsTypeOK
<1> DEFINE q == Append(k.ready, t)
<1>1. q \in Seq(Tids)  BY DEF Globals
<1> HIDE DEF q
<1>2. [k EXCEPT !.st[t] = "READY", !.ready = q] \in Globals  BY <1>1 DEF Globals
<1> QED  BY <1>2 DEF uthread_resume, Return, q

LEMMA SleepType ==
  ASSUME UThreadsTypeOK, NEW n \in 1 .. MaxSleep, uthread_sleep(n)
  PROVE  UThreadsTypeOK'
<1> USE DEF UThreadsTypeOK
<1> DEFINE t == k.running
           a == [k.sleep EXCEPT ![t] = TRUE]
           w == [k.wakes EXCEPT ![n] = Append(@, t)]
<1>1. t \in Tids  BY DEF Globals
<1>2. n \in Delays  BY DEF Delays
<1>3. a \in [Tids -> BOOLEAN]  BY <1>1 DEF Globals
<1>4. w \in [Delays -> Seq(Tids)]  BY <1>1, <1>2 DEF Globals
<1>5. k' = [k EXCEPT !.sleep = a, !.wakes = w]  BY DEF uthread_sleep
<1> HIDE DEF t, a, w
<1>6. k' \in Globals  BY <1>3, <1>4, <1>5 DEF Globals
<1>7. cur' \in Contexts  BY GotoType DEF uthread_sleep, Places
<1> QED  BY <1>6, <1>7 DEF uthread_sleep

LEMMA LibraryCallType == UThreadsTypeOK /\ LibraryCall => UThreadsTypeOK'
<1> SUFFICES ASSUME UThreadsTypeOK, LibraryCall  PROVE UThreadsTypeOK'  OBVIOUS
<1>1. CASE uthread_spawn  BY <1>1, SpawnType
<1>2. CASE SpawnFails \/ SleepFails \/ \E t \in Tids : ResumeMissing(t) \/ QuantumsMissing(t)
  BY <1>2 DEF SpawnFails, SleepFails, ResumeMissing, QuantumsMissing, ReturnMasked, UThreadsTypeOK
<1>3. CASE TerminateMain  BY <1>3 DEF TerminateMain, UThreadsTypeOK, Globals
<1>4. CASE OutOfRange  BY <1>4, FaultType DEF OutOfRange, UThreadsTypeOK
<1>5. ASSUME NEW t \in Tids, uthread_get_quantums(t)  PROVE UThreadsTypeOK'
  BY <1>5 DEF uthread_get_quantums, UThreadsTypeOK, Contexts, Places
<1> QED
  BY <1>1, <1>2, <1>3, <1>4, <1>5, TerminateSelfType, TerminateOtherType, BlockType,
     ResumeType, SleepType
     DEF LibraryCall

LEMMA TypeStep == UThreadsTypeOK /\ [Next]_vars => UThreadsTypeOK'
<1>1. UThreadsTypeOK /\ UNCHANGED vars => UThreadsTypeOK'  BY DEF UThreadsTypeOK, vars
<1> QED
  BY <1>1, SchedulerType, SwitchType, ReadQuantumsType, LibraryCallType DEF Next, Stopped

(* Every variable keeps its type, whatever the programs do.                *)
THEOREM TypeCorrect == Spec => []UThreadsTypeOK
  BY InitType, TypeStep, PTL DEF Spec

-----------------------------------------------------------------------------
(* A context that was saved in env leads to its thread, and the one that   *)
(* executes to the running thread.                                         *)
CallerInv ==
    /\ UThreadsTypeOK
    /\ LeadsTo(cur, k.running)
    /\ \A t \in Tids : LeadsTo(env[t], t)

(* The functions that do not start a thread leave running alone.           *)
LEMMA RunningUnchanged ==
  ASSUME NEW s \in Globals
  PROVE  /\ wake_threads(s).running = s.running
         /\ count_quantum(s).running = s.running
         /\ pop_exiting(s).running = s.running
<1>1. \A f : Fault(s, f).running = s.running  BY DEF Fault, Globals
<1>2. wake_threads(s).running = s.running  BY <1>1 DEF wake_threads, Globals
<1>3. count_quantum(s).running = s.running  BY DEF count_quantum, Globals
<1>4. pop_exiting(s).running = s.running
  <2>1. ASSUME NEW a, NEW b, NEW t
        PROVE  [s EXCEPT !.st[t] = a, !.ready = b].running = s.running
    BY DEF Globals
  <2> QED  BY <1>1, <2>1 DEF pop_exiting
<1> QED  BY <1>2, <1>3, <1>4

LEMMA CallerStep == CallerInv /\ [Next]_vars => CallerInv'
<1> SUFFICES ASSUME CallerInv, Next \/ UNCHANGED vars, UThreadsTypeOK'
             PROVE  LeadsTo(cur', k'.running) /\ \A t \in Tids : LeadsTo(env'[t], t)
  <2>1. UThreadsTypeOK /\ [Next]_vars => UThreadsTypeOK'  BY TypeStep
  <2> QED  BY <2>1 DEF CallerInv, LeadsTo
<1> USE DEF CallerInv
<1>0. k \in Globals /\ k.running \in Tids /\ k' \in Globals /\ k'.running \in Tids
      /\ cur \in Contexts /\ env \in [Tids -> Contexts]
  BY DEF UThreadsTypeOK, Globals
<1>1. CASE scheduler
  <2>1. CASE Alive(k.running)
    <3>1. env' = [env EXCEPT ![k.running] = cur] /\ cur' = env'[k'.running]
      BY <1>1, <2>1 DEF scheduler, JumpTo
    <3>2. \A t \in Tids : LeadsTo(env'[t], t)  BY <1>0, <3>1
    <3> QED  BY <1>0, <3>1, <3>2
  <2>2. CASE ~ Alive(k.running)
    <3>1. k'.running = k.running  BY <1>0, <1>1, <2>2 DEF scheduler, Fault, Globals
    <3> QED  BY <1>1, <2>2, <3>1 DEF scheduler
  <2> QED  BY <2>1, <2>2
<1>2. CASE move_to_next_thread
  <2>1. CASE Save
    <3>1. cur.own = k.running /\ cur' = [cur EXCEPT !.at = "wake"]
          /\ env' = [env EXCEPT ![k.running] = [cur EXCEPT !.at = "user"]] /\ k' = k
      BY <2>1 DEF Save, Goto, LeadsTo
    <3>2. LeadsTo(cur', k'.running) /\ LeadsTo(env'[k.running], k.running)
      BY <1>0, <3>1 DEF LeadsTo, Contexts
    <3> QED  BY <1>0, <3>1, <3>2
  <2>2. ASSUME NEW from \in {"wake", "count", "pop"}, NEW after, NEW to \in {"count", "pop", "run"},
               Handle(from, after, to), after.running = k.running
        PROVE  LeadsTo(cur', k'.running) /\ \A t \in Tids : LeadsTo(env'[t], t)
    BY <1>0, <2>2 DEF Handle, Goto, LeadsTo, Contexts
  <2>3. CASE \/ Handle("wake", wake_threads(k), "count")
             \/ Handle("count", count_quantum(k), "pop")
             \/ Handle("pop", pop_exiting(k), "run")
    BY <1>0, <2>2, <2>3, RunningUnchanged
  <2>4. CASE Run
    BY <1>0, <2>4 DEF Run, LeadsTo, Contexts
  <2>5. CASE Jump
    <3>1. cur.local = k.running  BY <2>5 DEF Jump, LeadsTo
    <3>2. CASE Alive(cur.local)
      BY <1>0, <2>5, <3>1, <3>2 DEF Jump, JumpTo
    <3>3. CASE ~ Alive(cur.local)
      <4>1. k'.running = k.running  BY <1>0, <2>5, <3>3 DEF Jump, Fault, Globals
      <4> QED  BY <2>5, <3>3, <4>1 DEF Jump
    <3> QED  BY <3>2, <3>3
  <2> QED  BY <1>2, <2>1, <2>3, <2>4, <2>5 DEF move_to_next_thread
<1>3. CASE ReadQuantums
  <2>1. k'.running = k.running  BY <1>0, <1>3 DEF ReadQuantums, Fault, Globals
  <2> QED  BY <1>0, <1>3, <2>1 DEF ReadQuantums, Goto, LeadsTo, Contexts
<1>4. CASE LibraryCall
  <2>1. CASE uthread_spawn
    <3>1. PICK t \in Tids : env' = [env EXCEPT ![t] = Entry(t)]  BY <2>1 DEF uthread_spawn
    <3>2. cur' = cur  BY <2>1 DEF uthread_spawn
    <3>3. k'.running = k.running  BY <1>0, <2>1 DEF uthread_spawn, Globals
    <3>4. LeadsTo(Entry(t), t)  BY DEF LeadsTo, Entry, Context
    <3> QED  BY <1>0, <3>1, <3>2, <3>3, <3>4
  <2>2. CASE SpawnFails \/ SleepFails \/ \E t \in Tids : ResumeMissing(t) \/ QuantumsMissing(t)
    BY <2>2 DEF SpawnFails, SleepFails, ResumeMissing, QuantumsMissing, ReturnMasked
  <2>3. CASE TerminateMain \/ OutOfRange
    <3>1. k'.running = k.running  BY <1>0, <2>3 DEF TerminateMain, OutOfRange, Fault, Globals
    <3> QED  BY <2>3, <3>1 DEF TerminateMain, OutOfRange
  <2>4. ASSUME NEW t \in Tids, TerminateSelf(t)
        PROVE  LeadsTo(cur', k'.running) /\ \A u \in Tids : LeadsTo(env'[u], u)
    BY <1>0, <2>4 DEF TerminateSelf, LeadsTo, Contexts
  <2>5. ASSUME NEW t \in Tids,
               TerminateOther(t) \/ BlockOther(t) \/ uthread_resume(t)
        PROVE  LeadsTo(cur', k'.running) /\ \A u \in Tids : LeadsTo(env'[u], u)
    <3>1. k'.running = k.running
      BY <1>0, <2>5 DEF TerminateOther, BlockOther, ReturnMasked, uthread_resume, Globals
    <3>2. UNCHANGED <<env, cur>>
      BY <2>5 DEF TerminateOther, BlockOther, ReturnMasked, uthread_resume, Return
    <3> QED  BY <3>1, <3>2
  <2>6. ASSUME NEW t \in Tids, BlockSelf(t) \/ uthread_get_quantums(t)
        PROVE  LeadsTo(cur', k'.running) /\ \A u \in Tids : LeadsTo(env'[u], u)
    <3>1. k'.running = k.running
      BY <1>0, <2>6 DEF BlockSelf, uthread_get_quantums, Globals
    <3> QED  BY <1>0, <2>6, <3>1 DEF BlockSelf, uthread_get_quantums, InUser, Goto, LeadsTo, Contexts
  <2>7. ASSUME NEW n \in 1 .. MaxSleep, uthread_sleep(n)
        PROVE  LeadsTo(cur', k'.running) /\ \A u \in Tids : LeadsTo(env'[u], u)
    <3>1. k'.running = k.running  BY <1>0, <2>7 DEF uthread_sleep, Globals
    <3> QED  BY <1>0, <2>7, <3>1 DEF uthread_sleep, InUser, Goto, LeadsTo, Contexts
  <2> QED  BY <1>4, <2>1, <2>2, <2>3, <2>4, <2>5, <2>6, <2>7 DEF LibraryCall
<1>5. CASE Stopped \/ UNCHANGED vars  BY <1>5 DEF Stopped, vars
<1> QED  BY <1>1, <1>2, <1>3, <1>4, <1>5 DEF Next

LEMMA CallerInvHolds == Spec => []CallerInv
<1>1. Init => CallerInv
  <2>1. Init => LeadsTo(cur, k.running) /\ \A t \in Tids : LeadsTo(env[t], t)
    BY DEF Init, LeadsTo, Entry, Context, MainThread, Initialisers
  <2> QED  BY <2>1, InitType DEF CallerInv
<1> QED  BY <1>1, CallerStep, PTL DEF Spec

(* Whatever the programs call and whenever the timer expires: the code     *)
(* that executes is that of the thread uthread_get_tid names.              *)
THEOREM CallerCorrect == Spec => []TidIsCaller
<1>1. CallerInv => TidIsCaller
  BY DEF CallerInv, TidIsCaller, LeadsTo, InUser, uthread_get_tid
<1> QED  BY <1>1, CallerInvHolds, PTL

(* Whatever the programs call and whenever the timer expires, inside a     *)
(* switch as well: a saved context is on the stack of its thread, or about *)
(* to jump to that thread (uthreads.cpp:107, 118, 351).                    *)
THEOREM ContextsCorrect == Spec => []ContextsLeadBack
<1>1. CallerInv => ContextsLeadBack  BY DEF CallerInv, ContextsLeadBack
<1> QED  BY <1>1, CallerInvHolds, PTL

-----------------------------------------------------------------------------
(* The schedule, phase by phase of a switch, for programs that stay within *)
(* the library's rules.  s is a value of k.                                *)
Awake(s, t) == s.st[t] = "READY" /\ ~s.sleep[t]

(* From delay first on, the sleepers are in the wake-up map, each once.    *)
AlarmsFrom(s, first) ==
    /\ \A d \in first .. MaxSleep : IsInjective(s.wakes[d])
    /\ \A d, e \in first .. MaxSleep :
          d # e => ToSet(s.wakes[d]) \cap ToSet(s.wakes[e]) = {}
    /\ \A t \in Tids : s.sleep[t] <=> \E d \in first .. MaxSleep : t \in ToSet(s.wakes[d])

(* Until it leaves, the running thread heads the list; the others there    *)
(* are those that are ready and awake.  The main thread is always one.     *)
Headed(s) ==
    /\ s.status = "ok"
    /\ s.ready # <<>> /\ Head(s.ready) = s.running
    /\ IsInjective(s.ready)
    /\ ToSet(s.ready) = {s.running} \cup {t \in Tids : Awake(s, t)}
    /\ s.st[s.running] \in {"RUNNING", "BLOCKED"}
    /\ \A t \in Tids \ {s.running} : s.st[t] # "RUNNING"
    /\ \A t \in Tids : s.sleep[t] => s.st[t] \in {"READY", "RUNNING"}
    /\ s.st[0] \in {"READY", "RUNNING"} /\ ~s.sleep[0]

Scheduled(s) ==
    /\ Headed(s) /\ AlarmsFrom(s, 0) /\ s.uncredited = 0
    /\ s.st[s.running] = "RUNNING" /\ ~s.sleep[s.running]

Leaving(s) ==
    /\ Headed(s) /\ AlarmsFrom(s, 0) /\ s.uncredited = 0
    /\ s.running \notin ToSet(s.wakes[0])

Woken(s) == Headed(s) /\ AlarmsFrom(s, 1) /\ s.uncredited = 0
Counted(s) == Headed(s) /\ AlarmsFrom(s, 0) /\ s.uncredited = 1

Popped(s) ==
    /\ s.status = "ok" /\ AlarmsFrom(s, 0) /\ s.uncredited = 1
    /\ IsInjective(s.ready)
    /\ ToSet(s.ready) = {t \in Tids : Awake(s, t)}
    /\ \A t \in Tids : s.st[t] # "RUNNING"
    /\ \A t \in Tids : s.sleep[t] => s.st[t] = "READY"
    /\ s.st[0] = "READY" /\ ~s.sleep[0]

(* Waking: the threads that are due are added to the list, once.           *)
LEMMA WakeEffect ==
  ASSUME NEW s \in Globals, Leaving(s)
  PROVE  LET w == wake_threads(s)
             due == ToSet(s.wakes[0])
         IN  /\ w.st = s.st /\ w.running = s.running /\ w.wakes = s.wakes
             /\ w.status = s.status /\ w.uncredited = s.uncredited
             /\ w.ready = s.ready \o s.wakes[0]
             /\ w.sleep = [t \in Tids |-> t \notin due /\ s.sleep[t]]
             /\ due \subseteq Tids
             /\ \A t \in due : s.sleep[t] /\ t # s.running /\ s.st[t] = "READY"
<1> DEFINE due == ToSet(s.wakes[0])
           w == wake_threads(s)
<1>0. s.wakes[0] \in Seq(Tids)  BY UThreadsAssumption DEF Globals, Delays
<1>1. due \subseteq Tids  BY <1>0, ListElements
<1>2. \A t \in due : s.sleep[t] /\ t # s.running /\ s.st[t] = "READY"
  <2>1. 0 \in 0 .. MaxSleep  BY UThreadsAssumption
  <2>2. \A t \in due : s.sleep[t]  BY <1>1, <2>1 DEF Leaving, AlarmsFrom
  <2> QED  BY <1>1, <2>2 DEF Leaving, Headed
<1>3. push_back_due(s) = s.ready \o s.wakes[0]
  <2>1. \A i \in DOMAIN s.wakes[0] : s.wakes[0][i] \in due  BY DEF ToSet
  <2> QED  BY <1>2, <2>1, PushBackDue
<1>4. w = [s EXCEPT !.sleep = [t \in Tids |-> t \notin due /\ s.sleep[t]],
                    !.ready = s.ready \o s.wakes[0]]
  BY <1>2, <1>3 DEF wake_threads
<1> HIDE DEF w, due
<1>5. /\ w.st = s.st /\ w.running = s.running /\ w.wakes = s.wakes
      /\ w.status = s.status /\ w.uncredited = s.uncredited
      /\ w.ready = s.ready \o s.wakes[0]
      /\ w.sleep = [t \in Tids |-> t \notin due /\ s.sleep[t]]
  BY <1>4 DEF Globals
<1> QED  BY <1>1, <1>2, <1>5 DEF w, due

LEMMA WakeKeeps ==
  ASSUME NEW s \in Globals, Leaving(s)
  PROVE  Woken(wake_threads(s))
<1> DEFINE due == ToSet(s.wakes[0])
           w == wake_threads(s)
<1> USE DEF Leaving, Headed
<1>0. 0 \in 0 .. MaxSleep /\ s.wakes[0] \in Seq(Tids) /\ s.ready \in Seq(Tids) /\ s.running \in Tids
  BY UThreadsAssumption DEF Globals, Delays
<1>1. due \subseteq Tids  BY WakeEffect
<1>2. \A t \in due : s.sleep[t] /\ t # s.running /\ s.st[t] = "READY"  BY WakeEffect
<1>3. IsInjective(s.wakes[0]) /\ ToSet(s.ready) \cap due = {}
  <2>1. IsInjective(s.wakes[0])  BY <1>0 DEF AlarmsFrom
  <2> QED  BY <1>2, <2>1 DEF Awake
<1>4. /\ w.st = s.st /\ w.running = s.running /\ w.wakes = s.wakes
      /\ w.status = s.status /\ w.uncredited = s.uncredited
      /\ w.ready = s.ready \o s.wakes[0]
      /\ w.sleep = [t \in Tids |-> t \notin due /\ s.sleep[t]]
  BY WakeEffect
<1> HIDE DEF w
<1>5. /\ IsInjective(w.ready) /\ ToSet(w.ready) = ToSet(s.ready) \cup due
      /\ w.ready # <<>> /\ Head(w.ready) = s.running
  <2> DEFINE q == s.ready
             r == s.wakes[0]
  <2>1. q \in Seq(Tids) /\ r \in Seq(Tids) /\ IsInjective(q) /\ IsInjective(r)
        /\ ToSet(q) \cap ToSet(r) = {} /\ q # <<>>
    BY <1>0, <1>3
  <2>2. w.ready = q \o r  BY <1>4
  <2> HIDE DEF q, r
  <2>3. /\ IsInjective(q \o r) /\ ToSet(q \o r) = ToSet(q) \cup ToSet(r)
        /\ q \o r # <<>> /\ Head(q \o r) = Head(q)
    BY <2>1, InjectiveConcat
  <2> QED  BY <2>2, <2>3 DEF q, r
<1> HIDE DEF due
<1>6. ToSet(w.ready) = {w.running} \cup {t \in Tids : Awake(w, t)}
  <2>1. \A t \in Tids : Awake(w, t) <=> Awake(s, t) \/ t \in due
    BY <1>2, <1>4 DEF Awake
  <2>2. {t \in Tids : Awake(w, t)} = {t \in Tids : Awake(s, t)} \cup due
    BY <1>1, <2>1
  <2> QED  BY <1>1, <1>4, <1>5, <2>2
<1>7. AlarmsFrom(w, 1)
  <2>1. ASSUME NEW t \in Tids
        PROVE  w.sleep[t] <=> \E d \in 1 .. MaxSleep : t \in ToSet(w.wakes[d])
    <3>1. s.sleep[t] <=> \E d \in 0 .. MaxSleep : t \in ToSet(s.wakes[d])
      BY DEF AlarmsFrom
    <3>2. \A d \in 0 .. MaxSleep : d = 0 \/ d \in 1 .. MaxSleep
      BY UThreadsAssumption
    <3>3. \A d \in 1 .. MaxSleep : d \in 0 .. MaxSleep /\ ToSet(s.wakes[d]) \cap due = {}
      <4>1. \A d \in 1 .. MaxSleep : d \in 0 .. MaxSleep /\ d # 0  BY UThreadsAssumption
      <4> QED  BY <1>0, <4>1 DEF AlarmsFrom, due
    <3> QED  BY <1>4, <3>1, <3>2, <3>3 DEF due
  <2>2. \A d \in 1 .. MaxSleep : d \in 0 .. MaxSleep  BY UThreadsAssumption
  <2> QED  BY <1>4, <2>1, <2>2 DEF AlarmsFrom
<1>8. Headed(w)
  <2>1. \A t \in Tids : w.sleep[t] => s.sleep[t]  BY <1>4
  <2>2. 0 \in Tids  BY UThreadsAssumption DEF Tids
  <2> QED  BY <1>4, <1>5, <1>6, <2>1, <2>2
<1> QED  BY <1>4, <1>7, <1>8 DEF Woken, w

(* Counting: every wake-up comes one quantum nearer.                       *)
LEMMA CountKeeps ==
  ASSUME NEW s \in Globals, Woken(s)
  PROVE  Counted(count_quantum(s))
<1> DEFINE c == count_quantum(s)
<1>0. s.wakes \in [Delays -> Seq(Tids)] /\ MaxSleep \in Nat
  BY UThreadsAssumption DEF Globals
<1>1. /\ c.st = s.st /\ c.running = s.running /\ c.ready = s.ready
      /\ c.status = s.status /\ c.sleep = s.sleep
      /\ c.wakes = [d \in Delays |-> IF d < MaxSleep THEN s.wakes[d + 1] ELSE <<>>]
  BY DEF count_quantum, Globals
<1>2. c.uncredited = 1  BY DEF count_quantum, Globals, Woken, LedgerSize
<1> HIDE DEF c
<1>3. \A d \in 0 .. MaxSleep :
         IF d < MaxSleep THEN d + 1 \in 1 .. MaxSleep /\ c.wakes[d] = s.wakes[d + 1]
                         ELSE c.wakes[d] = <<>>
  BY <1>0, <1>1 DEF Delays
<1>4. IsInjective(<<>>) /\ ToSet(<<>>) = {}  BY DEF IsInjective, ToSet
<1>5. AlarmsFrom(c, 0)
  <2>1. \A d \in 0 .. MaxSleep : IsInjective(c.wakes[d])
    BY <1>3, <1>4 DEF Woken, AlarmsFrom
  <2>2. ASSUME NEW d \in 0 .. MaxSleep, NEW e \in 0 .. MaxSleep, d # e
        PROVE  ToSet(c.wakes[d]) \cap ToSet(c.wakes[e]) = {}
    <3>1. CASE d < MaxSleep /\ e < MaxSleep
      <4>1. d + 1 # e + 1  BY <1>0, <2>2
      <4> QED  BY <1>3, <3>1, <4>1 DEF Woken, AlarmsFrom
    <3>2. CASE ~ (d < MaxSleep /\ e < MaxSleep)  BY <1>3, <1>4, <3>2
    <3> QED  BY <3>1, <3>2
  <2>3. ASSUME NEW t \in Tids
        PROVE  c.sleep[t] <=> \E d \in 0 .. MaxSleep : t \in ToSet(c.wakes[d])
    <3>1. c.sleep[t] <=> \E d \in 1 .. MaxSleep : t \in ToSet(s.wakes[d])
      BY <1>1 DEF Woken, AlarmsFrom
    <3>2. ASSUME NEW d \in 1 .. MaxSleep, t \in ToSet(s.wakes[d])
          PROVE  \E e \in 0 .. MaxSleep : t \in ToSet(c.wakes[e])
      <4>1. d - 1 \in 0 .. MaxSleep /\ d - 1 < MaxSleep /\ (d - 1) + 1 = d  BY <1>0
      <4> QED  BY <1>3, <3>2, <4>1
    <3>3. ASSUME NEW d \in 0 .. MaxSleep, t \in ToSet(c.wakes[d])
          PROVE  \E e \in 1 .. MaxSleep : t \in ToSet(s.wakes[e])
      BY <1>3, <1>4, <3>3
    <3> QED  BY <3>1, <3>2, <3>3
  <2> QED  BY <2>1, <2>2, <2>3 DEF AlarmsFrom
<1>6. Headed(c)  BY <1>1 DEF Woken, Headed, Awake
<1> QED  BY <1>2, <1>5, <1>6 DEF Counted, c

(* Popping: the thread that leaves goes to the back if it can run again.   *)
StateAfter(s, t) == IF s.st[t] = "RUNNING" THEN "READY" ELSE s.st[t]
Again(s, t) == StateAfter(s, t) = "READY" /\ ~s.sleep[t]

LEMMA PopEffect ==
  ASSUME NEW s \in Globals, Counted(s)
  PROVE  LET p == pop_exiting(s)
             t == s.running
         IN  /\ p.st = [s.st EXCEPT ![t] = StateAfter(s, t)]
             /\ p.ready = IF Again(s, t) THEN Append(Tail(s.ready), t) ELSE Tail(s.ready)
             /\ p.running = t /\ p.sleep = s.sleep /\ p.wakes = s.wakes
             /\ p.status = s.status /\ p.uncredited = s.uncredited
<1> DEFINE t == s.running
           state == StateAfter(s, t)
           list == IF Again(s, t) THEN Append(Tail(s.ready), t) ELSE Tail(s.ready)
           p == pop_exiting(s)
<1>1. p = [s EXCEPT !.st = [s.st EXCEPT ![t] = state], !.ready = list]
  BY DEF pop_exiting, StateAfter, Again, Counted, Headed
<1> HIDE DEF p, list, state, t
<1>2. /\ p.st = [s.st EXCEPT ![t] = state] /\ p.ready = list
      /\ p.running = s.running /\ p.sleep = s.sleep /\ p.wakes = s.wakes
      /\ p.status = s.status /\ p.uncredited = s.uncredited
  BY <1>1 DEF Globals
<1> QED  BY <1>2 DEF p, list, state, t

LEMMA PopKeeps ==
  ASSUME NEW s \in Globals, Counted(s)
  PROVE  Popped(pop_exiting(s))
<1> DEFINE t == s.running
           q == Tail(s.ready)
           state == StateAfter(s, t)
           again == Again(s, t)
           list == IF again THEN Append(q, t) ELSE q
           p == pop_exiting(s)
<1> USE DEF Counted, Headed
<1>0. /\ t \in Tids /\ 0 \in Tids /\ s.ready \in Seq(Tids) /\ q \in Seq(Tids)
      /\ s.st \in [Tids -> States] /\ s.sleep \in [Tids -> BOOLEAN]
  BY UThreadsAssumption, HeadTailProperties DEF Globals, States, Tids
<1>1. IsInjective(q) /\ ToSet(q) = ToSet(s.ready) \ {t}  BY InjectiveTail, <1>0
<1>2. /\ IsInjective(list)
      /\ ToSet(list) = IF again THEN ToSet(q) \cup {t} ELSE ToSet(q)
  <2>1. t \notin ToSet(q)  BY <1>1
  <2> HIDE DEF q
  <2>2. IsInjective(Append(q, t)) /\ ToSet(Append(q, t)) = ToSet(q) \cup {t}
    BY <1>0, <1>1, <2>1, InjectiveAppend
  <2> HIDE DEF again
  <2> QED  BY <1>1, <2>2
<1>3. /\ p.st = [s.st EXCEPT ![t] = state] /\ p.ready = list
      /\ p.running = s.running /\ p.sleep = s.sleep /\ p.wakes = s.wakes
      /\ p.status = s.status /\ p.uncredited = s.uncredited
  BY PopEffect
<1> HIDE DEF p, list, q
<1>4. \A u \in Tids : p.st[u] = IF u = t THEN state ELSE s.st[u]  BY <1>0, <1>3
<1>5. state \in {"READY", "BLOCKED"} /\ (s.sleep[t] => state = "READY")
  BY <1>0 DEF StateAfter
<1>6. ToSet(p.ready) = {u \in Tids : Awake(p, u)}
  <2>1. \A u \in Tids : Awake(p, u) <=> IF u = t THEN again ELSE Awake(s, u)
    BY <1>3, <1>4 DEF Awake, Again
  <2>2. ToSet(q) = {u \in Tids : Awake(s, u)} \ {t}  BY <1>1
  <2> HIDE DEF again
  <2> QED  BY <1>0, <1>2, <1>3, <2>1, <2>2
<1>7. AlarmsFrom(p, 0)  BY <1>3 DEF AlarmsFrom
<1>8. (\A u \in Tids : p.st[u] # "RUNNING") /\ (\A u \in Tids : p.sleep[u] => p.st[u] = "READY")
  BY <1>0, <1>3, <1>4, <1>5
<1>9. p.st[0] = "READY" /\ ~p.sleep[0]  BY <1>0, <1>3, <1>4 DEF StateAfter
<1> QED  BY <1>2, <1>3, <1>6, <1>7, <1>8, <1>9 DEF Popped, p

(* Running: the thread whose turn it is heads the list.                    *)
LEMMA RunEffect ==
  ASSUME NEW s \in Globals, Popped(s)
  PROVE  LET r == run_new_thread(s)
             t == Head(s.ready)
         IN  /\ r.st = [s.st EXCEPT ![t] = "RUNNING"] /\ r.running = t /\ r.uncredited = 0
             /\ r.ready = s.ready /\ r.sleep = s.sleep /\ r.wakes = s.wakes
             /\ r.status = s.status
             /\ s.ready # <<>> /\ t \in ToSet(s.ready) /\ t \in Tids /\ Awake(s, t)
<1> DEFINE t == Head(s.ready)
           r == run_new_thread(s)
<1> USE DEF Popped
<1>0. 0 \in Tids /\ s.ready \in Seq(Tids)  BY UThreadsAssumption DEF Globals, Tids
<1>1. s.ready # <<>>
  <2>1. 0 \in ToSet(s.ready)  BY <1>0 DEF Awake
  <2>2. ToSet(<<>>) = {}  BY DEF ToSet
  <2> QED  BY <2>1, <2>2
<1>2. t \in ToSet(s.ready) /\ t \in Tids /\ Awake(s, t)
  BY <1>0, <1>1, InjectiveTail
<1>3. r = [s EXCEPT !.st = [s.st EXCEPT ![t] = "RUNNING"], !.running = t, !.uncredited = 0]
  <2>1. (s.uncredited - 1) % LedgerSize = 0  BY DEF LedgerSize
  <2> QED  BY <1>1, <1>2, <2>1 DEF run_new_thread, Awake
<1> HIDE DEF r, t
<1>4. /\ r.st = [s.st EXCEPT ![t] = "RUNNING"] /\ r.running = t /\ r.uncredited = 0
      /\ r.ready = s.ready /\ r.sleep = s.sleep /\ r.wakes = s.wakes /\ r.status = s.status
  BY <1>3 DEF Globals
<1> QED  BY <1>1, <1>2, <1>4 DEF r, t

LEMMA RunKeeps ==
  ASSUME NEW s \in Globals, Popped(s)
  PROVE  Scheduled(run_new_thread(s))
<1> DEFINE t == Head(s.ready)
           r == run_new_thread(s)
<1> USE DEF Popped
<1>0. 0 \in Tids /\ s.st \in [Tids -> States]  BY UThreadsAssumption DEF Globals, States, Tids
<1>1. s.ready # <<>>  BY RunEffect
<1>2. t \in ToSet(s.ready) /\ t \in Tids /\ Awake(s, t)  BY RunEffect
<1>3. /\ r.st = [s.st EXCEPT ![t] = "RUNNING"] /\ r.running = t /\ r.uncredited = 0
      /\ r.ready = s.ready /\ r.sleep = s.sleep /\ r.wakes = s.wakes /\ r.status = s.status
  BY RunEffect
<1> HIDE DEF r
<1>4. \A u \in Tids : r.st[u] = IF u = t THEN "RUNNING" ELSE s.st[u]  BY <1>0, <1>3
<1>5. ToSet(r.ready) = {r.running} \cup {u \in Tids : Awake(r, u)}
  <2>1. \A u \in Tids : Awake(s, u) <=> u = t \/ Awake(r, u)  BY <1>2, <1>3, <1>4 DEF Awake
  <2> QED  BY <1>2, <1>3, <2>1
<1>6. AlarmsFrom(r, 0)  BY <1>3 DEF AlarmsFrom
<1>7. Headed(r)
  <2>1. r.st[r.running] = "RUNNING"  BY <1>2, <1>3, <1>4
  <2>2. \A u \in Tids : r.sleep[u] => r.st[u] \in {"READY", "RUNNING"}  BY <1>3, <1>4
  <2>3. r.st[0] \in {"READY", "RUNNING"} /\ ~r.sleep[0]  BY <1>0, <1>3, <1>4
  <2>4. \A u \in Tids \ {r.running} : r.st[u] # "RUNNING"  BY <1>3, <1>4
  <2> QED  BY <1>1, <1>3, <1>5, <2>1, <2>2, <2>3, <2>4 DEF Headed
<1> QED  BY <1>2, <1>3, <1>4, <1>6, <1>7 DEF Scheduled, Awake, r

-----------------------------------------------------------------------------
(* The programs that the manual allows: the main thread does not sleep,    *)
(* sleepers are not terminated, no thread ends itself as a sleeper is due, *)
(* and the timer does not expire inside a voluntary switch.  Each of the   *)
(* four breaks the schedule (runs KillSleeper, LostSleeper, LostContext).  *)
Rules == Allowed \cap {"mainSleep", "killSleeper", "exitAmongSleepers", "switchSignal"} = {}

Phase ==
    /\ cur.at \in {"user", "quantums", "jump"} => Scheduled(k)
    /\ cur.at \in {"save", "wake"} => Leaving(k)
    /\ cur.at = "count" => Woken(k)
    /\ cur.at = "pop" => Counted(k)
    /\ cur.at = "run" => Popped(k) /\ Alive(k.running)

(* Contexts are saved where a thread goes on with its own code.  Only the  *)
(* race of get_quantums leaves one to look at a thread that has ended.     *)
Saved ==
    /\ \A t \in Tids : env[t].at \in {"user", "quantums"}
    /\ "quantumsRace" \notin Allowed =>
          /\ \A t \in Tids : env[t].at = "user"
          /\ cur.at = "quantums" => Alive(cur.local)

OnlyFaults ==
    k.status \in {"ok", "exit"}
                 \cup {f \in {"outOfBounds"} : "outOfRange" \in Allowed}
                 \cup {f \in {"nullSlot"} : "quantumsRace" \in Allowed}

ScheduleInv ==
    /\ CallerInv
    /\ OnlyFaults
    /\ Ok => Phase /\ Saved /\ ~dirty

(* What a step has to be shown to keep, CallerInv apart.                   *)
ScheduleKept == (k'.status = "ok" => (Phase /\ Saved /\ ~dirty)') /\ OnlyFaults'

LEMMA SchedulerKeeps == ASSUME Rules, ScheduleInv, scheduler  PROVE ScheduleKept
<1> USE DEF ScheduleInv
<1>0. k \in Globals /\ k.running \in Tids /\ cur \in Contexts /\ env \in [Tids -> Contexts]
  BY DEF CallerInv, UThreadsTypeOK, Globals
<1>1. /\ Scheduled(k) /\ Saved /\ ~dirty
      /\ cur.at = "user" \/ (cur.at = "quantums" /\ "quantumsRace" \in Allowed)
  <2>1. Ok /\ Interruptible  BY DEF scheduler
  <2>2. "switchSignal" \notin Allowed  BY DEF Rules
  <2>3. cur.at = "user" \/ (cur.at = "quantums" /\ "quantumsRace" \in Allowed)
    BY <2>1, <2>2 DEF Interruptible
  <2> QED  BY <2>1, <2>3 DEF Phase
<1>2. Leaving(k)
  <2>1. 0 \in 0 .. MaxSleep  BY UThreadsAssumption
  <2> QED  BY <1>0, <1>1, <2>1 DEF Scheduled, Leaving, AlarmsFrom
<1>3. Alive(k.running)  BY <1>1 DEF Scheduled, Alive
<1>4. Scheduled(k')
  <2>1. k' = run_new_thread(pop_exiting(count_quantum(wake_threads(k))))
    BY <1>3 DEF scheduler, handle_new_quantum
  <2>2. wake_threads(k) \in Globals /\ Woken(wake_threads(k))  BY <1>0, <1>2, WakeType, WakeKeeps
  <2> DEFINE w == wake_threads(k)
             c == count_quantum(w)
             p == pop_exiting(c)
  <2>3. c \in Globals /\ Counted(c)
    <3> HIDE DEF w
    <3> QED  BY <2>2, CountType, CountKeeps DEF w
  <2>4. p \in Globals /\ Popped(p)
    <3> HIDE DEF c
    <3> QED  BY <2>3, PopExitingType, PopKeeps
  <2> HIDE DEF p
  <2> QED  BY <2>1, <2>4, RunKeeps DEF p
<1>5. /\ env' = [env EXCEPT ![k.running] = cur] /\ cur' = env'[k'.running]
      /\ dirty' = dirty /\ k' \in Globals /\ k'.running \in Tids
  <2>1. k' \in Globals
    BY <1>0, <1>3, WakeType, CountType, PopExitingType, RunType DEF scheduler, handle_new_quantum
  <2> QED  BY <1>3, <2>1 DEF scheduler, JumpTo, Globals
<1>6. /\ \A t \in Tids : env'[t].at \in {"user", "quantums"}
      /\ "quantumsRace" \notin Allowed => \A t \in Tids : env'[t].at = "user"
  BY <1>0, <1>1, <1>5 DEF Saved
<1>7. k'.status = "ok"  BY <1>4 DEF Scheduled, Headed
<1> QED  BY <1>1, <1>4, <1>5, <1>6, <1>7 DEF ScheduleKept, Phase, Saved, OnlyFaults

LEMMA SwitchKeeps == ASSUME Rules, ScheduleInv, move_to_next_thread  PROVE ScheduleKept
<1> USE DEF ScheduleInv
<1>0. k \in Globals /\ k.running \in Tids /\ cur \in Contexts /\ env \in [Tids -> Contexts]
  BY DEF CallerInv, UThreadsTypeOK, Globals
<1>1. Ok /\ Phase /\ Saved /\ ~dirty /\ k.status = "ok"
  BY DEF move_to_next_thread, Save, Handle, Run, Jump, Ok
<1>2. CASE Save
  <2>1. /\ env' = [env EXCEPT ![k.running] = [cur EXCEPT !.at = "user"]]
        /\ cur'.at = "wake" /\ k' = k /\ dirty' = dirty /\ cur.at = "save"
    BY <1>0, <1>2 DEF Save, Goto, Contexts
  <2>2. Saved'  BY <1>0, <1>1, <2>1 DEF Saved, Contexts
  <2> QED  BY <1>1, <2>1, <2>2 DEF ScheduleKept, Phase, OnlyFaults
<1>3. ASSUME NEW from, NEW after, NEW to \in {"count", "pop", "run"},
             Handle(from, after, to)
      PROVE  k' = after /\ cur'.at = to /\ Saved' /\ dirty' = dirty /\ cur.at = from
  <2>1. k' = after /\ cur' = [cur EXCEPT !.at = to] /\ UNCHANGED <<env, dirty>> /\ cur.at = from
    BY <1>3 DEF Handle, Goto
  <2>2. cur'.at = to  BY <1>0, <2>1 DEF Contexts
  <2> QED  BY <1>1, <2>1, <2>2 DEF Saved
<1>4. CASE Handle("wake", wake_threads(k), "count")
  <2>1. Leaving(k)  BY <1>1, <1>4 DEF Handle, Phase
  <2>2. Woken(k')  BY <1>0, <1>3, <1>4, <2>1, WakeKeeps
  <2>3. k'.status = "ok"  BY <2>2 DEF Woken, Headed
  <2>4. cur'.at = "count" /\ Saved' /\ dirty' = dirty  BY <1>3, <1>4
  <2> QED  BY <1>1, <2>2, <2>3, <2>4 DEF ScheduleKept, Phase, OnlyFaults
<1>5. CASE Handle("count", count_quantum(k), "pop")
  <2>1. Woken(k)  BY <1>1, <1>5 DEF Handle, Phase
  <2>2. Counted(k')  BY <1>0, <1>3, <1>5, <2>1, CountKeeps
  <2>3. k'.status = "ok"  BY <2>2 DEF Counted, Headed
  <2>4. cur'.at = "pop" /\ Saved' /\ dirty' = dirty  BY <1>3, <1>5
  <2> QED  BY <1>1, <2>2, <2>3, <2>4 DEF ScheduleKept, Phase, OnlyFaults
<1>6. CASE Handle("pop", pop_exiting(k), "run")
  <2>1. Counted(k)  BY <1>1, <1>6 DEF Handle, Phase
  <2>2. Popped(k')  BY <1>0, <1>3, <1>6, <2>1, PopKeeps
  <2>3. k'.status = "ok"  BY <2>2 DEF Popped
  <2>4. cur'.at = "run" /\ Saved' /\ dirty' = dirty  BY <1>3, <1>6
  <2>5. Alive(k.running)'
    <3>1. /\ k'.st = [k.st EXCEPT ![k.running] = StateAfter(k, k.running)]
          /\ k'.running = k.running
      BY <1>0, <1>3, <1>6, <2>1, PopEffect
    <3>2. k.st[k.running] \in {"RUNNING", "BLOCKED"}  BY <2>1 DEF Counted, Headed
    <3>3. k'.st[k.running] # "free"  BY <1>0, <3>1, <3>2 DEF StateAfter, Globals
    <3> QED  BY <3>1, <3>3 DEF Alive
  <2> QED  BY <1>1, <2>2, <2>3, <2>4, <2>5 DEF ScheduleKept, Phase, OnlyFaults
<1>7. CASE Run
  <2>1. Popped(k)  BY <1>1, <1>7 DEF Run, Phase
  <2>2. Scheduled(k')  BY <1>0, <1>7, <2>1, RunKeeps DEF Run
  <2>3. k'.status = "ok"  BY <2>2 DEF Scheduled, Headed
  <2>4. cur'.at = "jump" /\ UNCHANGED <<env, dirty>>  BY <1>0, <1>7 DEF Run, Contexts
  <2>5. Saved'  BY <1>1, <2>4 DEF Saved
  <2> QED  BY <1>1, <2>2, <2>3, <2>4, <2>5 DEF ScheduleKept, Phase, OnlyFaults
<1>8. CASE Jump
  <2>1. Scheduled(k) /\ cur.local = k.running
    BY <1>1, <1>8 DEF Jump, Phase, CallerInv, LeadsTo
  <2>2. Alive(cur.local)  BY <2>1 DEF Scheduled, Alive
  <2>3. UNCHANGED <<k, env, dirty>> /\ cur' = env[k.running]
    BY <1>8, <2>1, <2>2 DEF Jump, JumpTo
  <2>4. cur'.at \in {"user", "quantums"} /\ Saved'  BY <1>0, <1>1, <2>3 DEF Saved
  <2> QED  BY <1>1, <2>1, <2>3, <2>4 DEF ScheduleKept, Phase, OnlyFaults
<1> QED  BY <1>2, <1>4, <1>5, <1>6, <1>7, <1>8 DEF move_to_next_thread

LEMMA ReadQuantumsKeeps == ASSUME Rules, ScheduleInv, ReadQuantums  PROVE ScheduleKept
<1> USE DEF ScheduleInv
<1>0. k \in Globals /\ cur \in Contexts  BY DEF CallerInv, UThreadsTypeOK
<1>1. Phase /\ Saved /\ ~dirty /\ k.status = "ok" /\ cur.at = "quantums"  BY DEF ReadQuantums, Ok
<1>2. cur'.at = "user" /\ UNCHANGED <<env, dirty>>
      /\ k' = IF Alive(cur.local) THEN k ELSE Fault(k, "nullSlot")
  BY <1>0 DEF ReadQuantums, Goto, Contexts
<1>3. Saved'  BY <1>1, <1>2 DEF Saved
<1>4. CASE Alive(cur.local)  BY <1>1, <1>2, <1>3, <1>4 DEF ScheduleKept, Phase, OnlyFaults
<1>5. CASE ~ Alive(cur.local)
  <2>1. "quantumsRace" \in Allowed  BY <1>1, <1>5 DEF Saved
  <2>2. k'.status = "nullSlot"  BY <1>0, <1>2, <1>5 DEF Fault, Globals
  <2> QED  BY <2>1, <2>2 DEF ScheduleKept, OnlyFaults
<1> QED  BY <1>4, <1>5

-----------------------------------------------------------------------------
(* The library calls.  r is what a call makes of s.                        *)
SameTurn(r, s) ==
    /\ r.running = s.running /\ r.status = s.status /\ r.uncredited = s.uncredited

(* A new thread, or one that is resumed, goes to the back of the list.     *)
LEMMA JoinKeeps ==
  ASSUME NEW s \in Globals, Scheduled(s), NEW t \in Tids, s.st[t] \in {"free", "BLOCKED"},
         NEW r, SameTurn(r, s), r.st = [s.st EXCEPT ![t] = "READY"], r.sleep = s.sleep,
         r.wakes = s.wakes, r.ready = Append(s.ready, t)
  PROVE  Scheduled(r)
<1> USE DEF Scheduled, Headed, SameTurn
<1>0. s.ready \in Seq(Tids) /\ s.st \in [Tids -> States] /\ s.running \in Tids
  BY DEF Globals, States
<1>1. \A u \in Tids : r.st[u] = IF u = t THEN "READY" ELSE s.st[u]  BY <1>0
<1>2. t # s.running /\ ~ Awake(s, t) /\ ~s.sleep[t] /\ Awake(r, t)
  <2>1. ~s.sleep[t] /\ t # s.running  OBVIOUS
  <2> QED  BY <1>1, <2>1 DEF Awake
<1>3. /\ IsInjective(r.ready) /\ ToSet(r.ready) = ToSet(s.ready) \cup {t}
      /\ r.ready # <<>> /\ Head(r.ready) = Head(s.ready)
  BY <1>0, <1>2, InjectiveAppend
<1>4. ToSet(r.ready) = {r.running} \cup {u \in Tids : Awake(r, u)}
  <2>1. \A u \in Tids : Awake(r, u) <=> u = t \/ Awake(s, u)  BY <1>1, <1>2 DEF Awake
  <2> QED  BY <1>3, <2>1
<1>5. AlarmsFrom(r, 0)  BY DEF AlarmsFrom
<1>6. /\ r.st[r.running] = "RUNNING" /\ ~r.sleep[r.running]
      /\ \A u \in Tids \ {r.running} : r.st[u] # "RUNNING"
      /\ \A u \in Tids : r.sleep[u] => r.st[u] \in {"READY", "RUNNING"}
  BY <1>0, <1>1, <1>2
<1>7. r.st[0] \in {"READY", "RUNNING"} /\ ~r.sleep[0]
  BY <1>1, UThreadsAssumption DEF Tids
<1> QED  BY <1>3, <1>4, <1>5, <1>6, <1>7

(* A thread that is not asleep and does not run is taken out.              *)
LEMMA RemoveKeeps ==
  ASSUME NEW s \in Globals, Scheduled(s), NEW t \in Tids \ {0}, t # s.running, ~s.sleep[t],
         NEW r, SameTurn(r, s), r.st = [s.st EXCEPT ![t] = "free"], r.sleep = s.sleep,
         r.wakes = s.wakes,
         r.ready = IF s.st[t] = "READY" THEN RemoveFirst(s.ready, t) ELSE s.ready
  PROVE  Scheduled(r)
<1> USE DEF Scheduled, Headed, SameTurn
<1>0. s.ready \in Seq(Tids) /\ s.st \in [Tids -> States] /\ s.running \in Tids
  BY DEF Globals, States
<1>1. \A u \in Tids : r.st[u] = IF u = t THEN "free" ELSE s.st[u]  BY <1>0
<1>2. ~ Awake(r, t) /\ \A u \in Tids \ {t} : Awake(r, u) <=> Awake(s, u)
  BY <1>1 DEF Awake
<1>3. /\ IsInjective(r.ready) /\ ToSet(r.ready) = ToSet(s.ready) \ {t}
      /\ r.ready # <<>> /\ Head(r.ready) = Head(s.ready)
  <2>1. CASE s.st[t] = "READY"  BY <1>0, <2>1, InjectiveRemove
  <2>2. CASE s.st[t] # "READY"
    <3>1. t \notin ToSet(s.ready)  BY <2>2 DEF Awake
    <3> QED  BY <2>2, <3>1
  <2> QED  BY <2>1, <2>2
<1>4. ToSet(r.ready) = {r.running} \cup {u \in Tids : Awake(r, u)}  BY <1>2, <1>3
<1>5. AlarmsFrom(r, 0)  BY DEF AlarmsFrom
<1>6. /\ r.st[r.running] = "RUNNING" /\ ~r.sleep[r.running]
      /\ \A u \in Tids \ {r.running} : r.st[u] # "RUNNING"
      /\ \A u \in Tids : r.sleep[u] => r.st[u] \in {"READY", "RUNNING"}
  BY <1>0, <1>1
<1>7. r.st[0] \in {"READY", "RUNNING"} /\ ~r.sleep[0]
  BY <1>1, UThreadsAssumption DEF Tids
<1> QED  BY <1>3, <1>4, <1>5, <1>6, <1>7

(* The running thread is blocked.                                          *)
LEMMA BlockKeeps ==
  ASSUME NEW s \in Globals, Scheduled(s), s.running # 0,
         NEW r, SameTurn(r, s), r.st = [s.st EXCEPT ![s.running] = "BLOCKED"],
         r.sleep = s.sleep, r.wakes = s.wakes, r.ready = s.ready
  PROVE  Leaving(r)
<1> USE DEF Scheduled, Headed, SameTurn
<1>0. s.st \in [Tids -> States] /\ s.running \in Tids /\ 0 \in 0 .. MaxSleep
  BY UThreadsAssumption DEF Globals, States
<1>1. \A u \in Tids : r.st[u] = IF u = s.running THEN "BLOCKED" ELSE s.st[u]  BY <1>0
<1>2. ToSet(r.ready) = {r.running} \cup {u \in Tids : Awake(r, u)}
  <2>1. \A u \in Tids \ {s.running} : Awake(r, u) <=> Awake(s, u)  BY <1>1 DEF Awake
  <2>2. ~ Awake(r, s.running) /\ ~ Awake(s, s.running)  BY <1>0, <1>1 DEF Awake
  <2> QED  BY <2>1, <2>2
<1>3. AlarmsFrom(r, 0)  BY DEF AlarmsFrom
<1>4. r.running \notin ToSet(r.wakes[0])  BY <1>0 DEF AlarmsFrom
<1>5. /\ r.st[r.running] = "BLOCKED"
      /\ \A u \in Tids \ {r.running} : r.st[u] # "RUNNING"
      /\ \A u \in Tids : r.sleep[u] => r.st[u] \in {"READY", "RUNNING"}
  BY <1>0, <1>1
<1>6. r.st[0] \in {"READY", "RUNNING"} /\ ~r.sleep[0]
  BY <1>1, UThreadsAssumption DEF Tids
<1> QED  BY <1>2, <1>3, <1>4, <1>5, <1>6 DEF Leaving

(* The running thread asks to sleep.                                       *)
LEMMA SleepKeeps ==
  ASSUME NEW s \in Globals, Scheduled(s), s.running # 0, NEW n \in 1 .. MaxSleep,
         NEW r, SameTurn(r, s), r.st = s.st, r.ready = s.ready,
         r.sleep = [s.sleep EXCEPT ![s.running] = TRUE],
         r.wakes = [s.wakes EXCEPT ![n] = Append(@, s.running)]
  PROVE  Leaving(r)
<1> USE DEF Scheduled, Headed, SameTurn
<1> DEFINE t == s.running
<1>0. /\ t \in Tids /\ n \in 0 .. MaxSleep /\ n # 0 /\ 0 \in 0 .. MaxSleep
      /\ s.sleep \in [Tids -> BOOLEAN] /\ s.wakes \in [0 .. MaxSleep -> Seq(Tids)]
  BY UThreadsAssumption DEF Globals, Delays
<1>1. \A u \in Tids : r.sleep[u] <=> u = t \/ s.sleep[u]  BY <1>0
<1>2. /\ r.wakes[n] = Append(s.wakes[n], t)
      /\ \A d \in 0 .. MaxSleep : d # n => r.wakes[d] = s.wakes[d]
  BY <1>0
<1>3. \A d \in 0 .. MaxSleep : t \notin ToSet(s.wakes[d])  BY <1>0 DEF AlarmsFrom
<1>4. IsInjective(r.wakes[n]) /\ ToSet(r.wakes[n]) = ToSet(s.wakes[n]) \cup {t}
  <2>1. s.wakes[n] \in Seq(Tids) /\ IsInjective(s.wakes[n]) /\ t \notin ToSet(s.wakes[n])
    BY <1>0, <1>3 DEF AlarmsFrom
  <2> QED  BY <1>0, <1>2, <2>1, InjectiveAppend
<1> HIDE DEF t
<1>5. AlarmsFrom(r, 0)
  <2>1. \A d \in 0 .. MaxSleep : IsInjective(r.wakes[d])  BY <1>2, <1>4 DEF AlarmsFrom
  <2>2. ASSUME NEW d \in 0 .. MaxSleep, NEW e \in 0 .. MaxSleep, d # e
        PROVE  ToSet(r.wakes[d]) \cap ToSet(r.wakes[e]) = {}
    <3>1. ToSet(s.wakes[d]) \cap ToSet(s.wakes[e]) = {}  BY <2>2 DEF AlarmsFrom
    <3>2. CASE d = n  BY <1>2, <1>3, <1>4, <2>2, <3>1, <3>2
    <3>3. CASE e = n  BY <1>2, <1>3, <1>4, <2>2, <3>1, <3>3
    <3>4. CASE d # n /\ e # n  BY <1>2, <3>1, <3>4
    <3> QED  BY <3>2, <3>3, <3>4
  <2>3. ASSUME NEW u \in Tids
        PROVE  r.sleep[u] <=> \E d \in 0 .. MaxSleep : u \in ToSet(r.wakes[d])
    <3>1. s.sleep[u] <=> \E d \in 0 .. MaxSleep : u \in ToSet(s.wakes[d])  BY DEF AlarmsFrom
    <3>2. \A d \in 0 .. MaxSleep :
             u \in ToSet(r.wakes[d]) <=> u \in ToSet(s.wakes[d]) \/ (d = n /\ u = t)
      BY <1>2, <1>4
    <3> QED  BY <1>0, <1>1, <3>1, <3>2
  <2> QED  BY <2>1, <2>2, <2>3 DEF AlarmsFrom
<1>6. r.running \notin ToSet(r.wakes[0])  BY <1>0, <1>2, <1>3 DEF t
<1>7. ToSet(r.ready) = {r.running} \cup {u \in Tids : Awake(r, u)}
  <2>1. \A u \in Tids \ {t} : Awake(r, u) <=> Awake(s, u)  BY <1>1 DEF Awake
  <2>2. ~ Awake(r, t) /\ ~ Awake(s, t)  BY <1>0 DEF Awake, t
  <2> QED  BY <2>1, <2>2 DEF t
<1>8. /\ \A u \in Tids : r.sleep[u] => r.st[u] \in {"READY", "RUNNING"}
      /\ ~r.sleep[0]
  <2>1. 0 \in Tids  BY UThreadsAssumption DEF Tids
  <2> QED  BY <1>1, <2>1 DEF t
<1> QED  BY <1>5, <1>6, <1>7, <1>8 DEF Leaving

(* The running thread ends, with no sleeper due.                           *)
Ended(s) == pop_front([count_quantum(s) EXCEPT !.st[s.running] = "free"])

LEMMA ExitEffect ==
  ASSUME NEW s \in Globals, Scheduled(s)
  PROVE  LET p == Ended(s)
             c == count_quantum(s)
         IN  /\ p \in Globals
             /\ p.ready = Tail(s.ready) /\ p.st = [s.st EXCEPT ![s.running] = "free"]
             /\ p.sleep = s.sleep /\ p.wakes = c.wakes
             /\ p.status = s.status /\ p.uncredited = c.uncredited
<1> DEFINE c == count_quantum(s)
           t == s.running
           f == [c EXCEPT !.st[t] = "free"]
           p == pop_front(f)
<1>1. c \in Globals /\ t \in Tids /\ s.ready # <<>>
  BY CountType DEF Globals, Scheduled, Headed
<1>2. c.st = s.st /\ c.sleep = s.sleep /\ c.ready = s.ready /\ c.status = s.status
  BY DEF count_quantum, Globals
<1> HIDE DEF c, t
<1>3. /\ f.ready = c.ready /\ f.st = [c.st EXCEPT ![t] = "free"] /\ f.sleep = c.sleep
      /\ f.wakes = c.wakes /\ f.status = c.status /\ f.uncredited = c.uncredited
      /\ f \in Globals
  BY <1>1 DEF Globals
<1> HIDE DEF f
<1>4. p \in Globals  BY <1>3, PopFrontType
<1>5. p = [f EXCEPT !.ready = Tail(f.ready)]  BY <1>1, <1>2, <1>3 DEF pop_front
<1> HIDE DEF p
<1>6. /\ p.ready = Tail(f.ready) /\ p.st = f.st /\ p.sleep = f.sleep
      /\ p.wakes = f.wakes /\ p.status = f.status /\ p.uncredited = f.uncredited
  BY <1>3, <1>5 DEF Globals
<1>7. p = Ended(s)  BY DEF p, f, c, t, Ended
<1> QED  BY <1>2, <1>3, <1>4, <1>6, <1>7 DEF c, t

LEMMA ExitKeeps ==
  ASSUME NEW s \in Globals, Scheduled(s), s.running # 0, s.wakes[0] = <<>>
  PROVE  Popped(Ended(s))
<1> DEFINE c == count_quantum(s)
           t == s.running
           p == Ended(s)
<1>0. Woken(s)
  <2>1. \A d \in 0 .. MaxSleep : d = 0 \/ d \in 1 .. MaxSleep  BY UThreadsAssumption
  <2>2. \A d \in 1 .. MaxSleep : d \in 0 .. MaxSleep  BY UThreadsAssumption
  <2>3. ToSet(s.wakes[0]) = {}  BY DEF ToSet
  <2> QED  BY <2>1, <2>2, <2>3 DEF Scheduled, Woken, AlarmsFrom
<1>1. c \in Globals /\ Counted(c)  BY <1>0, CountType, CountKeeps
<1>2. /\ c.running = t /\ c.sleep = s.sleep /\ c.ready = s.ready
      /\ c.st = s.st /\ c.status = s.status
  BY DEF count_quantum, Globals
<1>3. /\ p.ready = Tail(c.ready) /\ p.st = [c.st EXCEPT ![t] = "free"] /\ p.sleep = c.sleep
      /\ p.wakes = c.wakes /\ p.status = c.status /\ p.uncredited = c.uncredited
  BY <1>2, ExitEffect
<1> HIDE DEF c, p
<1>4. /\ 0 \in Tids /\ t \in Tids /\ t # 0 /\ c.ready \in Seq(Tids) /\ c.ready # <<>>
      /\ Head(c.ready) = t /\ IsInjective(c.ready) /\ c.st \in [Tids -> States] /\ ~c.sleep[t]
  BY <1>1, <1>2, UThreadsAssumption DEF Globals, States, Tids, Counted, Headed, Scheduled
<1>5. IsInjective(p.ready) /\ ToSet(p.ready) = ToSet(c.ready) \ {t}
  BY <1>3, <1>4, InjectiveTail
<1>6. \A u \in Tids : p.st[u] = IF u = t THEN "free" ELSE c.st[u]  BY <1>3, <1>4
<1>7. ToSet(p.ready) = {u \in Tids : Awake(p, u)}
  <2>1. ~ Awake(p, t) /\ \A u \in Tids \ {t} : Awake(p, u) <=> Awake(c, u)
    BY <1>3, <1>4, <1>6 DEF Awake
  <2>2. ToSet(c.ready) = {t} \cup {u \in Tids : Awake(c, u)}
    BY <1>1, <1>2 DEF Counted, Headed
  <2> QED  BY <1>4, <1>5, <2>1, <2>2
<1>8. AlarmsFrom(p, 0)  BY <1>1, <1>3 DEF AlarmsFrom, Counted
<1>9. /\ \A u \in Tids : p.st[u] # "RUNNING"
      /\ \A u \in Tids : p.sleep[u] => p.st[u] = "READY"
      /\ p.st[0] = "READY" /\ ~p.sleep[0]
  BY <1>1, <1>2, <1>3, <1>4, <1>6 DEF Counted, Headed
<1> QED  BY <1>1, <1>3, <1>5, <1>7, <1>8, <1>9 DEF Popped, Counted, Headed, p

(* What each call makes of k.                                              *)
LEMMA InsideCall ==
  ASSUME ScheduleInv, InUser
  PROVE  /\ k \in Globals /\ k.running \in Tids /\ cur \in Contexts /\ env \in [Tids -> Contexts]
         /\ Phase /\ Saved /\ dirty = FALSE /\ k.status = "ok" /\ cur.at = "user" /\ Scheduled(k)
<1>1. UThreadsTypeOK /\ Ok  BY DEF ScheduleInv, CallerInv, InUser
<1>2. k \in Globals /\ k.running \in Tids /\ cur \in Contexts /\ env \in [Tids -> Contexts]
  BY <1>1 DEF UThreadsTypeOK, Globals
<1>3. Phase /\ Saved /\ dirty = FALSE  BY <1>1 DEF ScheduleInv, UThreadsTypeOK
<1> QED  BY <1>1, <1>2, <1>3 DEF InUser, Ok, Phase

LEMMA CallsAreUser == LibraryCall => InUser
  BY DEF LibraryCall, uthread_spawn, SpawnFails, TerminateMain, SleepFails, OutOfRange,
         TerminateSelf, TerminateOther, BlockSelf, BlockOther, uthread_resume, ResumeMissing,
         uthread_get_quantums, QuantumsMissing, uthread_sleep

Changes(states, sleeping, alarms, list) ==
    /\ SameTurn(k', k)
    /\ k'.st = states /\ k'.sleep = sleeping /\ k'.wakes = alarms /\ k'.ready = list

Joins(t) == Changes([k.st EXCEPT ![t] = "READY"], k.sleep, k.wakes, Append(k.ready, t))
Removes(t) ==
    Changes([k.st EXCEPT ![t] = "free"], k.sleep, k.wakes,
            IF k.st[t] = "READY" THEN RemoveFirst(k.ready, t) ELSE k.ready)
Blocks(t) == Changes([k.st EXCEPT ![t] = "BLOCKED"], k.sleep, k.wakes, k.ready)
Sleeps(n) ==
    Changes(k.st, [k.sleep EXCEPT ![k.running] = TRUE],
            [k.wakes EXCEPT ![n] = Append(@, k.running)], k.ready)

LEMMA SpawnEffect ==
  ASSUME ScheduleInv, uthread_spawn
  PROVE  /\ UNCHANGED <<cur, dirty>>
         /\ \E t \in Tids : /\ k.st[t] = "free" /\ t # k.running /\ ~k.sleep[t] /\ Joins(t)
                            /\ env' = [env EXCEPT ![t] = Entry(t)]
<1>1. PICK t \in Tids, flag \in {FALSE, dirty} :
         /\ ~Alive(t)
         /\ k' = [k EXCEPT !.st[t] = "READY", !.sleep[t] = flag, !.ready = Append(@, t)]
         /\ env' = [env EXCEPT ![t] = Entry(t)]
  BY DEF uthread_spawn
<1>2. UNCHANGED <<cur, dirty>> /\ InUser  BY DEF uthread_spawn
<1>3. k \in Globals /\ Scheduled(k) /\ dirty = FALSE  BY <1>2, InsideCall
<1>4. k.st[t] = "free" /\ ~k.sleep[t] /\ flag = FALSE /\ t # k.running
  <2>1. k.st[t] = "free"  BY <1>1 DEF Alive
  <2>2. ~k.sleep[t] /\ t # k.running  BY <1>3, <2>1 DEF Scheduled, Headed
  <2> QED  BY <1>3, <2>1, <2>2
<1>5. [k.sleep EXCEPT ![t] = FALSE] = k.sleep  BY <1>3, <1>4 DEF Globals
<1> DEFINE a == [k.st EXCEPT ![t] = "READY"]
           b == [k.sleep EXCEPT ![t] = FALSE]
           q == Append(k.ready, t)
<1>6. k' = [k EXCEPT !.st = a, !.sleep = b, !.ready = q]  BY <1>1, <1>4
<1> HIDE DEF a, b, q
<1>7. Changes(a, b, k.wakes, q)  BY <1>3, <1>6 DEF Globals, SameTurn, Changes
<1>8. Joins(t)  BY <1>5, <1>7 DEF Joins, a, b, q
<1> QED  BY <1>1, <1>2, <1>4, <1>8

LEMMA TerminateOtherEffect ==
  ASSUME Rules, ScheduleInv, NEW t \in Tids, TerminateOther(t)
  PROVE  /\ UNCHANGED <<env, cur, dirty>>
         /\ t # k.running /\ t # 0 /\ ~k.sleep[t] /\ Removes(t) /\ k.st[t] # "free"
<1>1. InUser  BY DEF TerminateOther
<1>2. k \in Globals /\ Scheduled(k) /\ dirty = FALSE  BY <1>1, InsideCall
<1>3. ~k.sleep[t] /\ t # k.running /\ t # 0 /\ UNCHANGED <<env, cur>> /\ k.st[t] # "free"
  <2>1. "killSleeper" \notin Allowed  BY DEF Rules
  <2> QED  BY <1>2, <2>1 DEF TerminateOther, Return, Scheduled, Alive
<1>4. dirty' = dirty  BY <1>2, <1>3 DEF TerminateOther
<1> DEFINE a == [k.st EXCEPT ![t] = "free"]
           q == IF k.st[t] = "READY" THEN RemoveFirst(k.ready, t) ELSE k.ready
<1>5. k' = [k EXCEPT !.st = a, !.ready = q]  BY DEF TerminateOther
<1> HIDE DEF a, q
<1>6. Changes(a, k.sleep, k.wakes, q)  BY <1>2, <1>5 DEF Globals, SameTurn, Changes
<1> QED  BY <1>3, <1>4, <1>6 DEF Removes, a, q

LEMMA BlockSelfEffect ==
  ASSUME ScheduleInv, NEW t \in Tids, BlockSelf(t)
  PROVE  /\ t = k.running /\ t # 0 /\ UNCHANGED <<env, dirty>> /\ cur'.at = "save"
         /\ Blocks(t)
<1>1. t = k.running /\ t # 0 /\ UNCHANGED <<env, dirty>> /\ Goto("save") /\ InUser
      /\ k' = [k EXCEPT !.st = [k.st EXCEPT ![t] = "BLOCKED"]]
  BY DEF BlockSelf
<1>2. k \in Globals /\ cur \in Contexts  BY <1>1, InsideCall
<1>3. cur'.at = "save"  BY <1>1, <1>2 DEF Goto, Contexts
<1>4. Blocks(t)  BY <1>1, <1>2 DEF Globals, SameTurn, Changes, Blocks
<1> QED  BY <1>1, <1>3, <1>4

LEMMA SleepEffect ==
  ASSUME Rules, ScheduleInv, NEW n \in 1 .. MaxSleep, uthread_sleep(n)
  PROVE  k.running # 0 /\ UNCHANGED <<env, dirty>> /\ cur'.at = "save" /\ Sleeps(n)
<1>1. k.running # 0 /\ InUser
  <2>1. "mainSleep" \notin Allowed  BY DEF Rules
  <2> QED  BY <2>1 DEF uthread_sleep
<1>2. k \in Globals /\ cur \in Contexts  BY <1>1, InsideCall
<1> DEFINE a == [k.sleep EXCEPT ![k.running] = TRUE]
           w == [k.wakes EXCEPT ![n] = Append(@, k.running)]
<1>3. k' = [k EXCEPT !.sleep = a, !.wakes = w] /\ UNCHANGED <<env, dirty>> /\ Goto("save")
  BY DEF uthread_sleep
<1>4. cur'.at = "save"  BY <1>2, <1>3 DEF Goto, Contexts
<1> HIDE DEF a, w
<1>5. Changes(k.st, a, w, k.ready)  BY <1>2, <1>3 DEF Globals, SameTurn, Changes
<1> QED  BY <1>1, <1>3, <1>4, <1>5 DEF Sleeps, a, w

LEMMA ResumeEffect ==
  ASSUME ScheduleInv, NEW t \in Tids, uthread_resume(t)
  PROVE  /\ UNCHANGED <<env, cur, dirty>>
         /\ k' = k \/ (k.st[t] = "BLOCKED" /\ Joins(t))
<1>1. UNCHANGED <<env, cur, dirty>> /\ InUser  BY DEF uthread_resume, Return
<1>2. k \in Globals  BY <1>1, InsideCall
<1>3. CASE k.st[t] = "BLOCKED"
  <2>1. k' = [k EXCEPT !.st = [k.st EXCEPT ![t] = "READY"], !.ready = Append(k.ready, t)]
    BY <1>3 DEF uthread_resume
  <2>2. Joins(t)  BY <1>2, <2>1 DEF Globals, SameTurn, Changes, Joins
  <2> QED  BY <1>1, <1>3, <2>2
<1>4. CASE k.st[t] # "BLOCKED"  BY <1>1, <1>4 DEF uthread_resume
<1> QED  BY <1>3, <1>4

LEMMA TerminateSelfEffect ==
  ASSUME Rules, ScheduleInv, NEW t \in Tids, TerminateSelf(t)
  PROVE  /\ t = k.running /\ t # 0 /\ k.wakes[0] = <<>>
         /\ Ended(k) \in Globals /\ Popped(Ended(k)) /\ k' = run_new_thread(Ended(k))
         /\ cur'.at = "jump" /\ UNCHANGED <<env, dirty>>
<1>1. InUser  BY DEF TerminateSelf
<1>2. k \in Globals /\ Scheduled(k) /\ cur \in Contexts /\ k.running \in Tids /\ dirty = FALSE
  BY <1>1, InsideCall
<1>3. t = k.running /\ t # 0 /\ k.wakes[0] = <<>> /\ ~k.sleep[t]
  <2>1. "exitAmongSleepers" \notin Allowed  BY DEF Rules
  <2> QED  BY <1>2, <2>1 DEF TerminateSelf, Scheduled, Headed
<1>4. Ended(k) \in Globals /\ Popped(Ended(k))  BY <1>2, <1>3, ExitEffect, ExitKeeps
<1>5. k' = run_new_thread(Ended(k))  BY <1>3 DEF TerminateSelf, Ended
<1>6. cur'.at = "jump" /\ UNCHANGED <<env, dirty>>
  BY <1>2, <1>3 DEF TerminateSelf, Contexts
<1> QED  BY <1>3, <1>4, <1>5, <1>6

LEMMA CallsKeep == ASSUME Rules, ScheduleInv, LibraryCall  PROVE ScheduleKept
<1>0. /\ k \in Globals /\ k.running \in Tids /\ cur \in Contexts /\ env \in [Tids -> Contexts]
      /\ Phase /\ Saved /\ dirty = FALSE /\ k.status = "ok" /\ cur.at = "user" /\ Scheduled(k)
  BY CallsAreUser, InsideCall
(* A call that returns.                                                    *)
<1>a. ASSUME UNCHANGED <<env, cur, dirty>>, Scheduled(k')  PROVE ScheduleKept
  <2>1. Saved'  BY <1>0, <1>a DEF Saved
  <2> QED  BY <1>0, <1>a, <2>1 DEF ScheduleKept, Phase, OnlyFaults, Scheduled, Headed
<1>b. ASSUME ReturnMasked  PROVE ScheduleKept
  BY <1>0, <1>a, <1>b DEF ReturnMasked
(* A call that begins a voluntary switch.                                  *)
<1>c. ASSUME UNCHANGED <<env, dirty>>, cur'.at = "save", Leaving(k')  PROVE ScheduleKept
  <2>1. Saved'  BY <1>0, <1>c DEF Saved
  <2> QED  BY <1>0, <1>c, <2>1 DEF ScheduleKept, Phase, OnlyFaults, Leaving, Headed
<1>1. CASE uthread_spawn
  <2>1. UNCHANGED <<cur, dirty>>  BY <1>1, SpawnEffect
  <2>2. PICK t \in Tids : k.st[t] = "free" /\ Joins(t) /\ env' = [env EXCEPT ![t] = Entry(t)]
    BY <1>1, SpawnEffect
  <2>3. Scheduled(k')  BY <1>0, <2>2, JoinKeeps DEF Joins, Changes
  <2>4. /\ \A u \in Tids : env'[u].at \in {"user", "quantums"}
        /\ "quantumsRace" \notin Allowed => \A u \in Tids : env'[u].at = "user"
    BY <1>0, <2>2 DEF Saved, Entry, Context
  <2> QED  BY <1>0, <2>1, <2>3, <2>4 DEF ScheduleKept, Phase, Saved, OnlyFaults, Scheduled, Headed
<1>2. CASE SpawnFails \/ SleepFails \/ \E t \in Tids : ResumeMissing(t) \/ QuantumsMissing(t)
  BY <1>2, <1>b DEF SpawnFails, SleepFails, ResumeMissing, QuantumsMissing
<1>3. CASE TerminateMain
  <2>1. k'.status = "exit"  BY <1>0, <1>3 DEF TerminateMain, Globals
  <2> QED  BY <2>1 DEF ScheduleKept, OnlyFaults
<1>4. CASE OutOfRange
  <2>1. k'.status = "outOfBounds"  BY <1>0, <1>4 DEF OutOfRange, Fault, Globals
  <2>2. "outOfRange" \in Allowed  BY <1>4 DEF OutOfRange
  <2> QED  BY <2>1, <2>2 DEF ScheduleKept, OnlyFaults
<1>5. ASSUME NEW t \in Tids, TerminateSelf(t)  PROVE ScheduleKept
  <2>1. Scheduled(k')  BY <1>5, TerminateSelfEffect, RunKeeps
  <2>2. cur'.at = "jump" /\ UNCHANGED <<env, dirty>>  BY <1>5, TerminateSelfEffect
  <2>3. Saved'  BY <1>0, <2>2 DEF Saved
  <2> QED  BY <1>0, <2>1, <2>2, <2>3 DEF ScheduleKept, Phase, OnlyFaults, Scheduled, Headed
<1>6. ASSUME NEW t \in Tids, TerminateOther(t)  PROVE ScheduleKept
  <2>1. /\ UNCHANGED <<env, cur, dirty>>
        /\ t # k.running /\ t # 0 /\ ~k.sleep[t] /\ Removes(t)
    BY <1>6, TerminateOtherEffect
  <2>2. Scheduled(k')  BY <1>0, <2>1, RemoveKeeps DEF Removes, Changes
  <2> QED  BY <1>a, <2>1, <2>2
<1>7. ASSUME NEW t \in Tids, BlockSelf(t)  PROVE ScheduleKept
  <2>1. t = k.running /\ t # 0 /\ UNCHANGED <<env, dirty>> /\ cur'.at = "save" /\ Blocks(t)
    BY <1>7, BlockSelfEffect
  <2>2. Leaving(k')  BY <1>0, <2>1, BlockKeeps DEF Blocks, Changes
  <2> QED  BY <1>c, <2>1, <2>2
<1>8. ASSUME NEW t \in Tids, BlockOther(t)  PROVE ScheduleKept
  <2>1. k.st[t] # "RUNNING"  BY <1>0, <1>8 DEF BlockOther, Scheduled, Headed
  <2> QED  BY <1>8, <1>b, <2>1 DEF BlockOther
<1>9. ASSUME NEW t \in Tids, uthread_resume(t)  PROVE ScheduleKept
  <2>1. UNCHANGED <<env, cur, dirty>> /\ (k' = k \/ (k.st[t] = "BLOCKED" /\ Joins(t)))
    BY <1>9, ResumeEffect
  <2>2. ASSUME k.st[t] = "BLOCKED", Joins(t)  PROVE Scheduled(k')
    BY <1>0, <2>2, JoinKeeps DEF Joins, Changes
  <2> QED  BY <1>0, <1>a, <2>1, <2>2
<1>10. ASSUME NEW t \in Tids, uthread_get_quantums(t)  PROVE ScheduleKept
  <2>1. Alive(t) /\ UNCHANGED <<k, env, dirty>> /\ cur'.at = "quantums" /\ cur'.local = t
    BY <1>0, <1>10 DEF uthread_get_quantums, Contexts
  <2>2. Saved'  BY <1>0, <2>1 DEF Saved, Alive
  <2> QED  BY <1>0, <2>1, <2>2 DEF ScheduleKept, Phase, OnlyFaults
<1>11. ASSUME NEW n \in 1 .. MaxSleep, uthread_sleep(n)  PROVE ScheduleKept
  <2>1. k.running # 0 /\ UNCHANGED <<env, dirty>> /\ cur'.at = "save" /\ Sleeps(n)
    BY <1>11, SleepEffect
  <2>2. Leaving(k')  BY <1>0, <2>1, SleepKeeps DEF Sleeps, Changes
  <2> QED  BY <1>c, <2>1, <2>2
<1> QED
  BY <1>1, <1>2, <1>3, <1>4, <1>5, <1>6, <1>7, <1>8, <1>9, <1>10, <1>11 DEF LibraryCall

LEMMA ScheduleStep == ASSUME Rules  PROVE ScheduleInv /\ [Next]_vars => ScheduleInv'
<1> SUFFICES ASSUME ScheduleInv, Next \/ UNCHANGED vars  PROVE ScheduleInv'  OBVIOUS
<1>1. CallerInv'  BY CallerStep DEF ScheduleInv
<1>2. ASSUME ScheduleKept  PROVE ScheduleInv'
  BY <1>1, <1>2 DEF ScheduleInv, ScheduleKept, Ok
<1>3. CASE UNCHANGED vars \/ Stopped
  <2>1. UNCHANGED vars  BY <1>3 DEF Stopped
  <2>2. (Ok => Phase /\ Saved /\ ~dirty)' /\ OnlyFaults'
    BY <2>1 DEF ScheduleInv, Ok, Phase, Saved, Alive, OnlyFaults, vars
  <2> QED  BY <1>1, <2>2 DEF ScheduleInv
<1> QED
  BY <1>2, <1>3, SchedulerKeeps, SwitchKeeps, ReadQuantumsKeeps, CallsKeep DEF Next

LEMMA ScheduleInit == Init => ScheduleInv
<1> SUFFICES ASSUME Init  PROVE ScheduleInv  OBVIOUS
<1>0. 0 \in Tids /\ MaxSleep \in Nat  BY UThreadsAssumption DEF Tids
<1>1. /\ k.st = [t \in Tids |-> IF t = 0 THEN "RUNNING" ELSE "free"] /\ k.running = 0
      /\ k.sleep = [t \in Tids |-> FALSE] /\ k.ready = <<0>>
      /\ k.wakes = [d \in Delays |-> <<>>] /\ k.uncredited = 0 /\ k.status = "ok"
  BY <1>0 DEF Init, MainThread, Initialisers
<1>2. cur.at = "user" /\ dirty = FALSE /\ \A t \in Tids : env[t].at = "user"
  BY DEF Init, Entry, Context
<1>3. IsInjective(<<>>) /\ ToSet(<<>>) = {} /\ IsInjective(<<0>>) /\ ToSet(<<0>>) = {0}
  BY DEF IsInjective, ToSet
<1>4. AlarmsFrom(k, 0)
  <2>1. \A d \in 0 .. MaxSleep : k.wakes[d] = <<>>  BY <1>1 DEF Delays
  <2> QED  BY <1>1, <1>3, <2>1 DEF AlarmsFrom
<1>5. Headed(k)
  <2>1. \A t \in Tids : ~ Awake(k, t)  BY <1>1 DEF Awake
  <2> QED  BY <1>0, <1>1, <1>3, <2>1 DEF Headed
<1>6. Scheduled(k)  BY <1>0, <1>1, <1>4, <1>5 DEF Scheduled
<1>7. Init => CallerInv
  <2>1. Init => LeadsTo(cur, k.running) /\ \A t \in Tids : LeadsTo(env[t], t)
    BY DEF Init, LeadsTo, Entry, Context, MainThread, Initialisers
  <2> QED  BY <2>1, InitType DEF CallerInv
<1> QED  BY <1>1, <1>2, <1>6, <1>7 DEF ScheduleInv, Phase, Saved, OnlyFaults, Ok

LEMMA ScheduleInvHolds == ASSUME Rules  PROVE Spec => []ScheduleInv
  BY ScheduleInit, ScheduleStep, PTL DEF Spec

(* What the invariant says while thread code runs.                         *)
LEMMA ScheduledInUser == ASSUME ScheduleInv, InUser  PROVE k \in Globals /\ Scheduled(k)
  BY DEF ScheduleInv, CallerInv, UThreadsTypeOK, InUser, Phase

(* For every program within the rules, the ready list holds each thread    *)
(* that is to run exactly once, and the running one at its head.           *)
THEOREM ReadyListCorrect == ASSUME Rules  PROVE Spec => []ReadyListExact
<1>1. ScheduleInv => ReadyListExact
  <2> SUFFICES ASSUME ScheduleInv, InUser
               PROVE  /\ IsInjective(k.ready)
                      /\ ToSet(k.ready) = {t \in Tids : Schedulable(t)}
                      /\ k.running = Head(k.ready)
                      /\ {t \in Tids : k.st[t] = "RUNNING"} = {k.running}
    BY DEF ReadyListExact
  <2>1. k.running \in Tids /\ Scheduled(k)  BY ScheduledInUser DEF Globals
  <2>2. \A t \in Tids : Schedulable(t) <=> t = k.running \/ Awake(k, t)
    BY <2>1 DEF Schedulable, Awake, Scheduled, Headed
  <2> QED  BY <2>1, <2>2 DEF Scheduled, Headed
<1> QED  BY <1>1, ScheduleInvHolds, PTL

(* A sleeper is in the wake-up map at one place.                           *)
THEOREM SleeperHasAlarmCorrect == ASSUME Rules  PROVE Spec => []SleeperHasAlarm
<1>1. ScheduleInv => SleeperHasAlarm
  <2> SUFFICES ASSUME ScheduleInv, InUser, NEW t \in Tids, k.sleep[t]
               PROVE  Alarms(t) = 1
    BY DEF SleeperHasAlarm
  <2> DEFINE Spots(d) == {j \in DOMAIN k.wakes[d] : k.wakes[d][j] = t}
             All == UNION {{<<d, i>> : i \in Spots(d)} : d \in Delays}
  <2>1. k \in Globals /\ AlarmsFrom(k, 0)  BY ScheduledInUser DEF Scheduled
  <2>2. PICK d \in Delays : t \in ToSet(k.wakes[d])  BY <2>1 DEF AlarmsFrom, Delays
  <2>3. \A e \in Delays : k.wakes[e] \in Seq(Tids)  BY <2>1 DEF Globals
  <2>4. PICK i \in DOMAIN k.wakes[d] : k.wakes[d][i] = t  BY <2>2 DEF ToSet
  <2>5. Spots(d) = {i}
    <3>1. IsInjective(k.wakes[d])  BY <2>1 DEF AlarmsFrom, Delays
    <3> QED  BY <2>4, <3>1 DEF IsInjective
  <2>6. \A e \in Delays : e # d => Spots(e) = {}
    <3>1. \A e \in Delays : e # d => t \notin ToSet(k.wakes[e])
      BY <2>1, <2>2 DEF AlarmsFrom, Delays
    <3> QED  BY <3>1 DEF ToSet
  <2> HIDE DEF Spots
  <2>7. All = {<<d, i>>}
    <3>1. <<d, i>> \in All  BY <2>5
    <3>2. ASSUME NEW x \in All  PROVE x = <<d, i>>
      <4>1. PICK e \in Delays : x \in {<<e, j>> : j \in Spots(e)}  OBVIOUS
      <4> QED  BY <2>5, <2>6, <4>1
    <3> QED  BY <3>1, <3>2
  <2>8. Cardinality(All) = 1  BY <2>7, FS_Singleton
  <2> QED  BY <2>8 DEF Alarms, Spots
<1> QED  BY <1>1, ScheduleInvHolds, PTL

(* Every quantum that was counted was some thread's.                       *)
THEOREM QuantumsCorrect == ASSUME Rules  PROVE Spec => []QuantumsAddUp
<1>1. ScheduleInv => QuantumsAddUp  BY ScheduledInUser DEF Scheduled, QuantumsAddUp
<1> QED  BY <1>1, ScheduleInvHolds, PTL

(* Within the rules, with ids out of range, failed calls and a timer that  *)
(* expires in get_quantums: no thread is reached after it was freed, and   *)
(* the only code that runs on a freed stack is the end of                  *)
(* uthread_terminate (uthreads.cpp:346-351).                               *)
THEOREM NoDanglingCorrect == ASSUME Rules  PROVE Spec => []NoDangling
<1>1. ScheduleInv => NoDangling
  <2> SUFFICES ASSUME ScheduleInv  PROVE NoDangling  OBVIOUS
  <2>1. k.status \notin {"useAfterFree", "emptyDeque", "nullRunning"}
    BY DEF ScheduleInv, OnlyFaults
  <2>2. ASSUME Ok, cur.at # "jump"  PROVE Alive(cur.own)
    <3>1. Phase /\ cur \in Contexts /\ cur.own = k.running
      BY <2>2 DEF ScheduleInv, CallerInv, UThreadsTypeOK, LeadsTo
    <3>2. cur.at \in {"user", "quantums"} => Alive(k.running)
      BY <3>1 DEF Phase, Scheduled, Alive
    <3>3. cur.at \in {"save", "wake", "count", "pop"} => Alive(k.running)
      BY <3>1 DEF Phase, Leaving, Woken, Counted, Headed, Alive
    <3> QED  BY <2>2, <3>1, <3>2, <3>3 DEF Phase, Contexts, Places
  <2> QED  BY <2>1, <2>2 DEF NoDangling
<1> QED  BY <1>1, ScheduleInvHolds, PTL

-----------------------------------------------------------------------------
(* The refinement of RoundRobin.  What it sees of a record s in which the  *)
(* running thread stays.                                                   *)
BlockedIn(s) == {t \in Tids : s.st[t] = "BLOCKED"}
SleepersIn(s) == {t \in Tids : s.st[t] # "free" /\ s.sleep[t]}
RemainingIn(s, t) == 1 + CHOOSE d \in Delays : t \in ToSet(s.wakes[d])
AsleepIn(s) == [t \in SleepersIn(s) |-> RemainingIn(s, t)]

(* What RoundRobin's variables stand for, in this state and in the next.   *)
LEMMA ViewNow ==
  ASSUME ~Exited
  PROVE  /\ Turn = Settled.running /\ Queue = Tail(Settled.ready)
         /\ Blocked = BlockedIn(Settled) /\ Asleep = AsleepIn(Settled)
<1>1. Sleepers = SleepersIn(Settled)  BY DEF Sleepers, SleepersIn
<1>2. \A t \in Tids : RemainingQuantums(t) = RemainingIn(Settled, t)
  BY DEF RemainingQuantums, RemainingIn
<1> QED  BY <1>1, <1>2 DEF Turn, Queue, Blocked, BlockedIn, Asleep, AsleepIn, SleepersIn

LEMMA ViewNext ==
  ASSUME ~Exited'
  PROVE  /\ Turn' = Settled'.running /\ Queue' = Tail(Settled'.ready)
         /\ Blocked' = BlockedIn(Settled') /\ Asleep' = AsleepIn(Settled')
<1>1. Sleepers' = SleepersIn(Settled')  BY DEF Sleepers, SleepersIn
<1>2. \A t \in Tids : RemainingQuantums(t)' = RemainingIn(Settled', t)
  BY DEF RemainingQuantums, RemainingIn
<1> QED  BY <1>1, <1>2 DEF Turn, Queue, Blocked, BlockedIn, Asleep, AsleepIn, SleepersIn

(* A sleeper wakes when as many quantums have ended as its entry says.     *)
LEMMA SleepersByAlarm ==
  ASSUME NEW s \in Globals, Scheduled(s)
  PROVE  /\ SleepersIn(s) = {t \in Tids : \E d \in Delays : t \in ToSet(s.wakes[d])}
         /\ \A t \in Tids, d \in Delays : t \in ToSet(s.wakes[d]) => RemainingIn(s, t) = d + 1
<1>1. AlarmsFrom(s, 0) /\ \A t \in Tids : s.sleep[t] => s.st[t] # "free"
  BY DEF Scheduled, Headed
<1>2. SleepersIn(s) = {t \in Tids : \E d \in Delays : t \in ToSet(s.wakes[d])}
  <2>1. \A t \in Tids : s.st[t] # "free" /\ s.sleep[t]
                            <=> \E d \in Delays : t \in ToSet(s.wakes[d])
    BY <1>1 DEF AlarmsFrom, Delays
  <2> QED  BY <2>1 DEF SleepersIn
<1>3. ASSUME NEW t \in Tids, NEW d \in Delays, t \in ToSet(s.wakes[d])
      PROVE  RemainingIn(s, t) = d + 1
  <2>1. \A e \in Delays : t \in ToSet(s.wakes[e]) => e = d  BY <1>1, <1>3 DEF AlarmsFrom, Delays
  <2>2. (CHOOSE e \in Delays : t \in ToSet(s.wakes[e])) = d  BY <1>3, <2>1
  <2>3. RemainingIn(s, t) = 1 + d  BY <2>2 DEF RemainingIn
  <2>4. d \in Int  BY DEF Delays
  <2> QED  BY <2>3, <2>4
<1> QED  BY <1>2, <1>3

(* The threads that are due have one quantum left.                         *)
LEMMA DueHaveOneLeft ==
  ASSUME NEW s \in Globals, Scheduled(s)
  PROVE  ToSet(s.wakes[0]) = {t \in DOMAIN AsleepIn(s) : AsleepIn(s)[t] = 1}
<1>1. 0 \in Delays /\ \A d \in Delays : d \in Nat /\ s.wakes[d] \in Seq(Tids)
  BY UThreadsAssumption DEF Delays, Globals
<1>2. ToSet(s.wakes[0]) \subseteq Tids  BY <1>1, ListElements
<1>3. DOMAIN AsleepIn(s) = SleepersIn(s)
      /\ \A t \in SleepersIn(s) : AsleepIn(s)[t] = RemainingIn(s, t)
  BY DEF AsleepIn
<1>4. ASSUME NEW t \in ToSet(s.wakes[0])  PROVE t \in SleepersIn(s) /\ RemainingIn(s, t) = 1
  <2>1. RemainingIn(s, t) = 0 + 1  BY <1>1, <1>2, <1>4, SleepersByAlarm
  <2> QED  BY <1>1, <1>2, <1>4, <2>1, SleepersByAlarm
<1>5. ASSUME NEW t \in SleepersIn(s), RemainingIn(s, t) = 1  PROVE t \in ToSet(s.wakes[0])
  <2>1. PICK d \in Delays : t \in Tids /\ t \in ToSet(s.wakes[d])  BY SleepersByAlarm
  <2>2. d + 1 = 1  BY <1>5, <2>1, SleepersByAlarm
  <2>3. d = 0  BY <1>1, <2>2
  <2> QED  BY <2>1, <2>3
<1> QED  BY <1>3, <1>4, <1>5

(* As the map moves by one, every sleeper has a quantum less to sleep.     *)
StillIn(s) == SleepersIn(s) \ ToSet(s.wakes[0])
CountedDown(s, S, n) ==
    [t \in StillIn(s) \cup S |-> IF t \in StillIn(s) THEN AsleepIn(s)[t] - 1 ELSE n]

Shifted(z, s, S, n) ==
    \A d \in Delays : ToSet(z.wakes[d]) = (IF d < MaxSleep THEN ToSet(s.wakes[d + 1]) ELSE {})
                                          \cup (IF d = n - 1 THEN S ELSE {})

(* Nobody who sleeps on is lost, and who falls asleep sleeps n quantums.   *)
LEMMA SleepersCountDown ==
  ASSUME NEW s \in Globals, NEW z \in Globals, Scheduled(s), Scheduled(z),
         NEW S \in SUBSET {s.running}, NEW n \in 1 .. MaxSleep, Shifted(z, s, S, n)
  PROVE  AsleepIn(z) = CountedDown(s, S, n)
<1> DEFINE still == StillIn(s)
<1> USE DEF StillIn
<1>0. /\ MaxSleep \in Nat /\ s.running \in Tids /\ S \subseteq Tids
      /\ \A d \in Delays : d \in 0 .. MaxSleep
      /\ \A d \in 0 .. MaxSleep : d \in Delays
  BY UThreadsAssumption DEF Globals, Delays
<1>1. \A t \in S, d \in Delays : t \notin ToSet(s.wakes[d])
  BY <1>0 DEF Scheduled, AlarmsFrom
<1>2. ASSUME NEW t \in still
      PROVE  t \in SleepersIn(z) /\ RemainingIn(z, t) = AsleepIn(s)[t] - 1 /\ t \in SleepersIn(s)
  <2>1. PICK d \in Delays : t \in Tids /\ t \in ToSet(s.wakes[d])  BY <1>2, SleepersByAlarm
  <2>2. d # 0  BY <1>2, <2>1
  <2>3. d - 1 \in Delays /\ d - 1 < MaxSleep /\ (d - 1) + 1 = d  BY <1>0, <2>2
  <2>4. t \in ToSet(z.wakes[d - 1])  BY <2>1, <2>3 DEF Shifted
  <2>5. RemainingIn(z, t) = d /\ RemainingIn(s, t) = d + 1 /\ t \in SleepersIn(z)
    BY <2>1, <2>3, <2>4, SleepersByAlarm
  <2>6. AsleepIn(s)[t] = d + 1  BY <1>2, <2>5 DEF AsleepIn
  <2> QED  BY <1>0, <1>2, <2>5, <2>6
<1>3. ASSUME NEW t \in S  PROVE t \in SleepersIn(z) /\ RemainingIn(z, t) = n /\ t \notin still
  <2>1. n - 1 \in Delays /\ (n - 1) + 1 = n  BY <1>0
  <2>2. t \in ToSet(z.wakes[n - 1])  BY <1>3, <2>1 DEF Shifted
  <2>3. t \in SleepersIn(z) /\ RemainingIn(z, t) = n  BY <1>0, <2>1, <2>2, SleepersByAlarm
  <2>4. t \notin SleepersIn(s)  BY <1>1, SleepersByAlarm
  <2> QED  BY <2>3, <2>4
<1>4. ASSUME NEW t \in SleepersIn(z)  PROVE t \in still \cup S
  <2>1. PICK d \in Delays : t \in Tids /\ t \in ToSet(z.wakes[d])  BY SleepersByAlarm
  <2>2. CASE d < MaxSleep /\ t \in ToSet(s.wakes[d + 1])
    <3>1. d + 1 \in Delays /\ d + 1 # 0 /\ 0 \in Delays  BY <1>0, <2>2
    <3>2. t \in SleepersIn(s)  BY <2>1, <2>2, <3>1, SleepersByAlarm
    <3>3. t \notin ToSet(s.wakes[0])
      BY <1>0, <2>2, <3>1 DEF Scheduled, AlarmsFrom
    <3> QED  BY <3>2, <3>3
  <2> QED  BY <2>1, <2>2 DEF Shifted
<1>5. SleepersIn(z) = still \cup S  BY <1>2, <1>3, <1>4
<1>6. AsleepIn(z) = [t \in still \cup S |-> RemainingIn(z, t)]  BY <1>5 DEF AsleepIn
<1> HIDE DEF still
<1> QED  BY <1>2, <1>3, <1>6 DEF still, CountedDown

-----------------------------------------------------------------------------
(* A voluntary or forced switch from s, as far as RoundRobin sees it.      *)
Leaver(s) == IF s.st[s.running] = "RUNNING" /\ ~s.sleep[s.running] THEN <<s.running>> ELSE <<>>
SwitchFrom(s) == run_new_thread(handle_new_quantum(s))

(* What it is made of: the list moves up, those that are due and the one   *)
(* that leaves join it, and the alarms come a quantum nearer.              *)
LEMMA SwitchEffect ==
  ASSUME NEW s \in Globals, Leaving(s)
  PROVE  LET z == SwitchFrom(s)
         IN  /\ z \in Globals /\ Scheduled(z)
             /\ z.ready = Tail(s.ready) \o (s.wakes[0] \o Leaver(s))
             /\ BlockedIn(z) = BlockedIn(s)
             /\ z.wakes = [d \in Delays |-> IF d < MaxSleep THEN s.wakes[d + 1] ELSE <<>>]
<1> DEFINE w == wake_threads(s)
           c == count_quantum(w)
           p == pop_exiting(c)
           z == run_new_thread(p)
           t == s.running
           due == s.wakes[0]
<1>0. /\ t \in Tids /\ due \in Seq(Tids) /\ s.ready \in Seq(Tids) /\ s.ready # <<>>
      /\ s.st \in [Tids -> States] /\ s.sleep \in [Tids -> BOOLEAN]
  BY UThreadsAssumption DEF Globals, Delays, States, Leaving, Headed
<1>1. w \in Globals /\ Woken(w)  BY WakeType, WakeKeeps
<1>2. /\ w.st = s.st /\ w.running = t /\ w.wakes = s.wakes
      /\ w.ready = s.ready \o due /\ w.sleep[t] = s.sleep[t]
  <2>1. t \notin ToSet(due)  BY DEF Leaving
  <2>2. /\ w.st = s.st /\ w.running = t /\ w.wakes = s.wakes
        /\ w.ready = s.ready \o due
        /\ w.sleep = [u \in Tids |-> u \notin ToSet(due) /\ s.sleep[u]]
    BY WakeEffect
  <2> QED  BY <1>0, <2>1, <2>2
<1> HIDE DEF w
<1>3. c \in Globals /\ Counted(c)  BY <1>1, CountType, CountKeeps
<1>4. /\ c.st = w.st /\ c.running = w.running /\ c.ready = w.ready /\ c.sleep = w.sleep
      /\ c.wakes = [d \in Delays |-> IF d < MaxSleep THEN w.wakes[d + 1] ELSE <<>>]
  BY <1>1 DEF count_quantum, Globals
<1> HIDE DEF c
<1>5. p \in Globals /\ Popped(p)  BY <1>3, PopExitingType, PopKeeps
<1>6. /\ p.st = [s.st EXCEPT ![t] = StateAfter(c, t)] /\ p.wakes = c.wakes
      /\ p.ready = IF Again(c, t) THEN Append(Tail(c.ready), t) ELSE Tail(c.ready)
  <2>1. /\ p.st = [c.st EXCEPT ![c.running] = StateAfter(c, c.running)] /\ p.wakes = c.wakes
        /\ p.ready = IF Again(c, c.running) THEN Append(Tail(c.ready), c.running) ELSE Tail(c.ready)
    BY <1>3, PopEffect
  <2> HIDE DEF p, t
  <2>2. c.running = t /\ c.st = s.st  BY <1>2, <1>4
  <2> QED  BY <2>1, <2>2
<1> HIDE DEF p
<1>7. z \in Globals /\ Scheduled(z)  BY <1>5, RunType, RunKeeps
<1>8. /\ z.ready = p.ready /\ z.wakes = p.wakes /\ z.st = [p.st EXCEPT ![Head(p.ready)] = "RUNNING"]
      /\ Awake(p, Head(p.ready)) /\ Head(p.ready) \in Tids
  BY <1>5, RunEffect
<1> HIDE DEF z
<1>9. z.ready = Tail(s.ready) \o (due \o Leaver(s))
  <2>1. s.st[t] \in {"RUNNING", "BLOCKED"}  BY DEF Leaving, Headed
  <2>2. Again(c, t) <=> s.st[t] = "RUNNING" /\ ~s.sleep[t]
    BY <1>2, <1>4, <2>1 DEF Again, StateAfter
  <2>3. Tail(c.ready) = Tail(s.ready) \o due
    <3>1. c.ready = s.ready \o due  BY <1>2, <1>4
    <3> QED  BY <1>0, <3>1, TailOfConcat
  <2>4. Tail(s.ready) \in Seq(Tids)  BY <1>0, HeadTailProperties
  <2>5. Append(Tail(s.ready) \o due, t) = Tail(s.ready) \o (due \o <<t>>)
        /\ Tail(s.ready) \o (due \o <<>>) = Tail(s.ready) \o due
    <3> DEFINE q == Tail(s.ready)
    <3>1. q \in Seq(Tids) /\ due \in Seq(Tids) /\ t \in Tids  BY <1>0, <2>4
    <3> HIDE DEF q, due, t
    <3>2. Append(q \o due, t) = q \o (due \o <<t>>) /\ q \o (due \o <<>>) = q \o due
      BY <3>1, AppendToConcat
    <3> QED  BY <3>2 DEF q
  <2> QED  BY <1>6, <1>8, <2>2, <2>3, <2>5 DEF Leaver
<1>10. BlockedIn(z) = BlockedIn(s)
  <2>1. \A u \in Tids : p.st[u] = "BLOCKED" <=> s.st[u] = "BLOCKED"
    BY <1>0, <1>2, <1>4, <1>6 DEF StateAfter
  <2>2. \A u \in Tids : z.st[u] = "BLOCKED" <=> p.st[u] = "BLOCKED"
    <3>1. p.st \in [Tids -> States]  BY <1>5 DEF Globals, States
    <3> QED  BY <1>8, <3>1 DEF Awake
  <2> QED  BY <2>1, <2>2 DEF BlockedIn
<1>11. z = SwitchFrom(s)  BY DEF SwitchFrom, handle_new_quantum, z, p, c, w
<1> QED  BY <1>2, <1>4, <1>6, <1>7, <1>8, <1>9, <1>10, <1>11

-----------------------------------------------------------------------------
(* INSTANCE makes copies of the community modules' operators; they are     *)
(* the same.                                                               *)
LEMMA SameOrders == \A S : Abstract!SetToSeqs(S) = SetToSeqs(S)
<1>1. \A S : Abstract!Cardinality(S) = Cardinality(S)
  BY DEF Abstract!Cardinality, Cardinality
<1> QED  BY <1>1 DEF Abstract!SetToSeqs, SetToSeqs

(* The quantum of k ends, and the next one is that of Settled'.  S is the  *)
(* running thread if it goes to sleep, for n quantums; order is what joins *)
(* the queue.                                                              *)
LEMMA QuantumEnds ==
  ASSUME ~Exited, ~Exited', Settled = k, k \in Globals, Scheduled(k),
         Settled' \in Globals, Scheduled(Settled'),
         NEW S \in SUBSET {k.running}, NEW n \in 1 .. MaxSleep, Shifted(Settled', k, S, n),
         NEW ready \in SUBSET {k.running},
         NEW order \in SetToSeqs(ToSet(k.wakes[0]) \cup ready),
         Settled'.ready = Tail(k.ready) \o order
  PROVE  Abstract!EndQuantum(ready, [t \in S |-> n])
<1> DEFINE due == {t \in DOMAIN Asleep : Asleep[t] = 1}
           still == DOMAIN Asleep \ due
           f == [t \in S |-> n]
<1>1. /\ Turn = k.running /\ Queue = Tail(k.ready) /\ Asleep = AsleepIn(k)
      /\ DOMAIN Asleep = SleepersIn(k)
  BY ViewNow DEF AsleepIn
<1>2. /\ Turn' = Settled'.running /\ Queue' = Tail(Settled'.ready)
      /\ Asleep' = AsleepIn(Settled')
  BY ViewNext
<1>3. due = ToSet(k.wakes[0])  BY <1>1, DueHaveOneLeft
<1>4. still = SleepersIn(k) \ ToSet(k.wakes[0])  BY <1>1, <1>3
<1>5. Asleep' = [t \in still \cup S |-> IF t \in still THEN Asleep[t] - 1 ELSE n]
  <2>1. AsleepIn(Settled') = CountedDown(k, S, n)  BY SleepersCountDown
  <2>2. still = StillIn(k)  BY <1>4 DEF StillIn
  <2> HIDE DEF due, still
  <2> QED  BY <1>1, <1>2, <2>1, <2>2 DEF CountedDown
<1> HIDE DEF due, still
<1>6. Asleep' = [t \in still \cup DOMAIN f |-> IF t \in still THEN Asleep[t] - 1 ELSE f[t]]
  BY <1>5
<1>7. /\ Queue \o order # <<>> /\ Turn' = Head(Queue \o order) /\ Queue' = Tail(Queue \o order)
  <2>1. Settled'.ready # <<>> /\ Settled'.running = Head(Settled'.ready)
    BY DEF Scheduled, Headed
  <2> QED  BY <1>1, <1>2, <2>1
<1>8. order \in Abstract!SetToSeqs(due \cup ready)  BY <1>3, SameOrders
<1> QED  BY <1>6, <1>7, <1>8 DEF Abstract!EndQuantum, due, still

(* What joins the queue as a thread leaves, in the order in which it does. *)
LEMMA LeaversOrder ==
  ASSUME NEW s \in Globals, Leaving(s)
  PROVE  s.wakes[0] \o Leaver(s) \in SetToSeqs(ToSet(s.wakes[0]) \cup ToSet(Leaver(s)))
<1> DEFINE q == s.wakes[0]
           r == Leaver(s)
<1>1. q \in Seq(Tids) /\ IsInjective(q) /\ s.running \notin ToSet(q) /\ s.running \in Tids
  BY UThreadsAssumption DEF Leaving, AlarmsFrom, Globals, Delays
<1>2. r \in Seq(Tids) /\ IsInjective(r) /\ ToSet(r) \subseteq {s.running}
  <2>1. \A e : IsInjective(<<e>>) /\ ToSet(<<e>>) = {e} /\ IsInjective(<<>>) /\ ToSet(<<>>) = {}
    BY DEF IsInjective, ToSet
  <2> QED  BY <1>1, <2>1 DEF Leaver
<1> HIDE DEF q, r
<1>3. IsInjective(q \o r) /\ ToSet(q \o r) = ToSet(q) \cup ToSet(r)
  BY <1>1, <1>2, InjectiveConcat
<1>4. q \o r \in SetToSeqs(ToSet(q) \cup ToSet(r))
  <2>1. q \o r \in Seq(Tids)  BY <1>1, <1>2
  <2> QED  BY <1>3, <2>1, ListIsOrder
<1> QED  BY <1>4 DEF q, r

(* A switch from s, which is k but for what its thread has just asked for. *)
LEMMA SwitchEnds ==
  ASSUME ~Exited, ~Exited', Settled = k, k \in Globals, Scheduled(k),
         NEW s \in Globals, Leaving(s), Settled' = SwitchFrom(s),
         s.running = k.running, s.ready = k.ready, s.wakes[0] = k.wakes[0],
         NEW S \in SUBSET {k.running}, NEW n \in 1 .. MaxSleep,
         \A d \in 1 .. MaxSleep :
            ToSet(s.wakes[d]) = ToSet(k.wakes[d]) \cup (IF d = n THEN S ELSE {})
  PROVE  /\ Abstract!EndQuantum(ToSet(Leaver(s)), [t \in S |-> n])
         /\ Blocked' = BlockedIn(s)
<1> DEFINE z == Settled'
           order == k.wakes[0] \o Leaver(s)
           ready == ToSet(Leaver(s))
<1>1. /\ z \in Globals /\ Scheduled(z) /\ z.ready = Tail(k.ready) \o order
      /\ BlockedIn(z) = BlockedIn(s)
      /\ z.wakes = [d \in Delays |-> IF d < MaxSleep THEN s.wakes[d + 1] ELSE <<>>]
  BY SwitchEffect
<1>2. Shifted(z, k, S, n)
  <2> HIDE DEF z
  <2>1. ToSet(<<>>) = {}  BY DEF ToSet
  <2>2. ASSUME NEW d \in Delays
        PROVE  ToSet(z.wakes[d]) = (IF d < MaxSleep THEN ToSet(k.wakes[d + 1]) ELSE {})
                                   \cup (IF d = n - 1 THEN S ELSE {})
    <3>1. CASE d < MaxSleep
      <4>1. d + 1 \in 1 .. MaxSleep /\ (d + 1 = n <=> d = n - 1)
        BY <3>1, UThreadsAssumption DEF Delays
      <4>2. z.wakes[d] = s.wakes[d + 1]  BY <1>1, <3>1
      <4> QED  BY <3>1, <4>1, <4>2
    <3>2. CASE ~ (d < MaxSleep)
      <4>1. d # n - 1  BY <3>2, UThreadsAssumption DEF Delays
      <4> QED  BY <1>1, <2>1, <3>2, <4>1
    <3> QED  BY <3>1, <3>2
  <2> QED  BY <2>2 DEF Shifted
<1>3. order \in SetToSeqs(ToSet(k.wakes[0]) \cup ready)  BY LeaversOrder
<1>4. ready \in SUBSET {k.running}  BY DEF Leaver, ToSet
<1> HIDE DEF order, ready
<1>5. Abstract!EndQuantum(ready, [t \in S |-> n])
  BY <1>1, <1>2, <1>3, <1>4, QuantumEnds
<1>6. Blocked' = BlockedIn(s)  BY <1>1, ViewNext
<1> QED  BY <1>5, <1>6 DEF ready

-----------------------------------------------------------------------------
(* What a step of the library is to RoundRobin.  Same: as far as it sees,  *)
(* two records are the same.                                               *)
Same(z, s) ==
    /\ z.running = s.running /\ z.ready = s.ready
    /\ z.st = s.st /\ z.sleep = s.sleep /\ z.wakes = s.wakes

(* Nothing that RoundRobin sees has changed.                               *)
LEMMA SameView ==
  ASSUME ~Exited, ~Exited', Same(Settled', Settled)
  PROVE  UNCHANGED Abstract!vars
<1>1. /\ BlockedIn(Settled') = BlockedIn(Settled) /\ AsleepIn(Settled') = AsleepIn(Settled)
  BY DEF Same, BlockedIn, AsleepIn, SleepersIn, RemainingIn
<1>2. Exited' = Exited  BY DEF Exited
<1> QED  BY <1>1, <1>2, ViewNow, ViewNext DEF Same, Abstract!vars

(* What Settled is, by the place of the context that executes.             *)
LEMMA AtUser ==
  /\ cur.at \in {"user", "quantums", "jump"} => Settled = k
  /\ cur'.at \in {"user", "quantums", "jump"} => Settled' = k'
  /\ cur'.at = "save" => Settled' = SwitchFrom(k')
  BY DEF Settled, SwitchFrom

(* The function without arguments is the empty list.                       *)
LEMMA NoneAsleep == \A n : [t \in {} |-> n] = <<>>
  OBVIOUS

(* A state in which thread code runs.                                      *)
LEMMA ViewInside ==
  ASSUME ScheduleInv, k.status = "ok", cur.at \in {"user", "quantums"}
  PROVE  /\ k \in Globals /\ k.running \in Tids /\ Scheduled(k) /\ Settled = k /\ ~Exited
         /\ Turn = k.running /\ Queue = Tail(k.ready)
         /\ Blocked = BlockedIn(k) /\ Asleep = AsleepIn(k)
<1>1. k \in Globals /\ k.running \in Tids  BY DEF ScheduleInv, CallerInv, UThreadsTypeOK, Globals
<1>2. Scheduled(k)  BY DEF ScheduleInv, Ok, Phase
<1>3. Settled = k /\ ~Exited  BY AtUser DEF Exited
<1> QED  BY <1>1, <1>2, <1>3, ViewNow

(* A switch that the timer forces is Preempt.                              *)
LEMMA SchedulerAbstract ==
  ASSUME Rules, ScheduleInv, ScheduleInv', scheduler
  PROVE  Abstract!Next
<1>1. k.status = "ok" /\ cur.at \in {"user", "quantums"}
  <2>1. "switchSignal" \notin Allowed  BY DEF Rules
  <2> QED  BY <2>1 DEF scheduler, Interruptible, Ok
<1>2. k \in Globals /\ k.running \in Tids /\ Scheduled(k) /\ Settled = k /\ ~Exited
      /\ Turn = k.running /\ Blocked = BlockedIn(k)
  BY <1>1, ViewInside
<1>3. Leaving(k)
  <2>1. 0 \in 0 .. MaxSleep  BY UThreadsAssumption
  <2> QED  BY <1>2, <2>1 DEF Scheduled, Leaving, AlarmsFrom
<1>4. k' = SwitchFrom(k) /\ cur' = env'[k'.running]
  <2>1. Alive(k.running)  BY <1>2 DEF Scheduled, Alive
  <2> QED  BY <2>1 DEF scheduler, SwitchFrom, JumpTo
<1>5. k' \in Globals /\ Scheduled(k') /\ k'.status = "ok"
  BY <1>2, <1>3, <1>4, SwitchEffect DEF Scheduled, Headed
<1>6. cur'.at \in {"user", "quantums"}
  <2>1. \A t \in Tids : env'[t].at \in {"user", "quantums"}
    BY <1>5 DEF ScheduleInv, Ok, Saved
  <2> QED  BY <1>4, <1>5, <2>1 DEF Globals
<1>7. Settled' = SwitchFrom(k) /\ ~Exited'  BY <1>4, <1>5, <1>6, AtUser DEF Exited
<1>8. Abstract!EndQuantum(ToSet(Leaver(k)), [t \in {} |-> 1]) /\ Blocked' = Blocked
  <2>1. 1 \in 1 .. MaxSleep  BY UThreadsAssumption
  <2>2. \A d \in 1 .. MaxSleep :
            ToSet(k.wakes[d]) = ToSet(k.wakes[d]) \cup (IF d = 1 THEN {} ELSE {})
    OBVIOUS
  <2> QED  BY <1>2, <1>3, <1>7, <2>1, <2>2, SwitchEnds
<1>9. ToSet(Leaver(k)) = {Turn}
  BY <1>2 DEF Leaver, Scheduled, ToSet
<1>10. Abstract!Preempt /\ Exited' = Exited
  <2>1. Abstract!EndQuantum({Turn}, <<>>)  BY <1>8, <1>9, NoneAsleep
  <2> QED  BY <1>2, <1>7, <1>8, <2>1 DEF Abstract!Preempt, Exited
<1> QED  BY <1>2, <1>10 DEF Abstract!Next, Abstract!Step

(* The steps of a voluntary switch change nothing: it was done when it     *)
(* began.                                                                  *)
LEMMA SwitchAbstract ==
  ASSUME Rules, ScheduleInv, ScheduleInv', move_to_next_thread
  PROVE  UNCHANGED Abstract!vars
<1>0. /\ k \in Globals /\ cur \in Contexts /\ k.status = "ok" /\ ~Exited
      /\ Phase /\ Saved /\ env \in [Tids -> Contexts] /\ k.running \in Tids
  BY DEF move_to_next_thread, Save, Handle, Run, Jump, Ok, Exited, ScheduleInv, CallerInv,
         UThreadsTypeOK, Globals
<1>1. ASSUME Settled' = Settled, k'.status # "exit"  PROVE UNCHANGED Abstract!vars
  BY <1>0, <1>1, SameView DEF Same, Exited
<1>2. \A place : Goto(place) => cur'.at = place  BY <1>0 DEF Goto, Contexts
<1>3. CASE Save
  <2>1. cur.at = "save" /\ cur'.at = "wake" /\ k' = k  BY <1>2, <1>3 DEF Save
  <2> QED  BY <1>0, <1>1, <2>1 DEF Settled
<1>4. CASE Handle("wake", wake_threads(k), "count")
  <2>1. cur.at = "wake" /\ cur'.at = "count" /\ k' = wake_threads(k)  BY <1>2, <1>4 DEF Handle
  <2>2. Woken(k')  BY <1>0, <2>1, WakeKeeps DEF Phase
  <2>3. Settled' = Settled  BY <2>1 DEF Settled, handle_new_quantum
  <2> QED  BY <1>1, <2>2, <2>3 DEF Woken, Headed
<1>5. CASE Handle("count", count_quantum(k), "pop")
  <2>1. cur.at = "count" /\ cur'.at = "pop" /\ k' = count_quantum(k)  BY <1>2, <1>5 DEF Handle
  <2>2. Counted(k')  BY <1>0, <2>1, CountKeeps DEF Phase
  <2>3. Settled' = Settled  BY <2>1 DEF Settled
  <2> QED  BY <1>1, <2>2, <2>3 DEF Counted, Headed
<1>6. CASE Handle("pop", pop_exiting(k), "run")
  <2>1. cur.at = "pop" /\ cur'.at = "run" /\ k' = pop_exiting(k)  BY <1>2, <1>6 DEF Handle
  <2>2. Popped(k')  BY <1>0, <2>1, PopKeeps DEF Phase
  <2>3. Settled' = Settled  BY <2>1 DEF Settled
  <2> QED  BY <1>1, <2>2, <2>3 DEF Popped
<1>7. CASE Run
  <2>1. cur.at = "run" /\ cur'.at = "jump" /\ k' = run_new_thread(k)
    BY <1>0, <1>7 DEF Run, Contexts
  <2>2. Scheduled(k')  BY <1>0, <2>1, RunKeeps DEF Phase
  <2>3. Settled' = Settled  BY <2>1 DEF Settled
  <2> QED  BY <1>1, <2>2, <2>3 DEF Scheduled, Headed
<1>8. CASE Jump
  <2>1. cur.at = "jump" /\ Scheduled(k) /\ cur.local = k.running
    BY <1>0, <1>8 DEF Jump, Phase, ScheduleInv, CallerInv, LeadsTo
  <2>2. Alive(cur.local)  BY <2>1 DEF Scheduled, Alive
  <2>3. k' = k /\ cur' = env[k.running]  BY <1>8, <2>1, <2>2 DEF Jump, JumpTo
  <2>4. cur'.at \in {"user", "quantums"}  BY <1>0, <2>3 DEF Saved
  <2>5. Settled' = Settled  BY <2>1, <2>3, <2>4, AtUser
  <2> QED  BY <1>0, <1>1, <2>3, <2>5
<1> QED  BY <1>3, <1>4, <1>5, <1>6, <1>7, <1>8 DEF move_to_next_thread

(* Reading the counter is nothing to RoundRobin, even if it fails.         *)
LEMMA ReadQuantumsAbstract ==
  ASSUME ScheduleInv, ReadQuantums
  PROVE  UNCHANGED Abstract!vars
<1>1. /\ k.status = "ok" /\ cur.at = "quantums" /\ cur \in Contexts
      /\ k' = k \/ k' = Fault(k, "nullSlot")
  BY DEF ReadQuantums, Ok, ScheduleInv, CallerInv, UThreadsTypeOK
<1>2. cur'.at = "user"  BY <1>1 DEF ReadQuantums, Goto, Contexts
<1>3. k \in Globals /\ Settled = k /\ ~Exited  BY <1>1, ViewInside
<1>4. Same(k', k) /\ k'.status # "exit"  BY <1>1, <1>3 DEF Same, Fault, Globals
<1> QED  BY <1>2, <1>3, <1>4, AtUser, SameView DEF Exited

-----------------------------------------------------------------------------
(* RoundRobin's copies of the operators on lists.                          *)
LEMMA SameLists ==
  /\ \A q : Abstract!ToSet(q) = ToSet(q)
  /\ \A q, e : Abstract!RemoveFirst(q, e) = RemoveFirst(q, e)
<1>1. \A q : Abstract!ToSet(q) = ToSet(q)  BY DEF Abstract!ToSet, ToSet
<1>2. \A q, e : Abstract!RemoveFirst(q, e) = RemoveFirst(q, e)
  BY DEF Abstract!RemoveFirst, RemoveFirst, Abstract!RemoveAt, RemoveAt,
         Abstract!SelectInSeq, SelectInSeq, Abstract!Min, Min
<1> QED  BY <1>1, <1>2

(* The queue is the list but the running thread.                           *)
LEMMA QueueElements ==
  ASSUME NEW s \in Globals, Scheduled(s)
  PROVE  /\ s.ready \in Seq(Tids) /\ s.ready # <<>> /\ IsInjective(s.ready)
         /\ Head(s.ready) = s.running
         /\ Tail(s.ready) \in Seq(Tids)
         /\ ToSet(Tail(s.ready)) = {t \in Tids : Awake(s, t)}
<1>1. s.ready \in Seq(Tids) /\ s.ready # <<>> /\ IsInjective(s.ready) /\ Head(s.ready) = s.running
  BY DEF Globals, Scheduled, Headed
<1>2. Tail(s.ready) \in Seq(Tids)  BY <1>1, HeadTailProperties
<1>3. ToSet(Tail(s.ready)) = ToSet(s.ready) \ {s.running}  BY <1>1, InjectiveTail
<1> QED  BY <1>1, <1>2, <1>3 DEF Scheduled, Headed, Awake

(* Threads whose sleep and alarms are left alone sleep as they did.        *)
LEMMA SameSleepers ==
  ASSUME NEW s, NEW z, z.wakes = s.wakes, SleepersIn(z) = SleepersIn(s)
  PROVE  AsleepIn(z) = AsleepIn(s)
<1>1. \A t : RemainingIn(z, t) = RemainingIn(s, t)  BY DEF RemainingIn
<1> QED  BY <1>1 DEF AsleepIn

(* A thread that joins the list joins the queue.                           *)
LEMMA JoinsAbstract ==
  ASSUME ScheduleInv, InUser, NEW t \in Tids, t # k.running, ~k.sleep[t], Joins(t),
         k.st[t] \in {"free", "BLOCKED"}, UNCHANGED cur
  PROVE  /\ Queue' = Append(Queue, t) /\ UNCHANGED <<Turn, Asleep, Exited>> /\ ~Exited
         /\ Blocked' = Blocked \ {t}
<1>1. k.status = "ok" /\ cur.at = "user" /\ k.st \in [Tids -> States]
  BY InsideCall DEF Globals, States
<1>2. /\ k \in Globals /\ Scheduled(k) /\ ~Exited
      /\ Turn = k.running /\ Queue = Tail(k.ready)
      /\ Blocked = BlockedIn(k) /\ Asleep = AsleepIn(k)
  BY <1>1, ViewInside
<1>3. /\ k'.running = k.running /\ k'.status = "ok" /\ k'.st = [k.st EXCEPT ![t] = "READY"]
      /\ k'.sleep = k.sleep /\ k'.wakes = k.wakes /\ k'.ready = Append(k.ready, t)
  BY <1>1 DEF Joins, Changes, SameTurn
<1>4. Settled' = k' /\ ~Exited'  BY <1>1, <1>3, AtUser DEF Exited
<1>5. /\ Turn' = k'.running /\ Queue' = Tail(k'.ready)
      /\ Blocked' = BlockedIn(k') /\ Asleep' = AsleepIn(k')
  BY <1>4, ViewNext
<1>6. \A u \in Tids : k'.st[u] = IF u = t THEN "READY" ELSE k.st[u]  BY <1>1, <1>3
<1>7. BlockedIn(k') = BlockedIn(k) \ {t}  BY <1>6 DEF BlockedIn
<1>8. AsleepIn(k') = AsleepIn(k)
  <2>1. SleepersIn(k') = SleepersIn(k)  BY <1>3, <1>6 DEF SleepersIn
  <2> QED  BY <1>3, <2>1, SameSleepers
<1>9. Tail(Append(k.ready, t)) = Append(Tail(k.ready), t)
  <2> DEFINE q == k.ready
  <2>1. q \in Seq(Tids) /\ q # <<>>  BY <1>2, QueueElements
  <2> HIDE DEF q
  <2>2. Tail(Append(q, t)) = Append(Tail(q), t)  BY <2>1
  <2> QED  BY <2>2 DEF q
<1> QED  BY <1>2, <1>3, <1>4, <1>5, <1>7, <1>8, <1>9 DEF Exited

(* A new thread takes an id that is not in use.                            *)
LEMMA SpawnAbstract ==
  ASSUME ScheduleInv, uthread_spawn
  PROVE  Abstract!Next
<1>1. InUser  BY DEF uthread_spawn
<1>2. k \in Globals /\ Scheduled(k) /\ k.status = "ok" /\ cur.at = "user"  BY <1>1, InsideCall
<1>3. PICK t \in Tids : k.st[t] = "free" /\ t # k.running /\ ~k.sleep[t] /\ Joins(t)
  BY SpawnEffect
<1>4. /\ Queue' = Append(Queue, t) /\ UNCHANGED <<Turn, Asleep, Exited>> /\ ~Exited
      /\ Blocked' = Blocked \ {t}
  BY <1>1, <1>3, SpawnEffect, JoinsAbstract
<1>5. /\ Turn = k.running /\ Queue = Tail(k.ready) /\ Blocked = BlockedIn(k)
      /\ DOMAIN Asleep = SleepersIn(k)
  BY <1>2, ViewInside DEF AsleepIn
<1>6. t \notin Abstract!Used
  <2>1. t \notin ToSet(Queue)  BY <1>2, <1>3, <1>5, QueueElements DEF Awake
  <2>2. t \notin Blocked /\ t \notin DOMAIN Asleep  BY <1>3, <1>5 DEF BlockedIn, SleepersIn
  <2> QED  BY <1>3, <1>5, <2>1, <2>2, SameLists DEF Abstract!Used
<1>7. Blocked' = Blocked  BY <1>3, <1>4, <1>5 DEF BlockedIn
<1> QED  BY <1>4, <1>6, <1>7 DEF Abstract!Next, Abstract!Step, Abstract!Spawn

(* Resuming is Resume, or nothing if the thread is not blocked.            *)
LEMMA ResumeAbstract ==
  ASSUME ScheduleInv, NEW t \in Tids, uthread_resume(t)
  PROVE  [Abstract!Next]_(Abstract!vars)
<1>1. InUser  BY DEF uthread_resume
<1>2. k \in Globals /\ Scheduled(k) /\ k.status = "ok" /\ cur.at = "user"  BY <1>1, InsideCall
<1>3. UNCHANGED cur /\ (k' = k \/ (k.st[t] = "BLOCKED" /\ Joins(t)))  BY ResumeEffect
<1>4. CASE k' = k
  <2>1. Settled = k /\ Settled' = k /\ ~Exited /\ ~Exited'
    BY <1>2, <1>3, <1>4, AtUser DEF Exited
  <2> QED  BY <2>1, SameView DEF Same
<1>5. CASE k.st[t] = "BLOCKED" /\ Joins(t)
  <2>1. t # k.running /\ ~k.sleep[t]  BY <1>2, <1>5 DEF Scheduled, Headed
  <2>2. /\ Queue' = Append(Queue, t) /\ UNCHANGED <<Turn, Asleep, Exited>> /\ ~Exited
        /\ Blocked' = Blocked \ {t}
    BY <1>1, <1>3, <1>5, <2>1, JoinsAbstract
  <2>3. t \in Blocked
    <3>1. Blocked = BlockedIn(k)  BY <1>2, ViewInside
    <3> QED  BY <1>5, <3>1 DEF BlockedIn
  <2> QED  BY <2>2, <2>3 DEF Abstract!Next, Abstract!Step, Abstract!Resume
<1> QED  BY <1>3, <1>4, <1>5

(* A thread that is terminated is in the queue or blocked, and leaves it.  *)
LEMMA TerminateOtherAbstract ==
  ASSUME Rules, ScheduleInv, NEW t \in Tids, TerminateOther(t)
  PROVE  Abstract!Next
<1>1. InUser  BY DEF TerminateOther
<1>2. /\ k \in Globals /\ Scheduled(k) /\ k.status = "ok" /\ cur.at = "user"
      /\ k.st \in [Tids -> States]
  BY <1>1, InsideCall DEF Globals, States
<1>3. cur' = cur /\ t # k.running /\ t # 0 /\ ~k.sleep[t] /\ Removes(t) /\ k.st[t] # "free"
  BY TerminateOtherEffect
<1>4. /\ ~Exited /\ Turn = k.running /\ Queue = Tail(k.ready)
      /\ Blocked = BlockedIn(k) /\ Asleep = AsleepIn(k)
  BY <1>2, ViewInside
<1>5. /\ k'.running = k.running /\ k'.status = "ok" /\ k'.st = [k.st EXCEPT ![t] = "free"]
      /\ k'.sleep = k.sleep /\ k'.wakes = k.wakes
      /\ k'.ready = IF k.st[t] = "READY" THEN RemoveFirst(k.ready, t) ELSE k.ready
  BY <1>2, <1>3 DEF Removes, Changes, SameTurn
<1>6. Settled' = k' /\ ~Exited'  BY <1>2, <1>3, <1>5, AtUser DEF Exited
<1>7. /\ Turn' = k'.running /\ Queue' = Tail(k'.ready)
      /\ Blocked' = BlockedIn(k') /\ Asleep' = AsleepIn(k')
  BY <1>6, ViewNext
<1>8. \A u \in Tids : k'.st[u] = IF u = t THEN "free" ELSE k.st[u]  BY <1>2, <1>5
<1>9. Queue' = RemoveFirst(Queue, t)
  <2>1. CASE k.st[t] = "READY"
    <3> DEFINE q == k.ready
    <3>1. q \in Seq(Tids) /\ IsInjective(q) /\ q # <<>> /\ Head(q) # t
      BY <1>2, <1>3, QueueElements
    <3>2. Queue = Tail(q) /\ Queue' = Tail(RemoveFirst(q, t))  BY <1>4, <1>5, <1>7, <2>1
    <3> HIDE DEF q
    <3> QED  BY <3>1, <3>2, RemoveFromTail
  <2>2. CASE k.st[t] # "READY"
    <3> DEFINE q == Tail(k.ready)
    <3>1. q \in Seq(Tids) /\ t \notin ToSet(q)  BY <1>2, <2>2, QueueElements DEF Awake
    <3> HIDE DEF q
    <3>2. RemoveFirst(q, t) = q
      <4>1. \A i \in 1 .. Len(q) : q[i] # t  BY <3>1, ListElements
      <4> QED  BY <4>1 DEF RemoveFirst
    <3> QED  BY <1>4, <1>5, <1>7, <2>2, <3>2 DEF q
  <2> QED  BY <2>1, <2>2
<1>10. Blocked' = Blocked \ {t}  BY <1>4, <1>7, <1>8 DEF BlockedIn
<1>11. Asleep' = Asleep /\ t \notin DOMAIN Asleep
  <2>1. SleepersIn(k') = SleepersIn(k) /\ t \notin SleepersIn(k)
    BY <1>3, <1>5, <1>8 DEF SleepersIn
  <2>2. AsleepIn(k') = AsleepIn(k)  BY <1>5, <2>1, SameSleepers
  <2> QED  BY <1>4, <1>7, <2>1, <2>2 DEF AsleepIn
<1>12. Asleep' = [u \in DOMAIN Asleep \ {t} |-> Asleep[u]]
  <2>1. DOMAIN Asleep \ {t} = DOMAIN Asleep  BY <1>11
  <2>2. Asleep = [u \in DOMAIN Asleep |-> Asleep[u]]  BY <1>4 DEF AsleepIn
  <2> QED  BY <1>11, <2>1, <2>2
<1>13. Abstract!TerminateOther(t)
  BY <1>3, <1>4, <1>5, <1>7, <1>9, <1>10, <1>12, SameLists DEF Abstract!TerminateOther
<1> QED  BY <1>3, <1>4, <1>6, <1>13 DEF Abstract!Next, Abstract!Step, Exited

(* The running thread ends: no sleeper is due, and the queue moves up.     *)
LEMMA TerminateSelfAbstract ==
  ASSUME Rules, ScheduleInv, NEW t \in Tids, TerminateSelf(t)
  PROVE  Abstract!Next
<1>1. InUser  BY DEF TerminateSelf
<1>2. /\ k \in Globals /\ Scheduled(k) /\ k.status = "ok" /\ cur.at = "user"
      /\ k.st \in [Tids -> States] /\ k.wakes \in [Delays -> Seq(Tids)]
  BY <1>1, InsideCall DEF Globals, States
<1>3. /\ t = k.running /\ t # 0 /\ k.wakes[0] = <<>>
      /\ Ended(k) \in Globals /\ Popped(Ended(k)) /\ k' = run_new_thread(Ended(k))
      /\ cur'.at = "jump"
  BY TerminateSelfEffect
<1>4. /\ ~Exited /\ Settled = k /\ Turn = k.running /\ Blocked = BlockedIn(k)
  BY <1>2, ViewInside
<1>5. k' \in Globals /\ Scheduled(k') /\ k'.status = "ok" /\ Settled' = k' /\ ~Exited'
  <2>1. k' \in Globals /\ Scheduled(k')  BY <1>3, RunType, RunKeeps
  <2> QED  BY <1>3, <2>1, AtUser DEF Scheduled, Headed, Exited
<1> DEFINE p == Ended(k)
<1>6. /\ p.ready = Tail(k.ready) /\ p.st = [k.st EXCEPT ![t] = "free"]
      /\ p.wakes = [d \in Delays |-> IF d < MaxSleep THEN k.wakes[d + 1] ELSE <<>>]
  <2>1. count_quantum(k).wakes = [d \in Delays |-> IF d < MaxSleep THEN k.wakes[d + 1] ELSE <<>>]
    BY <1>2 DEF count_quantum, Globals
  <2> QED  BY <1>2, <1>3, <2>1, ExitEffect
<1>7. /\ k'.ready = p.ready /\ k'.wakes = p.wakes
      /\ k'.st = [p.st EXCEPT ![Head(p.ready)] = "RUNNING"]
      /\ Awake(p, Head(p.ready)) /\ Head(p.ready) \in Tids /\ p.st \in [Tids -> States]
  BY <1>3, RunEffect DEF Globals, States
<1> HIDE DEF p
<1>8. ToSet(<<>>) = {} /\ IsInjective(<<>>) /\ <<>> \in Seq(Tids)  BY DEF ToSet, IsInjective
<1>9. Shifted(Settled', k, {}, 1)
  <2>1. \A d \in Delays : k'.wakes[d] = IF d < MaxSleep THEN k.wakes[d + 1] ELSE <<>>
    BY <1>6, <1>7
  <2> QED  BY <1>5, <1>8, <2>1 DEF Shifted
<1>10. <<>> \in SetToSeqs(ToSet(k.wakes[0]) \cup {})
  <2>1. <<>> \in SetToSeqs({})  BY <1>8, ListIsOrder
  <2>2. ToSet(k.wakes[0]) \cup {} = {}  BY <1>3, <1>8
  <2> QED  BY <2>1, <2>2
<1>11. Settled'.ready = Tail(k.ready) \o <<>>
  <2> DEFINE q == Tail(k.ready)
  <2>1. q \in Seq(Tids)  BY <1>2, QueueElements
  <2> HIDE DEF q
  <2>2. q \o <<>> = q  BY <2>1
  <2> QED  BY <1>5, <1>6, <1>7, <2>2 DEF q
<1>12. Abstract!EndQuantum({}, [u \in {} |-> 1])
  <2>1. 1 \in 1 .. MaxSleep  BY UThreadsAssumption
  <2> QED  BY <1>2, <1>4, <1>5, <1>9, <1>10, <1>11, <2>1, QuantumEnds
<1>13. Blocked' = Blocked
  <2>1. \A u \in Tids : k'.st[u] = "BLOCKED" <=> k.st[u] = "BLOCKED"
    <3>1. \A u \in Tids : p.st[u] = "BLOCKED" <=> k.st[u] = "BLOCKED"
      BY <1>2, <1>3, <1>6 DEF Scheduled
    <3> QED  BY <1>7, <3>1 DEF Awake
  <2>2. Blocked' = BlockedIn(k')  BY <1>5, ViewNext
  <2> QED  BY <1>4, <2>1, <2>2 DEF BlockedIn
<1>14. Abstract!TerminateSelf
  BY <1>3, <1>4, <1>12, <1>13, NoneAsleep DEF Abstract!TerminateSelf
<1> QED  BY <1>4, <1>5, <1>14 DEF Abstract!Next, Abstract!Step, Exited

(* As a thread begins to block, the switch counts as done.                 *)
LEMMA BlockSelfAbstract ==
  ASSUME Rules, ScheduleInv, ScheduleInv', NEW t \in Tids, BlockSelf(t)
  PROVE  Abstract!Next
<1>1. InUser  BY DEF BlockSelf
<1>2. /\ k \in Globals /\ Scheduled(k) /\ k.status = "ok" /\ cur.at = "user"
      /\ k.st \in [Tids -> States]
  BY <1>1, InsideCall DEF Globals, States
<1>3. t = k.running /\ t # 0 /\ cur'.at = "save" /\ Blocks(t)  BY BlockSelfEffect
<1>4. ~Exited /\ Settled = k /\ Turn = k.running /\ Blocked = BlockedIn(k)
  BY <1>2, ViewInside
<1>5. /\ k'.running = k.running /\ k'.status = "ok" /\ k'.st = [k.st EXCEPT ![t] = "BLOCKED"]
      /\ k'.sleep = k.sleep /\ k'.wakes = k.wakes /\ k'.ready = k.ready
  BY <1>2, <1>3 DEF Blocks, Changes, SameTurn
<1>6. k' \in Globals /\ Leaving(k') /\ Settled' = SwitchFrom(k') /\ ~Exited'
  <2>1. k' \in Globals  BY DEF ScheduleInv, CallerInv, UThreadsTypeOK
  <2>2. Leaving(k')  BY <1>3, <1>5 DEF ScheduleInv, Ok, Phase
  <2> QED  BY <1>3, <1>5, <2>1, <2>2, AtUser DEF Exited
<1>7. \A u \in Tids : k'.st[u] = IF u = t THEN "BLOCKED" ELSE k.st[u]  BY <1>2, <1>5
<1>8. Abstract!EndQuantum(ToSet(Leaver(k')), [u \in {} |-> 1]) /\ Blocked' = BlockedIn(k')
  <2>1. 1 \in 1 .. MaxSleep  BY UThreadsAssumption
  <2>2. \A d \in 1 .. MaxSleep :
            ToSet(k'.wakes[d]) = ToSet(k.wakes[d]) \cup (IF d = 1 THEN {} ELSE {})
    BY <1>5
  <2> QED  BY <1>2, <1>4, <1>5, <1>6, <2>1, <2>2, SwitchEnds
<1>9. ToSet(Leaver(k')) = {}  BY <1>3, <1>5, <1>7 DEF Leaver, ToSet
<1>10. Blocked' = Blocked \cup {Turn}  BY <1>3, <1>4, <1>7, <1>8 DEF BlockedIn
<1>11. Abstract!BlockSelf
  BY <1>3, <1>4, <1>8, <1>9, <1>10, NoneAsleep DEF Abstract!BlockSelf
<1> QED  BY <1>4, <1>6, <1>11 DEF Abstract!Next, Abstract!Step, Exited

(* So it does as a thread goes to sleep, for as long as it asked.          *)
LEMMA SleepAbstract ==
  ASSUME Rules, ScheduleInv, ScheduleInv', NEW n \in 1 .. MaxSleep, uthread_sleep(n)
  PROVE  Abstract!Next
<1>1. InUser  BY DEF uthread_sleep
<1>2. /\ k \in Globals /\ Scheduled(k) /\ k.status = "ok" /\ cur.at = "user" /\ k.running \in Tids
      /\ k.sleep \in [Tids -> BOOLEAN] /\ k.wakes \in [Delays -> Seq(Tids)]
  BY <1>1, InsideCall DEF Globals
<1>3. k.running # 0 /\ cur'.at = "save" /\ Sleeps(n)  BY SleepEffect
<1>4. ~Exited /\ Settled = k /\ Turn = k.running /\ Blocked = BlockedIn(k)
  BY <1>2, ViewInside
<1>5. /\ k'.running = k.running /\ k'.status = "ok" /\ k'.st = k.st /\ k'.ready = k.ready
      /\ k'.sleep = [k.sleep EXCEPT ![k.running] = TRUE]
      /\ k'.wakes = [k.wakes EXCEPT ![n] = Append(@, k.running)]
  BY <1>2, <1>3 DEF Sleeps, Changes, SameTurn
<1>6. k' \in Globals /\ Leaving(k') /\ Settled' = SwitchFrom(k') /\ ~Exited'
  <2>1. k' \in Globals  BY DEF ScheduleInv, CallerInv, UThreadsTypeOK
  <2>2. Leaving(k')  BY <1>3, <1>5 DEF ScheduleInv, Ok, Phase
  <2> QED  BY <1>3, <1>5, <2>1, <2>2, AtUser DEF Exited
<1>7. /\ k'.wakes[0] = k.wakes[0]
      /\ \A d \in 1 .. MaxSleep :
            ToSet(k'.wakes[d]) = ToSet(k.wakes[d]) \cup (IF d = n THEN {k.running} ELSE {})
  <2>1. 0 \in Delays /\ n \in Delays /\ n # 0 /\ \A d \in 1 .. MaxSleep : d \in Delays
    BY UThreadsAssumption DEF Delays
  <2>2. \A d \in Delays : k'.wakes[d] = IF d = n THEN Append(k.wakes[n], k.running) ELSE k.wakes[d]
    BY <1>2, <1>5, <2>1
  <2>3. ToSet(Append(k.wakes[n], k.running)) = ToSet(k.wakes[n]) \cup {k.running}
    BY <1>2, <2>1, AppendElements
  <2> QED  BY <2>1, <2>2, <2>3
<1>8. Abstract!EndQuantum(ToSet(Leaver(k')), [u \in {k.running} |-> n]) /\ Blocked' = BlockedIn(k')
  <2> DEFINE S == {k.running}
  <2>1. S \in SUBSET {k.running}  OBVIOUS
  <2>2. /\ k'.running = k.running /\ k'.ready = k.ready /\ k'.wakes[0] = k.wakes[0]
        /\ \A d \in 1 .. MaxSleep :
              ToSet(k'.wakes[d]) = ToSet(k.wakes[d]) \cup (IF d = n THEN S ELSE {})
    BY <1>5, <1>7
  <2> HIDE DEF S
  <2>3. Abstract!EndQuantum(ToSet(Leaver(k')), [u \in S |-> n]) /\ Blocked' = BlockedIn(k')
    BY <1>2, <1>4, <1>6, <2>1, <2>2, SwitchEnds
  <2> QED  BY <2>3 DEF S
<1>9. ToSet(Leaver(k')) = {}  BY <1>2, <1>5 DEF Leaver, ToSet
<1>10. Blocked' = Blocked  BY <1>4, <1>5, <1>8 DEF BlockedIn
<1>11. Abstract!Sleep(n)
  BY <1>3, <1>4, <1>8, <1>9, <1>10 DEF Abstract!Sleep
<1> QED  BY <1>4, <1>6, <1>11 DEF Abstract!Next, Abstract!Step, Exited

(* Ending the main thread ends everything.                                 *)
LEMMA TerminateMainAbstract ==
  ASSUME ScheduleInv, TerminateMain
  PROVE  Abstract!Next
<1>1. InUser  BY DEF TerminateMain
<1>2. k \in Globals /\ k.status = "ok"  BY <1>1, InsideCall
<1>3. ~Exited /\ Exited'  BY <1>2 DEF TerminateMain, Exited, Globals
<1>4. Turn' = 0 /\ Queue' = <<>> /\ Blocked' = {} /\ Sleepers' = {}
  BY <1>3 DEF Turn, Queue, Blocked, Sleepers
<1>5. Asleep' = <<>>
  <2>1. Asleep' = [t \in {} |-> RemainingQuantums(t)']  BY <1>4 DEF Asleep
  <2> QED  BY <2>1
<1> QED  BY <1>3, <1>4, <1>5 DEF Abstract!Next, Abstract!TerminateMain

(* A call that fails, or only asks.                                        *)
LEMMA QuietAbstract ==
  ASSUME ScheduleInv, InUser, Same(k', k), k'.status # "exit", cur'.at \in {"user", "quantums"}
  PROVE  UNCHANGED Abstract!vars
<1>1. k.status = "ok" /\ cur.at = "user"  BY InsideCall
<1>2. Settled = k /\ Settled' = k'  BY <1>1, AtUser
<1> QED  BY <1>1, <1>2, SameView DEF Exited

(* Every call is a step of RoundRobin or changes nothing of it.            *)
LEMMA CallsAbstract ==
  ASSUME Rules, ScheduleInv, ScheduleInv', LibraryCall
  PROVE  [Abstract!Next]_(Abstract!vars)
<1>0. /\ InUser /\ k \in Globals /\ cur \in Contexts /\ k.status = "ok" /\ cur.at = "user"
      /\ Scheduled(k)
  BY CallsAreUser, InsideCall
<1>a. ASSUME ReturnMasked  PROVE UNCHANGED Abstract!vars
  BY <1>0, <1>a, QuietAbstract DEF ReturnMasked, Same
<1>1. CASE SpawnFails \/ SleepFails \/ \E t \in Tids : ResumeMissing(t) \/ QuantumsMissing(t)
  BY <1>1, <1>a DEF SpawnFails, SleepFails, ResumeMissing, QuantumsMissing
<1>2. CASE OutOfRange
  <2>1. k' = Fault(k, "outOfBounds") /\ cur' = cur  BY <1>2 DEF OutOfRange
  <2>2. Same(k', k) /\ k'.status = "outOfBounds"  BY <1>0, <2>1 DEF Fault, Same, Globals
  <2> QED  BY <1>0, <2>1, <2>2, QuietAbstract
<1>3. ASSUME NEW t \in Tids, BlockOther(t)  PROVE UNCHANGED Abstract!vars
  <2>1. k.st[t] # "RUNNING"  BY <1>0, <1>3 DEF BlockOther, Scheduled, Headed
  <2> QED  BY <1>3, <1>a, <2>1 DEF BlockOther
<1>4. ASSUME NEW t \in Tids, uthread_get_quantums(t)  PROVE UNCHANGED Abstract!vars
  <2>1. k' = k /\ cur'.at = "quantums"  BY <1>0, <1>4 DEF uthread_get_quantums, Contexts
  <2> QED  BY <1>0, <2>1, QuietAbstract DEF Same
<1> QED
  BY <1>1, <1>2, <1>3, <1>4, SpawnAbstract, ResumeAbstract, TerminateMainAbstract,
     TerminateSelfAbstract, TerminateOtherAbstract, BlockSelfAbstract, SleepAbstract
  DEF LibraryCall

(* For every program within the rules, the scheduler implements            *)
(* RoundRobin: threads take turns in the order in which they became ready  *)
(* and sleep as long as they asked to.                                     *)
THEOREM RoundRobinImplemented == ASSUME Rules  PROVE Spec => ImplementsRoundRobin
<1>1. Init => Abstract!Init
  <2> SUFFICES ASSUME Init  PROVE Abstract!Init  OBVIOUS
  <2>0. 0 \in Tids  BY UThreadsAssumption DEF Tids
  <2>1. /\ k.st = [t \in Tids |-> IF t = 0 THEN "RUNNING" ELSE "free"] /\ k.running = 0
        /\ k.sleep = [t \in Tids |-> FALSE] /\ k.ready = <<0>> /\ k.status = "ok"
    BY <2>0 DEF Init, MainThread, Initialisers
  <2>2. cur.at = "user"  BY DEF Init, Entry, Context
  <2>3. Settled = k /\ ~Exited  BY <2>1, <2>2, AtUser DEF Exited
  <2>4. Turn = 0 /\ Queue = <<>>
    <3>1. Tail(<<0>>) = <<>>  OBVIOUS
    <3> QED  BY <2>1, <2>3, <3>1 DEF Turn, Queue
  <2>5. Blocked = {} /\ Sleepers = {}  BY <2>1, <2>3 DEF Blocked, Sleepers
  <2>6. Asleep = <<>>
    <3>1. Asleep = [t \in {} |-> RemainingQuantums(t)]  BY <2>5 DEF Asleep
    <3> QED  BY <3>1
  <2> QED  BY <2>3, <2>4, <2>5, <2>6 DEF Abstract!Init
<1>2. ScheduleInv /\ ScheduleInv' /\ [Next]_vars => [Abstract!Next]_(Abstract!vars)
  <2> SUFFICES ASSUME ScheduleInv, ScheduleInv', Next \/ UNCHANGED vars
               PROVE  [Abstract!Next]_(Abstract!vars)
    OBVIOUS
  <2>1. CASE UNCHANGED vars \/ Stopped
    <3>1. UNCHANGED <<k, cur>>  BY <2>1 DEF Stopped, vars
    <3>2. Settled' = Settled /\ Exited' = Exited  BY <3>1 DEF Settled, Exited
    <3> QED
      BY <3>2 DEF Turn, Queue, Blocked, Sleepers, RemainingQuantums, Asleep, Abstract!vars
  <2> QED
    BY <2>1, SchedulerAbstract, SwitchAbstract, ReadQuantumsAbstract, CallsAbstract DEF Next
<1>3. Spec => []ScheduleInv  BY ScheduleInvHolds
<1> QED  BY <1>1, <1>2, <1>3, PTL DEF Spec, ImplementsRoundRobin, Abstract!Spec

-----------------------------------------------------------------------------
(* How the turn passes: who waits first runs next, the others move up one  *)
(* place, and each sleeper has one quantum less to sleep or is ready.      *)
TurnPasses ==
    /\ Queue # <<>> =>
          Turn' = Head(Queue) /\ \A i \in 1 .. Len(Queue) - 1 : Queue'[i] = Queue[i + 1]
    /\ \A t \in DOMAIN Asleep :
          IF Asleep[t] = 1 THEN t \in {Turn'} \cup ToSet(Queue')
          ELSE t \in DOMAIN Asleep' /\ Asleep'[t] = Asleep[t] - 1

(* Or the same thread goes on, and those that keep waiting stay in order.  *)
TurnKept ==
    /\ Turn' = Turn
    /\ \A i \in DOMAIN Queue :
          \/ \E j \in 1 .. i : j \in DOMAIN Queue' /\ Queue'[j] = Queue[i]
          \/ Queue' = RemoveFirst(Queue, Queue[i])
    /\ \A t \in DOMAIN Asleep' : t \in DOMAIN Asleep /\ Asleep'[t] = Asleep[t]

(* No step lets a thread pass one that has waited longer                   *)
(* (uthreads.cpp:105-155): whoever waits moves up when a turn ends, and    *)
(* leaves the queue before its turn only by a call that takes it out.      *)
NobodyIsOvertaken == [][Exited' \/ TurnPasses \/ TurnKept]_<<Turn, Queue, Asleep>>

QueueTypeOK ==
    Turn \in Tids /\ Queue \in Seq(Tids) /\ Blocked \subseteq Tids /\ DOMAIN Asleep \subseteq Tids

LEMMA TidsFinite == IsFiniteSet(Tids)
BY UThreadsAssumption, FS_Interval DEF Tids

(* A quantum that ends, in RoundRobin.                                     *)
LEMMA QuantumPasses ==
  ASSUME QueueTypeOK, NEW S \in SUBSET Tids, NEW f, DOMAIN f \subseteq Tids,
         Abstract!EndQuantum(S, f)
  PROVE  Turn' \in Tids /\ Queue' \in Seq(Tids) /\ DOMAIN Asleep' \subseteq Tids /\ TurnPasses
<1> DEFINE due == {t \in DOMAIN Asleep : Asleep[t] = 1}
           still == DOMAIN Asleep \ due
<1>1. PICK order \in SetToSeqs(due \cup S) :
         Queue \o order # <<>> /\ Turn' = Head(Queue \o order) /\ Queue' = Tail(Queue \o order)
  BY SameOrders DEF Abstract!EndQuantum
<1>2. Asleep' = [t \in still \cup DOMAIN f |-> IF t \in still THEN Asleep[t] - 1 ELSE f[t]]
  BY DEF Abstract!EndQuantum
<1>3. order \in Seq(Tids) /\ ToSet(order) = due \cup S
  <2>1. due \cup S \in SUBSET Tids  BY DEF QueueTypeOK
  <2>2. IsFiniteSet(due \cup S)  BY <2>1, TidsFinite, FS_Subset
  <2> HIDE DEF due
  <2>3. order \in Seq(due \cup S) /\ ToSet(order) = due \cup S  BY <1>1, <2>2, ListOfSet
  <2> QED  BY <2>1, <2>3
<1>4. \A t \in DOMAIN Asleep :
         IF Asleep[t] = 1 THEN t \in due
         ELSE t \in DOMAIN Asleep' /\ Asleep'[t] = Asleep[t] - 1
  BY <1>2
<1>5. DOMAIN Asleep' \subseteq Tids  BY <1>2 DEF QueueTypeOK
<1> HIDE DEF due, still
<1> DEFINE q == Queue \o order
<1>6. /\ Queue \in Seq(Tids) /\ q \in Seq(Tids) /\ q # <<>>
      /\ Turn' = Head(q) /\ Queue' = Tail(q)
      /\ ToSet(order) \subseteq ToSet(q)
  <2>1. Queue \in Seq(Tids)  BY DEF QueueTypeOK
  <2>2. q \in Seq(Tids) /\ \A i \in 1 .. Len(order) : Len(Queue) + i \in 1 .. Len(q)
                                                      /\ q[Len(Queue) + i] = order[i]
    BY <1>3, <2>1, ConcatAt
  <2>3. ToSet(order) = {order[i] : i \in 1 .. Len(order)}  BY <1>3, ListElements
  <2> HIDE DEF q
  <2>4. ToSet(q) = {q[i] : i \in 1 .. Len(q)}  BY <2>2, ListElements
  <2> QED  BY <1>1, <2>1, <2>2, <2>3, <2>4 DEF q
<1>7. Queue # <<>> => Turn' = Head(Queue) /\ Queue' = Tail(Queue) \o order
  BY <1>3, <1>6, TailOfConcat
<1> HIDE DEF q
<1>8. Turn' \in Tids /\ Queue' \in Seq(Tids) /\ ToSet(q) = {Turn'} \cup ToSet(Queue')
  <2> DEFINE r == Tail(q)
             n == Len(q) - 1
  <2>1. q \in Seq(Tids) /\ q # <<>>  BY <1>6
  <2>2. Head(q) \in Tids /\ r \in Seq(Tids) /\ Len(r) = n /\ \A i \in 1 .. Len(r) : r[i] = q[i + 1]
    BY <2>1, HeadTailProperties
  <2>3. n \in Nat /\ Len(q) = n + 1 /\ Head(q) = q[1]  BY <2>1
  <2>4. ToSet(q) = {q[i] : i \in 1 .. Len(q)} /\ ToSet(r) = {r[i] : i \in 1 .. Len(r)}
    BY <2>1, <2>2, ListElements
  <2>5. Turn' = Head(q) /\ Queue' = r  BY <1>6
  <2> HIDE DEF r, n
  <2>6. \A i \in 1 .. Len(q) : i = 1 \/ (i - 1 \in 1 .. n /\ (i - 1) + 1 = i)  BY <2>3
  <2>7. 1 \in 1 .. Len(q) /\ \A i \in 1 .. n : i + 1 \in 1 .. Len(q)  BY <2>3
  <2>8. \A i \in 1 .. Len(q) : q[i] = Turn' \/ q[i] \in ToSet(Queue')
    BY <2>2, <2>3, <2>4, <2>5, <2>6
  <2>9. Turn' \in ToSet(q) /\ \A i \in 1 .. n : r[i] \in ToSet(q)
    BY <2>2, <2>3, <2>4, <2>5, <2>7
  <2> QED  BY <2>2, <2>4, <2>5, <2>8, <2>9
<1>9. ASSUME Queue # <<>>
      PROVE  Turn' = Head(Queue) /\ \A i \in 1 .. Len(Queue) - 1 : Queue'[i] = Queue[i + 1]
  <2>1. Tail(Queue) \in Seq(Tids) /\ Len(Tail(Queue)) = Len(Queue) - 1
        /\ \A i \in 1 .. Len(Queue) - 1 : Tail(Queue)[i] = Queue[i + 1]
    BY <1>6, <1>9
  <2>2. \A i \in 1 .. Len(Queue) - 1 : (Tail(Queue) \o order)[i] = Tail(Queue)[i]
    BY <1>3, <2>1, ConcatAt
  <2> QED  BY <1>7, <1>9, <2>1, <2>2
<1>10. \A t \in due : t \in {Turn'} \cup ToSet(Queue')  BY <1>3, <1>6, <1>8
<1> QED  BY <1>4, <1>5, <1>8, <1>9, <1>10 DEF TurnPasses

(* A call that lets the same thread go on, in RoundRobin.                  *)
LEMMA QueueKept ==
  ASSUME QueueTypeOK, Turn' = Turn,
         \/ \E t \in Tids : Queue' = Append(Queue, t)
         \/ \E t \in Tids : Queue' = RemoveFirst(Queue, t)
         \/ Queue' = Queue,
         \A t \in DOMAIN Asleep' : t \in DOMAIN Asleep /\ Asleep'[t] = Asleep[t]
  PROVE  TurnKept /\ Queue' \in Seq(Tids)
<1> DEFINE q == Queue
           r == Queue'
           Keeps(i) == \/ \E j \in 1 .. i : j \in DOMAIN r /\ r[j] = q[i]
                       \/ r = RemoveFirst(q, q[i])
<1>1. q \in Seq(Tids) /\ DOMAIN q = 1 .. Len(q) /\ Len(q) \in Nat  BY DEF QueueTypeOK
<1> HIDE DEF q, r
<1>2. ASSUME NEW t \in Tids, r = Append(q, t)
      PROVE  r \in Seq(Tids) /\ \A i \in DOMAIN q : Keeps(i)
  <2>1. r \in Seq(Tids) /\ \A i \in 1 .. Len(q) : i \in DOMAIN r /\ r[i] = q[i] /\ i \in 1 .. i
    BY <1>1, <1>2
  <2> QED  BY <1>1, <2>1
<1>3. ASSUME NEW t \in Tids, r = RemoveFirst(q, t), NEW x \in 1 .. Len(q), q[x] = t
      PROVE  r \in Seq(Tids) /\ \A i \in DOMAIN q : Keeps(i)
  <2>1. PICK y \in 1 .. Len(q) : q[y] = t /\ r \in Seq(Tids) /\ WithoutPlace(r, q, y)
    BY <1>1, <1>3, RemoveFirstProperties
  <2>2. ASSUME NEW i \in 1 .. Len(q)  PROVE Keeps(i)
    <3>1. /\ DOMAIN r = 1 .. Len(q) - 1
          /\ \A n \in 1 .. Len(q) - 1 : r[n] = IF n < y THEN q[n] ELSE q[n + 1]
      BY <2>1 DEF WithoutPlace
    <3>2. CASE i = y  BY <1>3, <2>1, <3>2
    <3>3. CASE i < y
      <4>1. i \in 1 .. i /\ i \in DOMAIN r /\ r[i] = q[i]  BY <1>1, <3>1, <3>3
      <4> QED  BY <4>1
    <3>4. CASE i > y
      <4>1. i - 1 \in 1 .. i /\ i - 1 \in DOMAIN r /\ r[i - 1] = q[i]  BY <1>1, <3>1, <3>4
      <4> QED  BY <4>1
    <3> QED  BY <1>1, <3>2, <3>3, <3>4
  <2> QED  BY <1>1, <2>1, <2>2
<1>4. ASSUME r = q  PROVE r \in Seq(Tids) /\ \A i \in DOMAIN q : Keeps(i)
  <2>1. \A i \in 1 .. Len(q) : i \in 1 .. i /\ i \in DOMAIN r /\ r[i] = q[i]  BY <1>1, <1>4
  <2> QED  BY <1>1, <1>4, <2>1
<1>5. ASSUME NEW t \in Tids, r = RemoveFirst(q, t), ~ \E x \in 1 .. Len(q) : q[x] = t
      PROVE  r = q
  BY <1>1, <1>5 DEF RemoveFirst
<1>6. r \in Seq(Tids) /\ \A i \in DOMAIN q : Keeps(i)
  <2>1. \/ \E t \in Tids : r = Append(q, t)
        \/ \E t \in Tids : r = RemoveFirst(q, t)
        \/ r = q
    BY DEF q, r
  <2> HIDE DEF Keeps
  <2> QED  BY <1>2, <1>3, <1>4, <1>5, <2>1
<1> QED  BY <1>6 DEF TurnKept, q, r

LEMMA OvertakingStep ==
  ASSUME QueueTypeOK, Abstract!Next
  PROVE  QueueTypeOK' /\ (Exited' \/ TurnPasses \/ TurnKept)
<1>1. Turn \in Tids /\ Blocked \subseteq Tids /\ DOMAIN Asleep \subseteq Tids
  BY DEF QueueTypeOK
<1>2. CASE Abstract!TerminateMain
  <2>1. Turn' = 0 /\ Queue' = <<>> /\ Blocked' = {} /\ Asleep' = <<>> /\ Exited' = TRUE
    BY <1>2 DEF Abstract!TerminateMain
  <2>2. 0 \in Tids /\ DOMAIN Asleep' \subseteq Tids  BY <2>1, UThreadsAssumption DEF Tids
  <2> QED  BY <2>1, <2>2 DEF QueueTypeOK
<1>3. ASSUME NEW S \in SUBSET Tids, NEW f, DOMAIN f \subseteq Tids, Abstract!EndQuantum(S, f),
             Blocked' \subseteq Tids
      PROVE  QueueTypeOK' /\ TurnPasses
  BY <1>3, QuantumPasses DEF QueueTypeOK
<1>4. CASE Abstract!Preempt \/ Abstract!TerminateSelf \/ Abstract!BlockSelf
  <2>1. Blocked' \subseteq Tids
    BY <1>1, <1>4 DEF Abstract!Preempt, Abstract!TerminateSelf, Abstract!BlockSelf
  <2>2. Abstract!EndQuantum({Turn}, <<>>) \/ Abstract!EndQuantum({}, <<>>)
    BY <1>4 DEF Abstract!Preempt, Abstract!TerminateSelf, Abstract!BlockSelf
  <2>3. {Turn} \in SUBSET Tids /\ {} \in SUBSET Tids /\ DOMAIN <<>> \subseteq Tids  BY <1>1
  <2> QED  BY <1>3, <2>1, <2>2, <2>3
<1>5. ASSUME NEW n \in 1 .. MaxSleep, Abstract!Sleep(n)  PROVE QueueTypeOK' /\ TurnPasses
  <2> DEFINE f == [t \in {Turn} |-> n]
  <2>1. Blocked' \subseteq Tids /\ Abstract!EndQuantum({}, f)  BY <1>1, <1>5 DEF Abstract!Sleep
  <2>2. DOMAIN f \subseteq Tids /\ {} \in SUBSET Tids  BY <1>1
  <2> HIDE DEF f
  <2> QED  BY <1>3, <2>1, <2>2
<1>6. ASSUME Turn' = Turn, Blocked' \subseteq Tids,
             \/ \E t \in Tids : Queue' = Append(Queue, t)
             \/ \E t \in Tids : Queue' = RemoveFirst(Queue, t)
             \/ Queue' = Queue,
             \A t \in DOMAIN Asleep' : t \in DOMAIN Asleep /\ Asleep'[t] = Asleep[t]
      PROVE  QueueTypeOK' /\ TurnKept
  BY <1>1, <1>6, QueueKept DEF QueueTypeOK
<1>7. CASE Abstract!Spawn \/ \E t \in Tids : Abstract!Resume(t)
  BY <1>1, <1>6, <1>7 DEF Abstract!Spawn, Abstract!Resume
<1>8. ASSUME NEW t \in Tids, Abstract!TerminateOther(t) \/ Abstract!BlockOther(t)
      PROVE  QueueTypeOK' /\ TurnKept
  <2>1. /\ Turn' = Turn /\ Blocked' \subseteq Tids
        /\ \A u \in DOMAIN Asleep' : u \in DOMAIN Asleep /\ Asleep'[u] = Asleep[u]
    BY <1>1, <1>8 DEF Abstract!TerminateOther, Abstract!BlockOther
  <2>2. Queue' = RemoveFirst(Queue, t)
    BY <1>8, SameLists DEF Abstract!TerminateOther, Abstract!BlockOther
  <2> QED  BY <1>6, <2>1, <2>2
<1> QED  BY <1>2, <1>4, <1>5, <1>7, <1>8 DEF Abstract!Next, Abstract!Step

(* For every number of threads and every program within the rules, no      *)
(* thread that waits is passed by another: when a turn ends the first one  *)
(* runs and all others move up, between turns they keep their order, and   *)
(* each turn brings a sleeper one quantum nearer to the queue.  It is why  *)
(* a thread that is ready runs, and one that sleeps wakes                  *)
(* (uthreads.cpp:105-155).                                                 *)
THEOREM TurnsInOrder == ASSUME Rules  PROVE Spec => NobodyIsOvertaken
<1>1. Abstract!Init => QueueTypeOK
  <2>1. 0 \in Tids  BY UThreadsAssumption DEF Tids
  <2> QED  BY <2>1 DEF Abstract!Init, QueueTypeOK
<1>2. QueueTypeOK /\ [Abstract!Next]_(Abstract!vars)
      => QueueTypeOK' /\ [Exited' \/ TurnPasses \/ TurnKept]_<<Turn, Queue, Asleep>>
  <2>1. CASE UNCHANGED Abstract!vars  BY <2>1 DEF Abstract!vars, QueueTypeOK
  <2> QED  BY <2>1, OvertakingStep
<1> QED
  BY <1>1, <1>2, RoundRobinImplemented, PTL
  DEF ImplementsRoundRobin, Abstract!Spec, NobodyIsOvertaken
=============================================================================
