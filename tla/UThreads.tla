------------------------------ MODULE UThreads ------------------------------
(***************************************************************************)
(* The user-level threads library os_ex2/resources/uthreads.cpp: a         *)
(* round-robin scheduler driven by SIGVTALRM and by the threads' own calls.*)
(*                                                                         *)
(* Code that runs with SIGVTALRM blocked (a library call between           *)
(* block_signals and unblock_signals, the handler) is one step.  The       *)
(* voluntary switch of uthread_block and uthread_sleep runs with the       *)
(* signal unblocked, and has one step per function it calls; an            *)
(* interruption in the middle of wake_threads, of the pop in               *)
(* handle_new_quantum or of run_new_thread is not modelled.                *)
(*                                                                         *)
(* The library's globals are one record k, so that each function of the    *)
(* source is a function from records to records.                           *)
(***************************************************************************)
EXTENDS Integers, Sequences, FiniteSets, SequencesExt

CONSTANTS
    MaxThreads,  \* MAX_THREAD_NUM
    MaxSleep,    \* the longest sleep a thread asks for (bounds the wake-up map)
    MaxReady,    \* threads sleep only while the ready list is no longer than this
    Allowed      \* which of the situations below the programs get into

Situations == {"errors",            \* calls that fail; blocking another thread
               "outOfRange",        \* the thread id MAX_THREAD_NUM is passed
               "mainSleep",         \* the main thread calls uthread_sleep
               "killSleeper",       \* a sleeping thread is terminated
               "exitAmongSleepers", \* a thread ends itself as a sleeper is due
               "quantumsRace",      \* the timer expires inside get_quantums
               "switchSignal"}      \* the timer expires inside a switch

ASSUME UThreadsAssumption ==
    /\ MaxThreads \in Nat \ {0}
    /\ MaxSleep \in Nat \ {0} /\ MaxReady \in Nat
    /\ Allowed \subseteq Situations

Tids == 0 .. MaxThreads - 1

VARIABLES
    k,       \* the global variables, and the Thread objects but their env
    env,     \* env of each Thread: the context to jump to
    cur,     \* the context that is executing
    masked,  \* SIGVTALRM is blocked in code outside the library
    dirty    \* a freed Thread object had its sleep flag set

vars == <<k, env, cur, masked, dirty>>

(* A context: whose stack it is on, where it is, and the local variable    *)
(* entering (or tid).  Places are named for what happens next:             *)
(*   save 107, wake 130, count 131, pop 132, run 115, jump 117 and 351,    *)
(*   quantums 500.                                                         *)
Context(t, place, local) == [own |-> t, at |-> place, local |-> local]
Places == {"user", "save", "wake", "count", "pop", "run", "jump", "quantums"}
Entry(t) == Context(t, "user", 0)
Contexts == [own : Tids, at : Places, local : Tids]

Delays == 0 .. MaxSleep
LedgerSize == 3  \* uncredited is kept modulo LedgerSize

(* st is "free" where all_threads_list holds nullptr.  The head of ready   *)
(* is the running thread.  wakes[d] are the threads to wake when           *)
(* total_quantum is d more than now; older keys are never looked up.       *)
(* uncredited is total_quantum less all the thread_quantums there have     *)
(* been, of which only the sum is kept.                                    *)
Initialisers ==
    [st |-> [t \in Tids |-> "free"],
     sleep |-> [t \in Tids |-> FALSE],
     ready |-> <<>>,
     wakes |-> [d \in Delays |-> <<>>],
     running |-> -1,
     uncredited |-> 0,
     status |-> "ok"]

(* Thread(0, true): the main thread runs on the stack it has.              *)
MainThread(s) == [s EXCEPT !.st[0] = "READY"]

(* uthread_init, called with a positive quantum, has returned.             *)
Init ==
    /\ k = [MainThread(Initialisers) EXCEPT !.st[0] = "RUNNING", !.ready = <<0>>, !.running = 0]
    /\ env = [t \in Tids |-> Entry(t)]
    /\ cur = Entry(0)
    /\ masked = FALSE
    /\ dirty = FALSE

uthread_get_tid == k.running

Ok == k.status = "ok"
Alive(t) == k.st[t] # "free"
Fault(s, f) == [s EXCEPT !.status = f]

-----------------------------------------------------------------------------
(* The scheduler's functions.                                              *)

(* The loop of wake_threads over the threads that are due.                 *)
push_back_due(s) ==
    LET due == s.wakes[0]
        pushed[i \in 0 .. Len(due)] ==
          IF i = 0 THEN s.ready
          ELSE IF s.st[due[i]] = "BLOCKED" THEN pushed[i - 1]
          ELSE Append(pushed[i - 1], due[i])
    IN  pushed[Len(due)]

(* wake_threads(total_quantum): the entries stay in the map.               *)
wake_threads(s) ==
    LET due == ToSet(s.wakes[0])
    IN  IF \E t \in due : s.st[t] = "free" THEN Fault(s, "useAfterFree")
        ELSE [s EXCEPT !.sleep = [t \in Tids |-> t \notin due /\ @[t]],
                       !.ready = push_back_due(s)]

(* Mutant of count_quantum: a switch counts two quantums.                  *)
count_quantumTwice(s) ==
    [s EXCEPT !.wakes = [d \in Delays |-> IF d + 1 < MaxSleep THEN @[d + 2] ELSE <<>>],
              !.uncredited = (@ + 2) % LedgerSize]

(* total_quantum++ brings every wake-up one quantum nearer.                *)
count_quantum(s) ==
    [s EXCEPT !.wakes = [d \in Delays |-> IF d < MaxSleep THEN @[d + 1] ELSE <<>>],
              !.uncredited = (@ + 1) % LedgerSize]

(* Mutants of pop_exiting: a sleeping thread goes to the back of the list, *)
(* too; the thread that leaves goes back to the front.                     *)
pop_exitingSleepers(s) ==
    IF s.status # "ok" THEN s
    ELSE IF s.ready = <<>> THEN Fault(s, "emptyDeque")
    ELSE LET t == Head(s.ready)
             state == IF s.st[t] = "RUNNING" THEN "READY" ELSE s.st[t]
         IN  [s EXCEPT !.st[t] = state,
                       !.ready = IF state = "READY" THEN Append(Tail(@), t) ELSE Tail(@)]

pop_exitingToFront(s) ==
    IF s.status # "ok" THEN s
    ELSE IF s.ready = <<>> THEN Fault(s, "emptyDeque")
    ELSE LET t == Head(s.ready)
             state == IF s.st[t] = "RUNNING" THEN "READY" ELSE s.st[t]
         IN  [s EXCEPT !.st[t] = state,
                       !.ready = IF state = "READY" /\ ~s.sleep[t] THEN @ ELSE Tail(@)]

pop_exiting(s) ==
    IF s.status # "ok" THEN s
    ELSE IF s.ready = <<>> THEN Fault(s, "emptyDeque")
    ELSE LET t == Head(s.ready)
             state == IF s.st[t] = "RUNNING" THEN "READY" ELSE s.st[t]
             again == state = "READY" /\ ~s.sleep[t]
         IN  IF s.st[t] = "free" THEN Fault(s, "useAfterFree")
             ELSE [s EXCEPT !.st[t] = state,
                            !.ready = IF again THEN Append(Tail(@), t) ELSE Tail(@)]

handle_new_quantum(s) == pop_exiting(count_quantum(wake_threads(s)))

pop_front(s) ==
    IF s.ready = <<>> THEN Fault(s, "emptyDeque") ELSE [s EXCEPT !.ready = Tail(@)]

run_new_thread(s) ==
    IF s.status # "ok" THEN s
    ELSE IF s.ready = <<>> THEN Fault(s, "emptyDeque")
    ELSE IF s.st[Head(s.ready)] = "free" THEN Fault(s, "useAfterFree")
    ELSE [s EXCEPT !.st[Head(s.ready)] = "RUNNING", !.running = Head(s.ready),
                   !.uncredited = (@ - 1) % LedgerSize]

(* siglongjmp(entering->env, 1), which also restores the signal mask: all  *)
(* saved contexts go on with the signal unblocked.                         *)
JumpTo(t) == cur' = env'[t] /\ masked' = FALSE

-----------------------------------------------------------------------------
(* The handler scheduler(): move_to_next_thread with SIGVTALRM blocked.    *)
Interruptible ==
    \/ cur.at = "user"
    \/ cur.at = "quantums" /\ "quantumsRace" \in Allowed
    \/ cur.at \notin {"user", "quantums"} /\ "switchSignal" \in Allowed

scheduler ==
    /\ Ok /\ ~masked /\ Interruptible
    /\ UNCHANGED dirty
    /\ IF Alive(k.running)
       THEN /\ env' = [env EXCEPT ![k.running] = cur]
            /\ k' = run_new_thread(handle_new_quantum(k))
            /\ JumpTo(k'.running)
       ELSE k' = Fault(k, "nullRunning") /\ UNCHANGED <<env, cur, masked>>

(* move_to_next_thread, called by a thread that blocks or sleeps.          *)
Goto(place) == cur' = [cur EXCEPT !.at = place]

Save ==
    /\ Ok /\ cur.at = "save" /\ Alive(k.running)
    /\ env' = [env EXCEPT ![k.running] = [cur EXCEPT !.at = "user"]]
    /\ Goto("wake")
    /\ UNCHANGED <<k, masked, dirty>>

Handle(from, after, to) ==
    /\ Ok /\ cur.at = from
    /\ k' = after
    /\ Goto(to)
    /\ UNCHANGED <<env, masked, dirty>>

(* Mutant of Run: entering is the thread that was running.                 *)
RunSameThread ==
    /\ Ok /\ cur.at = "run"
    /\ k' = run_new_thread(k)
    /\ cur' = [cur EXCEPT !.at = "jump", !.local = k.running]
    /\ UNCHANGED <<env, masked, dirty>>

Run ==
    /\ Ok /\ cur.at = "run"
    /\ k' = run_new_thread(k)
    /\ cur' = [cur EXCEPT !.at = "jump", !.local = k'.running]
    /\ UNCHANGED <<env, masked, dirty>>

Jump ==
    /\ Ok /\ cur.at = "jump"
    /\ IF Alive(cur.local)
       THEN UNCHANGED <<k, env, dirty>> /\ JumpTo(cur.local)
       ELSE k' = Fault(k, "useAfterFree") /\ UNCHANGED <<env, cur, masked, dirty>>

move_to_next_thread ==
    \/ Save
    \/ Handle("wake", wake_threads(k), "count")
    \/ Handle("count", count_quantum(k), "pop")
    \/ Handle("pop", pop_exiting(k), "run")
    \/ Run
    \/ Jump

-----------------------------------------------------------------------------
(* The library calls of the code that is executing.                        *)
InUser == Ok /\ cur.at = "user"

(* A call that returns with the signal unblocked.                          *)
Return == UNCHANGED <<env, cur>> /\ masked' = FALSE

(* A call that returns without calling unblock_signals.                    *)
ReturnMasked == "errors" \in Allowed /\ masked' = TRUE /\ UNCHANGED <<k, env, cur, dirty>>

(* Mutant of uthread_spawn: the search for a free slot goes one too far.   *)
uthread_spawnPastEnd ==
    /\ InUser
    /\ \E t \in 0 .. MaxThreads :
        /\ t \in Tids => ~Alive(t)
        /\ \A u \in Tids : u < t => Alive(u)
        /\ k' = [k EXCEPT !.st[t] = "READY", !.sleep[t] = FALSE, !.ready = Append(@, t)]
        /\ env' = [env EXCEPT ![t] = Entry(t)]
        /\ masked' = FALSE
        /\ UNCHANGED <<cur, dirty>>

(* The new thread takes the first free slot.  Its constructor does not set *)
(* sleep: memory that held another Thread may still have the flag set.     *)
uthread_spawn ==
    /\ InUser
    /\ \E t \in Tids :
        /\ ~Alive(t) /\ \A u \in Tids : u < t => Alive(u)
        /\ \E flag \in {FALSE, dirty} :
            k' = [k EXCEPT !.st[t] = "READY", !.sleep[t] = flag, !.ready = Append(@, t)]
        /\ env' = [env EXCEPT ![t] = Entry(t)]
        /\ masked' = FALSE
        /\ UNCHANGED <<cur, dirty>>

(* A null entry point, or no free slot.                                    *)
SpawnFails == InUser /\ ReturnMasked

(* Terminating the main thread frees everything and exits.                 *)
TerminateMain ==
    /\ InUser
    /\ k' = [k EXCEPT !.st = [t \in Tids |-> "free"], !.status = "exit"]
    /\ UNCHANGED <<env, cur, masked, dirty>>

(* Mutant of TerminateSelf: the quantum that begins is not counted.        *)
TerminateSelfUncounted(t) ==
    /\ InUser /\ t # 0 /\ k.st[t] = "RUNNING"
    /\ k.wakes[0] # <<>> => "exitAmongSleepers" \in Allowed
    /\ k' = run_new_thread(pop_front([k EXCEPT !.st[t] = "free"]))
    /\ cur' = [cur EXCEPT !.at = "jump", !.local = k'.running]
    /\ dirty' = (dirty \/ k.sleep[t])
    /\ masked' = FALSE
    /\ UNCHANGED env

(* The running thread ends: no sleeper is woken, and the signal is         *)
(* unblocked before the jump.  Its Thread, whose member stack is the stack *)
(* this code is running on, is deleted first: until the jump, cur is on    *)
(* the stack of a thread that is no more.  Nothing overwrites that memory  *)
(* before the jump, unless the handler runs there (switchSignal).          *)
TerminateSelf(t) ==
    /\ InUser /\ t # 0 /\ k.st[t] = "RUNNING"
    /\ k.wakes[0] # <<>> => "exitAmongSleepers" \in Allowed
    /\ k' = run_new_thread(pop_front([count_quantum(k) EXCEPT !.st[t] = "free"]))
    /\ cur' = [cur EXCEPT !.at = "jump", !.local = k'.running]
    /\ dirty' = (dirty \/ k.sleep[t])
    /\ masked' = FALSE
    /\ UNCHANGED env

(* Mutant of TerminateOther: the thread stays in the ready list.           *)
TerminateOtherStaysReady(t) ==
    /\ InUser /\ t # 0 /\ Alive(t) /\ k.st[t] # "RUNNING"
    /\ k.sleep[t] => "killSleeper" \in Allowed
    /\ k' = [k EXCEPT !.st[t] = "free"]
    /\ dirty' = (dirty \/ k.sleep[t])
    /\ Return

(* remove_from_ready: the first occurrence goes.  A sleeping thread stays  *)
(* in the wake-up map.                                                     *)
TerminateOther(t) ==
    /\ InUser /\ t # 0 /\ Alive(t) /\ k.st[t] # "RUNNING"
    /\ k.sleep[t] => "killSleeper" \in Allowed
    /\ k' = [k EXCEPT !.st[t] = "free",
                      !.ready = IF k.st[t] = "READY" THEN RemoveFirst(@, t) ELSE @]
    /\ dirty' = (dirty \/ k.sleep[t])
    /\ Return

BlockSelf(t) ==
    /\ InUser /\ t # 0 /\ Alive(t) /\ t = k.running
    /\ k' = [k EXCEPT !.st[t] = "BLOCKED"]
    /\ Goto("save")
    /\ masked' = FALSE
    /\ UNCHANGED <<env, dirty>>

(* Another thread is blocked only if its state is RUNNING: otherwise the   *)
(* call returns at line 405.                                               *)
BlockOther(t) ==
    /\ InUser /\ t # 0 /\ Alive(t) /\ t # k.running
    /\ \/ k.st[t] # "RUNNING" /\ ReturnMasked
       \/ /\ k.st[t] = "RUNNING"
          /\ k' = [k EXCEPT !.st[t] = "BLOCKED", !.ready = RemoveFirst(@, t)]
          /\ Return /\ UNCHANGED dirty

uthread_resume(t) ==
    /\ InUser /\ Alive(t)
    /\ k' = IF k.st[t] = "BLOCKED"
            THEN [k EXCEPT !.st[t] = "READY", !.ready = Append(@, t)]
            ELSE k
    /\ Return /\ UNCHANGED dirty

ResumeMissing(t) == InUser /\ ~Alive(t) /\ ReturnMasked

(* Mutants of uthread_sleep: the caller's own quantum is counted; the      *)
(* entry of the map is overwritten.                                        *)
uthread_sleepShort(n) ==
    /\ InUser /\ Alive(k.running)
    /\ k.running = 0 => "mainSleep" \in Allowed
    /\ Len(k.ready) <= MaxReady
    /\ k' = [k EXCEPT !.sleep[k.running] = TRUE, !.wakes[n - 1] = Append(@, k.running)]
    /\ Goto("save")
    /\ masked' = FALSE
    /\ UNCHANGED <<env, dirty>>

uthread_sleepOverwrites(n) ==
    /\ InUser /\ Alive(k.running)
    /\ k.running = 0 => "mainSleep" \in Allowed
    /\ Len(k.ready) <= MaxReady
    /\ k' = [k EXCEPT !.sleep[k.running] = TRUE, !.wakes[n] = <<k.running>>]
    /\ Goto("save")
    /\ masked' = FALSE
    /\ UNCHANGED <<env, dirty>>

(* The main thread is told that it must not sleep, and sleeps.             *)
uthread_sleep(n) ==
    /\ InUser /\ Alive(k.running)
    /\ k.running = 0 => "mainSleep" \in Allowed
    /\ Len(k.ready) <= MaxReady
    /\ k' = [k EXCEPT !.sleep[k.running] = TRUE, !.wakes[n] = Append(@, k.running)]
    /\ Goto("save")
    /\ masked' = FALSE
    /\ UNCHANGED <<env, dirty>>

(* num_quantums is not positive.                                           *)
SleepFails == InUser /\ ReturnMasked

(* The slot is tested with the signal blocked and read again after it is   *)
(* unblocked.                                                              *)
uthread_get_quantums(t) ==
    /\ InUser /\ Alive(t)
    /\ cur' = [cur EXCEPT !.at = "quantums", !.local = t]
    /\ masked' = FALSE
    /\ UNCHANGED <<k, env, dirty>>

ReadQuantums ==
    /\ Ok /\ cur.at = "quantums"
    /\ Goto("user")
    /\ k' = IF Alive(cur.local) THEN k ELSE Fault(k, "nullSlot")
    /\ UNCHANGED <<env, masked, dirty>>

QuantumsMissing(t) == InUser /\ ~Alive(t) /\ ReturnMasked

(* The four functions that take a tid accept MAX_THREAD_NUM and read past  *)
(* the end of all_threads_list.                                            *)
OutOfRange ==
    /\ InUser /\ "outOfRange" \in Allowed
    /\ k' = Fault(k, "outOfBounds")
    /\ UNCHANGED <<env, cur, masked, dirty>>

-----------------------------------------------------------------------------
LibraryCall ==
    \/ uthread_spawn \/ SpawnFails \/ TerminateMain \/ SleepFails \/ OutOfRange
    \/ \E t \in Tids :
        \/ TerminateSelf(t) \/ TerminateOther(t)
        \/ BlockSelf(t) \/ BlockOther(t)
        \/ uthread_resume(t) \/ ResumeMissing(t)
        \/ uthread_get_quantums(t) \/ QuantumsMissing(t)
    \/ \E n \in 1 .. MaxSleep : uthread_sleep(n)

Stopped == ~Ok /\ UNCHANGED vars

Next == scheduler \/ move_to_next_thread \/ ReadQuantums \/ LibraryCall \/ Stopped

(* The timer is armed again by every switch, and a pending signal is       *)
(* delivered as soon as it is unblocked: code that does not switch itself  *)
(* is switched in the end.  What a thread calls is its own choice.         *)
Fairness == SF_vars(scheduler \/ move_to_next_thread) /\ WF_vars(ReadQuantums)

Spec == Init /\ [][Next]_vars /\ Fairness
-----------------------------------------------------------------------------
Globals ==
    [st : [Tids -> {"free", "READY", "RUNNING", "BLOCKED"}],
     sleep : [Tids -> BOOLEAN],
     ready : Seq(Tids),
     wakes : [Delays -> Seq(Tids)],
     running : Tids,
     uncredited : 0 .. LedgerSize - 1,
     status : {"ok", "exit", "useAfterFree", "emptyDeque", "nullRunning", "nullSlot", "outOfBounds"}]

UThreadsTypeOK ==
    /\ k \in Globals
    /\ env \in [Tids -> Contexts]
    /\ cur \in Contexts
    /\ masked \in BOOLEAN /\ dirty \in BOOLEAN

(* Whenever thread code runs, the ready list holds each thread that is to  *)
(* run exactly once, and its head is the one that runs: no thread is lost  *)
(* and none is scheduled twice (uthreads.cpp:105-155, 344-352, 408-419).   *)
Schedulable(t) == k.st[t] = "RUNNING" \/ (k.st[t] = "READY" /\ ~k.sleep[t])

ReadyListExact ==
    InUser => /\ IsInjective(k.ready)
              /\ ToSet(k.ready) = {t \in Tids : Schedulable(t)}
              /\ k.running = Head(k.ready)
              /\ {t \in Tids : k.st[t] = "RUNNING"} = {k.running}

(* A sleeping thread will be woken: it is in the wake-up map, once, at a   *)
(* quantum that is still to end (uthreads.cpp:528-531).                    *)
Alarms(t) == Cardinality(UNION {{<<d, i>> : i \in {j \in DOMAIN k.wakes[d] : k.wakes[d][j] = t}}
                                : d \in Delays})

SleeperHasAlarm == InUser => \A t \in Tids : Alive(t) /\ k.sleep[t] => Alarms(t) = 1

(* uthread_get_tid names the thread whose code is executing                *)
(* (uthreads.cpp:461, "the calling thread must be the running one").       *)
TidIsCaller == InUser => cur.own = uthread_get_tid

(* The context saved for a thread that can run again is its own, at a      *)
(* place where it goes on with its own code (uthreads.cpp:106, "keep cur   *)
(* entry point for cur thread").  It is not, if the timer expires inside a *)
(* switch (switchSignal).                                                  *)
ContextsIntact ==
    InUser => \A t \in Tids : Alive(t) /\ t # k.running =>
                  env[t].own = t /\ env[t].at \in {"user", "save", "quantums"}

(* What holds even then: whoever jumps to a thread's env gets on that      *)
(* thread's stack, or into the end of an interrupted switch that jumps to  *)
(* the env of the same thread once more (uthreads.cpp:107, 118, 351).      *)
LeadsTo(c, t) == IF c.at = "jump" THEN c.local = t ELSE c.own = t

ContextsLeadBack == \A t \in Tids : Alive(t) => LeadsTo(env[t], t)

(* The library reaches no thread that was freed, nor the front of an empty *)
(* deque, and finds the running thread in its slot: all that goes wrong by *)
(* itself is a slot that was emptied before get_quantums reads it again    *)
(* (uthreads.cpp:500), or does not exist.  And the only code that runs on  *)
(* a freed stack is the end of uthread_terminate (uthreads.cpp:346-351).   *)
NoDangling ==
    /\ k.status \notin {"useAfterFree", "emptyDeque", "nullRunning"}
    /\ Ok /\ ~Alive(cur.own) => cur.at = "jump"

(* Every quantum that was counted was a thread's: total_quantum is the sum *)
(* of all the thread_quantums, however a quantum ended (uthreads.cpp:124,  *)
(* 131, 347).                                                              *)
QuantumsAddUp == InUser => k.uncredited = 0

(* A call that fails may leave the signal blocked.                         *)
SignalReturns == []<>~masked

(* A thread whose turn it is to run does run, whatever the others call,    *)
(* unless it is terminated, the program ends, or somebody runs on for ever *)
(* with the signal that a failed call has left blocked (uthreads.cpp:286,  *)
(* 296, 405, 443, 497, 520).                                               *)
ReadyRuns ==
    SignalReturns =>
    \A t \in Tids : (InUser /\ t \in ToSet(k.ready)) ~> (k.running = t \/ ~Ok \/ ~Alive(t))

(* A thread that sleeps is made ready again, under the same condition.     *)
SleeperWakes ==
    SignalReturns =>
    \A t \in Tids : (Ok /\ k.sleep[t]) ~> (~k.sleep[t] \/ ~Ok \/ ~Alive(t))
-----------------------------------------------------------------------------
(* The scheduler implements RoundRobin.  A switch that a thread has begun  *)
(* counts as done: Settled is the state in which it will end.              *)
Settled ==
    CASE cur.at \in {"save", "wake"} -> run_new_thread(handle_new_quantum(k))
      [] cur.at = "count" -> run_new_thread(pop_exiting(count_quantum(k)))
      [] cur.at = "pop" -> run_new_thread(pop_exiting(k))
      [] cur.at = "run" -> run_new_thread(k)
      [] OTHER -> k

Exited == k.status = "exit"
Turn == IF Exited THEN 0 ELSE Settled.running
Queue == IF Exited THEN <<>> ELSE Tail(Settled.ready)
Blocked == {t \in Tids : ~Exited /\ Settled.st[t] = "BLOCKED"}
Sleepers == {t \in Tids : ~Exited /\ Settled.st[t] # "free" /\ Settled.sleep[t]}
RemainingQuantums(t) == 1 + CHOOSE d \in Delays : t \in ToSet(Settled.wakes[d])
Asleep == [t \in Sleepers |-> RemainingQuantums(t)]

Abstract == INSTANCE RoundRobin WITH
    running <- Turn, queue <- Queue, blocked <- Blocked, asleep <- Asleep, ended <- Exited

(* Every step of the library is a step of RoundRobin or changes nothing    *)
(* of it: threads take turns in the order in which they became ready,      *)
(* sleep the number of quantums they asked for, and calls that fail have   *)
(* no effect on the schedule.                                              *)
ImplementsRoundRobin == Abstract!Spec
=============================================================================
