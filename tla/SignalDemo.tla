----------------------------- MODULE SignalDemo -----------------------------
(***************************************************************************)
(* The demos of os_ex2/resources that uthreads.cpp grew out of:            *)
(* demo_jmp.c, two threads that save and restore each other's contexts;    *)
(* demo_itimer.c, a signal handler that sets a flag its main() polls; and  *)
(* demo_singInt_handler.c, which answers every SIGINT with a message.      *)
(***************************************************************************)
EXTENDS Integers, TLC

VARIABLES
    current_thread,
    env,       \* the two bookmarks: the stack and the place to go on from
    cpu,       \* the stack and the place the processor executes
    steps      \* the local i of thread0 and of thread1, modulo their periods

jumpVars == <<current_thread, env, cpu, steps>>

Period == (0 :> 3) @@ (1 :> 5)
Bookmark(stack, place) == [stack |-> stack, place |-> place]
JumpThreads == {0, 1}
Main == -1

JumpInit ==
    /\ current_thread = -1
    /\ env = [tid \in JumpThreads |-> Bookmark(Main, "none")]
    /\ cpu = Bookmark(Main, "setup0")
    /\ steps = [tid \in JumpThreads |-> 0]

(* setup(): each bookmark gets a stack of its own and starts at the entry. *)
setup_thread(tid, here, next) ==
    /\ cpu = Bookmark(Main, here)
    /\ env' = [env EXCEPT ![tid] = Bookmark(tid, "entry")]
    /\ cpu' = Bookmark(Main, next)
    /\ UNCHANGED <<current_thread, steps>>

(* Mutant of jump_to_thread: the assignment comes after the jump.          *)
jump_to_threadFirst(tid, marks) == cpu' = marks[tid] /\ UNCHANGED current_thread

(* The bookmarks are those in force when it jumps.                         *)
jump_to_thread(tid, marks) ==
    /\ current_thread' = tid
    /\ cpu' = marks[tid]

JumpMain ==
    /\ cpu = Bookmark(Main, "jump")
    /\ jump_to_thread(0, env)
    /\ UNCHANGED <<env, steps>>

(* A turn of the loop of thread0 or thread1, up to the call of yield.      *)
JumpLoop(tid) ==
    /\ cpu.stack = tid /\ cpu.place \in {"entry", "loop"}
    /\ steps' = [steps EXCEPT ![tid] = (@ + 1) % Period[tid]]
    /\ cpu' = Bookmark(tid, IF steps'[tid] = 0 THEN "yield" ELSE "loop")
    /\ UNCHANGED <<current_thread, env>>

(* sigsetjmp returns 0: yield jumps away ...                               *)
JumpYield ==
    LET marks == [env EXCEPT ![current_thread] = Bookmark(cpu.stack, "resumed")]
    IN  /\ cpu.place = "yield"
        /\ env' = marks
        /\ jump_to_thread(1 - current_thread, marks)
        /\ UNCHANGED steps

(* ... and returns to its thread when sigsetjmp returns 1.                 *)
JumpResume ==
    /\ cpu.place = "resumed"
    /\ cpu' = [cpu EXCEPT !.place = "loop"]
    /\ UNCHANGED <<current_thread, env, steps>>

JumpNext ==
    \/ setup_thread(0, "setup0", "setup1")
    \/ setup_thread(1, "setup1", "jump")
    \/ JumpMain
    \/ \E tid \in JumpThreads : JumpLoop(tid)
    \/ JumpYield
    \/ JumpResume

-----------------------------------------------------------------------------
VARIABLES
    gotit,
    timerAt,   \* what main() of demo_itimer does next
    owed       \* an expiry that found gotit clear has not been reported yet

timerVars == <<gotit, timerAt, owed>>

TimerInit == gotit = 0 /\ timerAt = "test" /\ owed = FALSE

timer_handler ==
    /\ gotit' = 1
    /\ owed' = (owed \/ gotit = 0)
    /\ UNCHANGED timerAt

(* Mutant of TimerTest: the flag is reset whether it was set or not.       *)
TimerTestReset ==
    /\ timerAt = "test"
    /\ timerAt' = (IF gotit = 1 THEN "print" ELSE "reset")
    /\ UNCHANGED <<gotit, owed>>

TimerTest ==
    /\ timerAt = "test"
    /\ timerAt' = (IF gotit = 1 THEN "print" ELSE "test")
    /\ UNCHANGED <<gotit, owed>>

TimerPrint == timerAt = "print" /\ timerAt' = "reset" /\ owed' = FALSE /\ UNCHANGED gotit
TimerReset == timerAt = "reset" /\ timerAt' = "test" /\ gotit' = 0 /\ UNCHANGED owed

TimerMain == TimerTest \/ TimerPrint \/ TimerReset

-----------------------------------------------------------------------------
CONSTANT MaxNested  \* bound: handlers that interrupt one another

VARIABLES
    intAt,     \* main() of demo_singInt: it installs, or pauses, caught or not
    killed,    \* SIGINT has ended the program
    sa,        \* the disposition of SIGINT, and the two flags it came with
    handlers,  \* calls of catch_int that have not returned
    pending,   \* a SIGINT waits for the handler to return
    warned     \* the message has been printed

intVars == <<intAt, killed, sa, handlers, pending, warned>>

(* main() sets sa_handler only: sa_flags is what the stack holds.          *)
IntInit ==
    /\ intAt = "install"
    /\ sa \in [disposition : {"default"}, resetHand : BOOLEAN, noDefer : BOOLEAN]
    /\ handlers = 0 /\ killed = FALSE /\ pending = FALSE /\ warned = FALSE

(* Mutant of IntInstall: the call of sigaction is missing.                 *)
IntInstallNothing ==
    /\ ~killed /\ intAt = "install" /\ intAt' = "pause"
    /\ UNCHANGED <<killed, sa, handlers, pending, warned>>

(* sigaction; if it fails main() says so and pauses all the same.          *)
IntInstall ==
    /\ ~killed /\ intAt = "install"
    /\ \/ intAt' = "pause" /\ sa' = [sa EXCEPT !.disposition = "catch_int"]
       \/ intAt' = "uncaught" /\ UNCHANGED sa
    /\ UNCHANGED <<killed, handlers, pending, warned>>

(* The kernel delivers SIGINT while so many handlers are running.          *)
Deliver(running) ==
    IF sa.disposition = "default"
    THEN killed' = TRUE /\ handlers' = running /\ UNCHANGED sa
    ELSE /\ handlers' = running + 1
         /\ sa' = [sa EXCEPT !.disposition = IF sa.resetHand THEN "default" ELSE @]
         /\ UNCHANGED killed

(* Somebody types Ctrl-C.                                                  *)
IntArrives ==
    /\ ~killed /\ handlers < MaxNested
    /\ IF handlers > 0 /\ ~sa.noDefer
       THEN pending' = TRUE /\ UNCHANGED <<killed, sa, handlers>>
       ELSE Deliver(handlers) /\ UNCHANGED pending
    /\ UNCHANGED <<intAt, warned>>

(* catch_int prints and returns; a signal that it kept off comes then.     *)
catch_int ==
    /\ ~killed /\ handlers > 0
    /\ warned' = TRUE
    /\ UNCHANGED intAt
    /\ pending' = FALSE
    /\ IF pending THEN Deliver(handlers - 1)
       ELSE handlers' = handlers - 1 /\ UNCHANGED <<killed, sa>>

-----------------------------------------------------------------------------
(* Once catch_int is installed SIGINT can end the program only if          *)
(* SA_RESETHAND happens to be set in sa_flags, which main() never assigns, *)
(* and not before the message unless SA_NODEFER is set as well             *)
(* (demo_singInt_handler.c:12-28).                                         *)
WarnedFirst ==
    killed /\ intAt = "pause" => sa.resetHand /\ (warned \/ sa.noDefer)

(* current_thread names the stack the processor runs on, and the other     *)
(* thread waits on its own stack, its period complete, at its entry or     *)
(* inside yield (demo_jmp.c:68-87).                                        *)
ThreadsAlternate ==
    cpu.stack \in JumpThreads =>
        /\ current_thread = cpu.stack
        /\ env[1 - cpu.stack].stack = 1 - cpu.stack
        /\ steps[1 - cpu.stack] = 0
=============================================================================
