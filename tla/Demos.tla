------------------------------- MODULE Demos -------------------------------
(***************************************************************************)
(* The small programs of the repository side by side: a behaviour is the   *)
(* run of one of them, of all its threads, from main() to the end.         *)
(***************************************************************************)
EXTENDS BarrierDemo, AtomicDemo, SignalDemo, Osm

VARIABLE program

demoVars == <<program, barrierVars, atomicVars, wordVars, jumpVars, timerVars, intVars,
              osmVars>>

DemosInit ==
    /\ program \in {"barrierdemo", "atomicdemo", "multivar", "jmp", "itimer", "singInt",
                   "osm"}
    /\ BarrierInit /\ AtomicInit /\ JumpInit /\ TimerInit /\ IntInit /\ OsmInit
    /\ program # "singInt" => ~sa.resetHand /\ ~sa.noDefer
    /\ program # "osm" => iterations = 0 /\ osmAt.f = "osm_operation_time"

OthersStop ==
    /\ UNCHANGED program
    /\ program # "barrierdemo" => UNCHANGED barrierVars
    /\ program # "atomicdemo" => UNCHANGED atomicVars
    /\ program # "multivar" => UNCHANGED wordVars
    /\ program # "jmp" => UNCHANGED jumpVars
    /\ program # "itimer" => UNCHANGED timerVars
    /\ program # "singInt" => UNCHANGED intVars
    /\ program # "osm" => UNCHANGED osmVars

Running(name, step) == program = name /\ step /\ OthersStop

(* main() has joined its threads, or the function has returned.            *)
Stopped ==
    /\ \/ program = "atomicdemo" /\ FooJoined
       \/ program = "multivar" /\ CountJoined
       \/ program = "singInt" /\ killed
       \/ program = "osm" /\ osmAt.step = "returned"
    /\ UNCHANGED demoVars

DemosNext ==
    \/ Running("barrierdemo", DemoNext)
    \/ Running("atomicdemo", FooNext)
    \/ Running("multivar", CountNext)
    \/ Running("jmp", JumpNext)
    \/ Running("itimer", timer_handler \/ TimerMain)
    \/ Running("singInt", IntInstall \/ IntArrives \/ catch_int)
    \/ Running("osm", OsmNext)
    \/ Stopped

(* Every thread that can run does run, and a free mutex is granted to a    *)
(* requester: the calls of barrier() are bounded, so weak fairness         *)
(* suffices.  The clock need not tick, and the timer need not expire.      *)
DemosSpec ==
    /\ DemosInit
    /\ [][DemosNext]_demoVars
    /\ \A t \in Threads : WF_demoVars(Running("barrierdemo", foo(t)))
    /\ WF_demoVars(Running("jmp", JumpNext))
    /\ WF_demoVars(Running("itimer", TimerMain))

-----------------------------------------------------------------------------
(* An expiry that finds gotit clear is reported: main() does not reset the *)
(* flag between the handler that sets it and the report.  (An expiry       *)
(* between the report and the reset is lost, demo_itimer.c:15-18, 48-55.)  *)
ExpiryReported == owed ~> ~owed
=============================================================================
