-------------------------------- MODULE Osm --------------------------------
(***************************************************************************)
(* The timing library OS/osm.cpp: three functions that run an operation in *)
(* an unrolled loop between two readings of the time of day.  The clock    *)
(* may tick, and a reading may fail, at any moment.  A second has          *)
(* MicroPerSec ticks instead of a million.                                 *)
(***************************************************************************)
EXTENDS Integers

CONSTANTS MicroPerSec,    \* FROM_MICRO_TO_SEC_FACTOR
          NanoPerMicro,   \* FROM_SEC_TO_NANO_FACTOR / FROM_MICRO_TO_SEC_FACTOR
          MaxIterations,  \* bound on the argument of the caller
          MaxClock        \* bound on the clock

ASSUME OsmAssumption ==
    /\ {MicroPerSec, NanoPerMicro} \subseteq Nat \ {0}
    /\ {MaxIterations, MaxClock} \subseteq Nat

VARIABLES
    clock,       \* microseconds since the epoch
    osmAt,       \* the function that runs and its next step
    iterations,  \* its argument
    loops,       \* how often its loop has run
    times,       \* start_time and end_time
    passed,      \* the microseconds that have passed since start_time was read
    result

osmVars == <<clock, osmAt, iterations, loops, times, passed, result>>

UNROLLING_FACTOR == 7
osmFunctions == {"osm_operation_time", "osm_function_time", "osm_syscall_time"}
Place(f, step) == [f |-> f, step |-> step]
gettimeofday == [sec |-> clock \div MicroPerSec, usec |-> clock % MicroPerSec]

OsmInit ==
    /\ clock = 0 /\ loops = 0 /\ passed = 0 /\ result = 0
    /\ times = [start |-> gettimeofday, end |-> gettimeofday]
    /\ iterations \in 0 .. MaxIterations
    /\ osmAt \in {Place(f, "start") : f \in osmFunctions}

valid_iterations(n) == n # 0

(* Mutant of get_time_in_nano_sec: the microseconds are never negative.    *)
get_time_in_nano_secMod(start, end) ==
    NanoPerMicro * ((end.sec - start.sec) * MicroPerSec
                    + ((end.usec - start.usec) % MicroPerSec))

(* The arithmetic is that of doubles: the microseconds may be negative.    *)
get_time_in_nano_sec(start, end) ==
    NanoPerMicro * ((end.sec - start.sec) * MicroPerSec + (end.usec - start.usec))

(* ceil(iterations / UNROLLING_FACTOR).                                    *)
UnrolledIterations(n) == (n + UNROLLING_FACTOR - 1) \div UNROLLING_FACTOR

Tick ==
    /\ clock < MaxClock
    /\ clock' = clock + 1
    /\ passed' = passed + (IF osmAt.step \in {"loop", "end"} THEN 1 ELSE 0)
    /\ UNCHANGED <<osmAt, iterations, loops, times, result>>

Return(f, value) == result' = value /\ osmAt' = Place(f, "returned")

(* An argument of 0 fails (no other step is possible then), and so does a  *)
(* clock that cannot be read.                                              *)
Fail(f) ==
    /\ osmAt \in {Place(f, "start"), Place(f, "end")}
    /\ Return(f, -1)
    /\ UNCHANGED <<clock, iterations, loops, times, passed>>

ReadStart(f) ==
    /\ osmAt = Place(f, "start") /\ valid_iterations(iterations)
    /\ times' = [times EXCEPT !.start = gettimeofday]
    /\ osmAt' = Place(f, "loop")
    /\ UNCHANGED <<clock, iterations, loops, passed, result>>

(* One turn of the loop: UNROLLING_FACTOR additions, calls or traps.       *)
Turn(f) ==
    /\ osmAt = Place(f, "loop")
    /\ IF loops < UnrolledIterations(iterations)
       THEN loops' = loops + 1 /\ UNCHANGED osmAt
       ELSE osmAt' = Place(f, "end") /\ UNCHANGED loops
    /\ UNCHANGED <<clock, iterations, times, passed, result>>

ReadEnd(f) ==
    /\ osmAt = Place(f, "end")
    /\ times' = [times EXCEPT !.end = gettimeofday]
    /\ Return(f, get_time_in_nano_sec(times.start, gettimeofday))
    /\ UNCHANGED <<clock, iterations, loops, passed>>

Measure(f) == Fail(f) \/ ReadStart(f) \/ Turn(f) \/ ReadEnd(f)

osm_operation_time == Measure("osm_operation_time")
osm_function_time == Measure("osm_function_time")
osm_syscall_time == Measure("osm_syscall_time")

OsmNext == Tick \/ osm_operation_time \/ osm_function_time \/ osm_syscall_time

-----------------------------------------------------------------------------
(* A function that succeeds has done the operation at least as often as    *)
(* asked, and less than a turn of the loop more, and reports the time that *)
(* has passed, also when the two readings lie in different seconds         *)
(* (osm.cpp:24-41, 112-115).                                               *)
TimesTheLoop ==
    osmAt.step = "returned" /\ result # -1 =>
        /\ UNROLLING_FACTOR * loops \in iterations .. iterations + UNROLLING_FACTOR - 1
        /\ result = NanoPerMicro * passed
=============================================================================
