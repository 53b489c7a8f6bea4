---------------------------- MODULE DemosProofs ----------------------------
(***************************************************************************)
(* For every number of threads, turns and rounds: what the small programs  *)
(* promise.                                                                *)
(***************************************************************************)
EXTENDS Demos, DataLemmas

(* The threads of barrierdemo use the barrier as BarrierSpec allows.       *)
THEOREM DemoDrivesBarrier == DemosSpec => BarrierSpec
<1>1. DemosInit => BarrierInit  BY DEF DemosInit
<1>2. [DemosNext]_demoVars => [BarrierNext]_barrierVars
  <2>1. DemoNext => [BarrierNext]_barrierVars
    BY DEF DemoNext, Finished, foo, barrier, BarrierNext
  <2> QED
    BY <2>1 DEF DemosNext, Running, OthersStop, Stopped, demoVars
<1> QED  BY <1>1, <1>2, PTL DEF DemosSpec, BarrierSpec

-----------------------------------------------------------------------------
(* demo_jmp: each thread waits with its own bookmark, its period complete. *)
Bookmarks == [stack : JumpThreads, place : {"entry", "resumed"}]

Setting ==
    /\ cpu \in {Bookmark(Main, place) : place \in {"setup0", "setup1", "jump"}}
    /\ \A tid \in JumpThreads : steps[tid] = 0
    /\ cpu.place # "setup0" => env[0] = Bookmark(0, "entry")
    /\ cpu.place = "jump" => env[1] = Bookmark(1, "entry")

Alternating ==
    /\ current_thread = cpu.stack
    /\ cpu \in [stack : JumpThreads, place : {"entry", "loop", "yield", "resumed"}]
    /\ cpu.place # "loop" => steps[cpu.stack] = 0
    /\ env[1 - cpu.stack] \in Bookmarks
    /\ env[1 - cpu.stack].stack = 1 - cpu.stack
    /\ steps[1 - cpu.stack] = 0

JumpInv ==
    /\ DOMAIN env = JumpThreads /\ DOMAIN steps = JumpThreads
    /\ Setting \/ Alternating

LEMMA JumpStep == JumpInv /\ JumpNext => JumpInv'
<1> SUFFICES ASSUME JumpInv, JumpNext  PROVE JumpInv'  OBVIOUS
<1> USE DEF JumpThreads, Main, Bookmark
<1>0. DOMAIN env' = JumpThreads /\ DOMAIN steps' = JumpThreads
  BY DEF JumpInv, JumpNext, setup_thread, JumpMain, JumpLoop, JumpYield, JumpResume
<1>1. CASE setup_thread(0, "setup0", "setup1") \/ setup_thread(1, "setup1", "jump")
  <2>1. Setting  BY <1>1 DEF JumpInv, Alternating, setup_thread
  <2>2. Setting'  BY <1>1, <2>1 DEF JumpInv, Setting, setup_thread
  <2> QED  BY <1>0, <2>2 DEF JumpInv
<1>2. CASE JumpMain
  <2>1. Setting  BY <1>2 DEF JumpInv, Alternating, JumpMain
  <2>2. Alternating'
    BY <1>2, <2>1 DEF Setting, Alternating, Bookmarks, JumpMain, jump_to_thread
  <2> QED  BY <1>0, <2>2 DEF JumpInv
<1>3. ASSUME NEW tid \in JumpThreads, JumpLoop(tid)  PROVE JumpInv'
  <2>1. Alternating  BY <1>3 DEF JumpInv, Setting, JumpLoop
  <2>2. Alternating'  BY <1>3, <2>1 DEF JumpInv, Alternating, JumpLoop
  <2> QED  BY <1>0, <2>2 DEF JumpInv
<1>4. CASE JumpYield
  <2>1. Alternating  BY <1>4 DEF JumpInv, Setting, JumpYield
  <2>2. Alternating'
    BY <1>4, <2>1 DEF JumpInv, Alternating, Bookmarks, JumpYield, jump_to_thread
  <2> QED  BY <1>0, <2>2 DEF JumpInv
<1>5. CASE JumpResume
  <2>1. Alternating  BY <1>5 DEF JumpInv, Setting, JumpResume
  <2>2. Alternating'  BY <1>5, <2>1 DEF Alternating, JumpResume
  <2> QED  BY <1>0, <2>2 DEF JumpInv
<1> QED  BY <1>1, <1>2, <1>3, <1>4, <1>5 DEF JumpNext

(* The two threads of demo_jmp take turns for ever, each on its own stack. *)
THEOREM JumpsAlternate == DemosSpec => []ThreadsAlternate
<1>1. DemosInit => JumpInv
  BY DEF DemosInit, JumpInit, JumpInv, Setting, JumpThreads, Bookmark, Main
<1>2. JumpInv /\ [DemosNext]_demoVars => JumpInv'
  <2>1. [DemosNext]_demoVars => JumpNext \/ UNCHANGED jumpVars
    BY DEF DemosNext, Running, OthersStop, Stopped, demoVars
  <2>2. JumpInv /\ UNCHANGED jumpVars => JumpInv'
    BY DEF JumpInv, Setting, Alternating, jumpVars
  <2> QED  BY <2>1, <2>2, JumpStep
<1>3. JumpInv => ThreadsAlternate
  BY DEF JumpInv, Setting, Alternating, ThreadsAlternate, JumpThreads, Bookmark, Main
<1> QED  BY <1>1, <1>2, <1>3, PTL DEF DemosSpec

-----------------------------------------------------------------------------
(* demo_singInt: a disposition that catch_int had, and has no more, was    *)
(* reset by a delivery whose handler has run or still runs.                *)
IntInv ==
    /\ handlers \in Nat /\ sa.noDefer \in BOOLEAN /\ sa.resetHand \in BOOLEAN
    /\ sa.disposition \in {"default", "catch_int"}
    /\ sa = [disposition |-> sa.disposition, resetHand |-> sa.resetHand, noDefer |-> sa.noDefer]
    /\ intAt = "pause" /\ sa.disposition = "default" => sa.resetHand /\ (warned \/ handlers > 0)
    /\ intAt = "pause" /\ killed => sa.disposition = "default" /\ (warned \/ sa.noDefer)

LEMMA IntStep == IntInv /\ (IntInstall \/ IntArrives \/ catch_int) => IntInv'
<1> USE DEF IntInv
<1>1. IntInv /\ IntInstall => IntInv'  BY DEF IntInstall
<1>2. IntInv /\ IntArrives => IntInv'  BY DEF IntArrives, Deliver
<1>3. IntInv /\ catch_int => IntInv'  BY DEF catch_int, Deliver
<1> QED  BY <1>1, <1>2, <1>3

(* Ctrl-C ends demo_singInt only in the way its uninitialised flags allow, *)
(* however many handlers interrupt one another.                            *)
THEOREM WarnsFirst == DemosSpec => []WarnedFirst
<1>1. DemosInit => IntInv  BY DEF DemosInit, IntInit, IntInv
<1>2. IntInv /\ [DemosNext]_demoVars => IntInv'
  <2>1. [DemosNext]_demoVars => IntInstall \/ IntArrives \/ catch_int \/ UNCHANGED intVars
    BY DEF DemosNext, Running, OthersStop, Stopped, demoVars
  <2>2. IntInv /\ UNCHANGED intVars => IntInv'  BY DEF IntInv, intVars
  <2> QED  BY <2>1, <2>2, IntStep
<1>3. IntInv => WarnedFirst  BY DEF IntInv, WarnedFirst
<1> QED  BY <1>1, <1>2, <1>3, PTL DEF DemosSpec

-----------------------------------------------------------------------------
(* osm: what the clock shows is the first reading and the time since.      *)
Reading(r) == r.sec * MicroPerSec + r.usec
Times == [sec : Nat, usec : Nat]

OsmInv ==
    /\ clock \in Nat /\ passed \in Nat /\ iterations \in Nat /\ loops \in Nat
    /\ times.start \in Times /\ times = [start |-> times.start, end |-> times.end]
    /\ osmAt \in [f : osmFunctions, step : {"start", "loop", "end", "returned"}]
    /\ osmAt.step = "start" => loops = 0 /\ passed = 0
    /\ osmAt.step \in {"loop", "end"} => clock = Reading(times.start) + passed
    /\ osmAt.step = "loop" => loops <= UnrolledIterations(iterations)
    /\ osmAt.step = "end" => loops = UnrolledIterations(iterations)
    /\ osmAt.step = "returned" /\ result # -1 =>
          loops = UnrolledIterations(iterations) /\ result = NanoPerMicro * passed

(* A reading is the clock.                                                 *)
LEMMA ReadingExact ==
  ASSUME clock \in Nat
  PROVE  gettimeofday \in Times /\ Reading(gettimeofday) = clock
<1>1. MicroPerSec \in Nat \ {0}  BY OsmAssumption
<1>2. /\ clock \div MicroPerSec \in Nat /\ clock % MicroPerSec \in Nat
      /\ (clock \div MicroPerSec) * MicroPerSec + (clock % MicroPerSec) = clock
  BY <1>1
<1> QED  BY <1>2 DEF gettimeofday, Reading, Times

(* The difference of two readings, whichever has more microseconds.        *)
LEMMA DifferenceExact ==
  ASSUME NEW a \in Times, NEW b \in Times
  PROVE  get_time_in_nano_sec(a, b) = NanoPerMicro * (Reading(b) - Reading(a))
<1>1. MicroPerSec \in Nat /\ NanoPerMicro \in Nat  BY OsmAssumption
<1>2. (b.sec - a.sec) * MicroPerSec = b.sec * MicroPerSec - a.sec * MicroPerSec
  BY <1>1 DEF Times
<1>3. (b.sec - a.sec) * MicroPerSec + (b.usec - a.usec) = Reading(b) - Reading(a)
  <2> DEFINE p == b.sec * MicroPerSec
             q == a.sec * MicroPerSec
  <2>1. p \in Int /\ q \in Int /\ a.usec \in Int /\ b.usec \in Int  BY <1>1 DEF Times
  <2>2. (b.sec - a.sec) * MicroPerSec = p - q  BY <1>2
  <2>3. Reading(b) = p + b.usec /\ Reading(a) = q + a.usec  BY DEF Reading
  <2> HIDE DEF p, q
  <2> QED  BY <2>1, <2>2, <2>3
<1> QED  BY <1>3 DEF get_time_in_nano_sec

LEMMA OsmStep == OsmInv /\ OsmNext => OsmInv'
<1> SUFFICES ASSUME OsmInv, OsmNext  PROVE OsmInv'  OBVIOUS
<1> USE DEF OsmInv, Place
<1>1. CASE Tick
  <2>1. Reading(times.start) \in Int  BY OsmAssumption DEF Reading, Times
  <2> HIDE DEF Place
  <2> QED  BY <1>1, <2>1 DEF Tick, Reading
<1>2. ASSUME NEW f \in osmFunctions, Fail(f)  PROVE OsmInv'
  BY <1>2 DEF Fail, Return
<1>3. ASSUME NEW f \in osmFunctions, ReadStart(f)  PROVE OsmInv'
  <2>1. 0 <= UnrolledIterations(iterations)
    BY DEF UnrolledIterations, UNROLLING_FACTOR
  <2>2. times'.start = gettimeofday /\ times' = [start |-> times'.start, end |-> times'.end]
    BY <1>3 DEF ReadStart
  <2>3. loops = 0 /\ passed = 0  BY <1>3 DEF ReadStart
  <2>4. osmAt' \in [f : osmFunctions, step : {"start", "loop", "end", "returned"}] /\ osmAt'.step = "loop"
    BY <1>3 DEF ReadStart
  <2>5. UNCHANGED <<clock, iterations, loops, passed, result>>  BY <1>3 DEF ReadStart
  <2>6. Reading(times'.start) = clock /\ times'.start \in Times
    BY <2>2, ReadingExact
  <2> QED  BY <2>1, <2>2, <2>3, <2>4, <2>5, <2>6 DEF Reading, UnrolledIterations
<1>4. ASSUME NEW f \in osmFunctions, Turn(f)  PROVE OsmInv'
  <2>1. UnrolledIterations(iterations) \in Nat
    BY DEF UnrolledIterations, UNROLLING_FACTOR
  <2>2. UnrolledIterations(iterations)' = UnrolledIterations(iterations)
        /\ Reading(times.start)' = Reading(times.start)
    BY <1>4 DEF Turn, UnrolledIterations, Reading
  <2> QED  BY <1>4, <2>1, <2>2 DEF Turn
<1>5. ASSUME NEW f \in osmFunctions, ReadEnd(f)  PROVE OsmInv'
  <2>1. result' = NanoPerMicro * (clock - Reading(times.start))
    BY <1>5, ReadingExact, DifferenceExact DEF ReadEnd, Return
  <2>2. clock - Reading(times.start) = passed
    BY <1>5, OsmAssumption DEF ReadEnd, Reading, Times
  <2>3. /\ times'.start = times.start /\ times' = [start |-> times'.start, end |-> times'.end]
        /\ UNCHANGED <<clock, iterations, loops, passed>>
        /\ osmAt.step = "end" /\ osmAt'.step = "returned"
        /\ osmAt' \in [f : osmFunctions, step : {"start", "loop", "end", "returned"}]
    BY <1>5 DEF ReadEnd, Return
  <2> QED  BY <2>1, <2>2, <2>3 DEF UnrolledIterations
<1> QED
  BY <1>1, <1>2, <1>3, <1>4, <1>5
     DEF OsmNext, osm_operation_time, osm_function_time, osm_syscall_time, Measure, osmFunctions

(* For any length of a second, any argument and any speed of the clock:    *)
(* the loop runs as often as asked, and the time reported is what passed.  *)
THEOREM TimesExactly == DemosSpec => []TimesTheLoop
<1>1. DemosInit => OsmInv
  <2>1. ASSUME OsmInit  PROVE OsmInv
    <3>1. gettimeofday \in Times  BY <2>1, ReadingExact DEF OsmInit
    <3> QED  BY <2>1, <3>1, OsmAssumption DEF OsmInit, OsmInv, Place
  <2> QED  BY <2>1 DEF DemosInit
<1>2. OsmInv /\ [DemosNext]_demoVars => OsmInv'
  <2>1. [DemosNext]_demoVars => OsmNext \/ UNCHANGED osmVars
    BY DEF DemosNext, Running, OthersStop, Stopped, demoVars
  <2>2. OsmInv /\ UNCHANGED osmVars => OsmInv'
    BY DEF OsmInv, osmVars, Reading, UnrolledIterations
  <2> QED  BY <2>1, <2>2, OsmStep
<1>3. OsmInv => TimesTheLoop
  BY DEF OsmInv, TimesTheLoop, UnrolledIterations, UNROLLING_FACTOR
<1> QED  BY <1>1, <1>2, <1>3, PTL DEF DemosSpec

-----------------------------------------------------------------------------
(* atomicdemo: the increments there are to make, and those made when each  *)
(* thread t has made f[t].                                                 *)
Increments == FooThreads \X (0 .. Turns - 1)
Made(f) == {p \in Increments : p[2] < f[p[1]]}

(* What the atomic counter has seen, and what was stored in the plain one. *)
Counts == [t \in FooThreads |-> fooAt[t].i + IF fooAt[t].place = "atomic" THEN 0 ELSE 1]
Stores == [t \in FooThreads |-> fooAt[t].i]

FooTypeOK ==
    /\ atomic_counter \in Nat /\ bad_counter \in Nat
    /\ fooAt \in [FooThreads -> [i : 0 .. Turns, place : {"atomic", "load", "store"}]]
    /\ \A t \in FooThreads : fooAt[t].i = Turns => fooAt[t].place = "atomic"
    /\ loaded \in [FooThreads -> Nat]

(* What was loaded is no more than was stored; nothing is 0 after the      *)
(* first store, and a thread's second load comes after its first store.    *)
FooInv ==
    /\ FooTypeOK
    /\ atomic_counter = Cardinality(Made(Counts))
    /\ bad_counter <= Cardinality(Made(Stores))
    /\ \A t \in FooThreads : fooAt[t].place = "store" => loaded[t] <= Cardinality(Made(Stores))
    /\ \A t \in FooThreads : fooAt[t].i > 0 =>
          bad_counter > 0 /\ (fooAt[t].place = "store" => loaded[t] > 0)
    /\ FooJoined => bad_counter >= IF Turns >= 2 THEN 2 ELSE Turns

LEMMA RangeFinite ==
  ASSUME NEW n \in Nat \ {0}
  PROVE  IsFiniteSet(0 .. n - 1) /\ Cardinality(0 .. n - 1) = n
<1>1. IsFiniteSet(0 .. n - 1)
      /\ Cardinality(0 .. n - 1) = IF 0 > n - 1 THEN 0 ELSE (n - 1) - 0 + 1
  BY FS_Interval
<1> QED  BY <1>1

LEMMA IncrementsFinite ==
  /\ IsFiniteSet(Increments) /\ Cardinality(Increments) = Level * Turns
  /\ \A S \in SUBSET Increments : /\ IsFiniteSet(S) /\ Cardinality(S) \in Nat
                                 /\ Cardinality(S) <= Level * Turns
<1>1. IsFiniteSet(Increments) /\ Cardinality(Increments) = Level * Turns
  <2> DEFINE A == 0 .. Level - 1
             B == 0 .. Turns - 1
  <2>1. IsFiniteSet(A) /\ IsFiniteSet(B) /\ Cardinality(A) = Level /\ Cardinality(B) = Turns
    BY RangeFinite, AtomicAssumption
  <2>2. Increments = A \X B  BY DEF Increments, FooThreads
  <2> HIDE DEF A, B
  <2> QED  BY <2>1, <2>2, FS_Product
<1> QED  BY <1>1, FS_Subset, FS_CardinalityType

(* One thread makes one more increment.                                    *)
LEMMA OneMore ==
  ASSUME NEW f \in [FooThreads -> Nat], NEW g \in [FooThreads -> Nat],
         NEW t \in FooThreads, f[t] < Turns, g = [f EXCEPT ![t] = @ + 1]
  PROVE  Cardinality(Made(g)) = Cardinality(Made(f)) + 1
<1> DEFINE mine == <<t, f[t]>>
<1>1. \A p \in Increments : p = <<p[1], p[2]>> /\ p[1] \in FooThreads /\ p[2] \in Nat
  BY AtomicAssumption DEF Increments
<1>2. mine \in Increments /\ mine \notin Made(f)
  BY AtomicAssumption DEF Increments, Made
<1>3. \A p \in Increments : p[2] < g[p[1]] <=> p[2] < f[p[1]] \/ p = mine
  <2> SUFFICES ASSUME NEW p \in Increments
               PROVE  p[2] < g[p[1]] <=> p[2] < f[p[1]] \/ p = mine
    OBVIOUS
  <2>1. CASE p[1] = t
    <3>1. g[p[1]] = f[t] + 1 /\ f[p[1]] = f[t] /\ f[t] \in Nat /\ p[2] \in Nat  BY <1>1, <2>1
    <3>2. p = mine <=> p[2] = f[t]  BY <1>1, <2>1
    <3> QED  BY <3>1, <3>2
  <2>2. CASE p[1] # t
    <3>1. g[p[1]] = f[p[1]]  BY <1>1, <2>2
    <3> QED  BY <2>2, <3>1
  <2> QED  BY <2>1, <2>2
<1> HIDE DEF mine
<1>4. Made(g) = Made(f) \cup {mine}  BY <1>2, <1>3 DEF Made
<1>5. IsFiniteSet(Made(f))  BY IncrementsFinite DEF Made
<1> QED  BY <1>2, <1>4, <1>5, FS_AddElement

LEMMA FooStep == FooInv /\ FooNext => FooInv'
<1> SUFFICES ASSUME FooInv, NEW t \in FooThreads,
                    AtomicIncrement(t) \/ Load(t) \/ Store(t)
             PROVE  FooInv'
  BY DEF FooNext
<1>0. Turns \in Nat \ {0}  BY AtomicAssumption
<1>a. /\ Counts \in [FooThreads -> Nat] /\ Stores \in [FooThreads -> Nat]
      /\ Cardinality(Made(Counts)) \in Nat /\ Cardinality(Made(Stores)) \in Nat
  <2>1. Made(Counts) \in SUBSET Increments /\ Made(Stores) \in SUBSET Increments  BY DEF Made
  <2>2. Counts \in [FooThreads -> Nat] /\ Stores \in [FooThreads -> Nat]
    BY <1>0 DEF FooInv, FooTypeOK, Counts, Stores
  <2> QED  BY <2>1, <2>2, IncrementsFinite
<1> DEFINE i == fooAt[t].i
<1>1. CASE AtomicIncrement(t)
  <2>1. /\ fooAt[t].place = "atomic" /\ i \in 0 .. Turns - 1
        /\ atomic_counter' = atomic_counter + 1
        /\ fooAt' = [fooAt EXCEPT ![t].place = "load"]
        /\ UNCHANGED <<bad_counter, loaded>>
    BY <1>0, <1>1 DEF AtomicIncrement, FooInv, FooTypeOK
  <2>2. FooTypeOK'  BY <1>0, <2>1 DEF FooInv, FooTypeOK
  <2>3. \A u \in FooThreads : /\ fooAt'[u].i = fooAt[u].i
                             /\ fooAt'[u].place = IF u = t THEN "load" ELSE fooAt[u].place
    BY <2>1 DEF FooInv, FooTypeOK
  <2>4. Counts' \in [FooThreads -> Nat] /\ Counts' = [Counts EXCEPT ![t] = @ + 1] /\ Counts[t] < Turns
    BY <1>0, <2>1, <2>3 DEF Counts, FooInv, FooTypeOK
  <2>5. Cardinality(Made(Counts')) = Cardinality(Made(Counts)) + 1  BY <1>a, <2>4, OneMore
  <2>6. Stores' = Stores  BY <2>3 DEF Stores
  <2>7. ~ FooJoined'  BY <2>3 DEF FooJoined, At
  <2>8. Made(Counts)' = Made(Counts') /\ Made(Stores)' = Made(Stores)
    BY <2>6 DEF Made
  <2> QED  BY <1>a, <2>1, <2>2, <2>3, <2>5, <2>7, <2>8 DEF FooInv
<1>2. CASE Load(t)
  <2>1. /\ fooAt[t].place = "load"
        /\ loaded' = [loaded EXCEPT ![t] = bad_counter]
        /\ fooAt' = [fooAt EXCEPT ![t].place = "store"]
        /\ UNCHANGED <<atomic_counter, bad_counter>>
    BY <1>2 DEF Load
  <2>2. FooTypeOK'  BY <1>0, <2>1 DEF FooInv, FooTypeOK
  <2>3. \A u \in FooThreads : /\ fooAt'[u].i = fooAt[u].i
                             /\ fooAt'[u].place = IF u = t THEN "store" ELSE fooAt[u].place
    BY <2>1 DEF FooInv, FooTypeOK
  <2>9. \A u \in FooThreads : loaded'[u] = IF u = t THEN bad_counter ELSE loaded[u]
    BY <2>1 DEF FooInv, FooTypeOK
  <2>4. Counts' = Counts /\ Stores' = Stores  BY <2>1, <2>3 DEF Counts, Stores
  <2>5. ~ FooJoined'  BY <2>3 DEF FooJoined, At
  <2>6. Made(Counts)' = Made(Counts) /\ Made(Stores)' = Made(Stores)  BY <2>4 DEF Made
  <2>7. \A u \in FooThreads :
           fooAt'[u].place = "store" => loaded'[u] <= Cardinality(Made(Stores)')
    BY <2>3, <2>6, <2>9 DEF FooInv
  <2>8. \A u \in FooThreads : fooAt'[u].i > 0 =>
           bad_counter' > 0 /\ (fooAt'[u].place = "store" => loaded'[u] > 0)
    BY <2>1, <2>3, <2>9 DEF FooInv
  <2> QED  BY <2>1, <2>2, <2>5, <2>6, <2>7, <2>8 DEF FooInv
<1>3. CASE Store(t)
  <2>1. /\ fooAt[t].place = "store" /\ i \in 0 .. Turns - 1
        /\ bad_counter' = loaded[t] + 1
        /\ fooAt' = [fooAt EXCEPT ![t] = At(i + 1, "atomic")]
        /\ UNCHANGED <<atomic_counter, loaded>>
    <3>1. fooAt[t].place = "store"  BY <1>3 DEF Store
    <3>2. i \in 0 .. Turns /\ i # Turns  BY <3>1 DEF FooInv, FooTypeOK
    <3> QED  BY <1>0, <1>3, <3>1, <3>2 DEF Store
  <2>2. FooTypeOK'  BY <1>0, <2>1 DEF FooInv, FooTypeOK, At
  <2>3. \A u \in FooThreads : /\ fooAt'[u].i = IF u = t THEN i + 1 ELSE fooAt[u].i
                             /\ fooAt'[u].place = IF u = t THEN "atomic" ELSE fooAt[u].place
    BY <2>1 DEF FooInv, FooTypeOK, At
  <2>4. Stores' \in [FooThreads -> Nat] /\ Stores' = [Stores EXCEPT ![t] = @ + 1] /\ Stores[t] < Turns
    BY <1>0, <1>a, <2>1, <2>3 DEF Stores
  <2>5. Cardinality(Made(Stores')) = Cardinality(Made(Stores)) + 1  BY <1>a, <2>4, OneMore
  <2>6. Counts' = Counts
    <3>1. \A u \in FooThreads : Counts'[u] = Counts[u]  BY <1>0, <2>1, <2>3 DEF Counts
    <3> QED  BY <3>1 DEF Counts
  <2>7. Made(Counts)' = Made(Counts) /\ Made(Stores)' = Made(Stores')  BY <2>6 DEF Made
  <2>8. FooJoined' => bad_counter' >= IF Turns >= 2 THEN 2 ELSE Turns
    <3>1. FooJoined' => i + 1 = Turns  BY <2>3 DEF FooJoined, At
    <3>2. i > 0 => loaded[t] > 0  BY <2>1 DEF FooInv
    <3>3. loaded[t] \in Nat  BY DEF FooInv, FooTypeOK
    <3> QED  BY <1>0, <2>1, <3>1, <3>2, <3>3
  <2>9. loaded[t] \in Nat /\ loaded[t] <= Cardinality(Made(Stores)) /\ bad_counter' > 0
    BY <2>1 DEF FooInv, FooTypeOK
  <2>10. /\ bad_counter' <= Cardinality(Made(Stores)')
         /\ \A u \in FooThreads :
               fooAt'[u].place = "store" => loaded'[u] <= Cardinality(Made(Stores)')
    <3>1. \A u \in FooThreads : loaded[u] \in Nat  BY DEF FooInv, FooTypeOK
    <3>2. \A u \in FooThreads : fooAt[u].place = "store" => loaded[u] <= Cardinality(Made(Stores))
      BY DEF FooInv
    <3>3. Cardinality(Made(Stores)') = Cardinality(Made(Stores)) + 1  BY <2>5, <2>7
    <3> QED  BY <1>a, <2>1, <2>3, <2>9, <3>1, <3>2, <3>3
  <2>11. \A u \in FooThreads : fooAt'[u].i > 0 =>
            bad_counter' > 0 /\ (fooAt'[u].place = "store" => loaded'[u] > 0)
    BY <2>1, <2>3, <2>9 DEF FooInv
  <2> QED  BY <2>1, <2>2, <2>7, <2>8, <2>10, <2>11 DEF FooInv
<1> QED  BY <1>1, <1>2, <1>3

(* However many threads increment however often: the atomic counter ends   *)
(* exact, and the plain one, which loses increments, within these bounds.  *)
THEOREM AtomicIsExact == DemosSpec => []TotalsExact
<1>1. DemosInit => FooInv
  <2> SUFFICES ASSUME AtomicInit  PROVE FooInv  BY DEF DemosInit
  <2>0. Turns \in Nat \ {0} /\ Level \in Nat \ {0}  BY AtomicAssumption
  <2>1. FooTypeOK  BY <2>0 DEF AtomicInit, FooTypeOK, At
  <2>2. \A t \in FooThreads : fooAt[t] = At(0, "atomic")  BY DEF AtomicInit
  <2>3. \A p \in Increments : p[1] \in FooThreads /\ p[2] \in Nat  BY <2>0 DEF Increments
  <2>4. \A t \in FooThreads : Counts[t] = 0 /\ Stores[t] = 0  BY <2>2 DEF Counts, Stores, At
  <2>5. Made(Counts) = {} /\ Made(Stores) = {}  BY <2>3, <2>4 DEF Made
  <2>6. ~ FooJoined
    <3>1. 0 \in FooThreads  BY <2>0 DEF FooThreads
    <3> QED  BY <2>0, <2>2, <3>1 DEF FooJoined, At
  <2> QED  BY <2>1, <2>2, <2>5, <2>6, FS_EmptySet DEF AtomicInit, FooInv, At
<1>2. FooInv /\ [DemosNext]_demoVars => FooInv'
  <2>1. [DemosNext]_demoVars => FooNext \/ UNCHANGED atomicVars
    BY DEF DemosNext, Running, OthersStop, Stopped, demoVars
  <2>2. ASSUME FooInv, UNCHANGED atomicVars  PROVE FooInv'
    <3>1. UNCHANGED <<Counts, Stores, FooJoined>>
      BY <2>2 DEF Counts, Stores, FooJoined, atomicVars
    <3>2. UNCHANGED <<Made(Counts), Made(Stores)>>  BY <3>1 DEF Made
    <3>3. FooTypeOK'  BY <2>2 DEF FooInv, FooTypeOK, atomicVars
    <3> QED  BY <2>2, <3>1, <3>2, <3>3 DEF FooInv, atomicVars
  <2> QED  BY <2>1, <2>2, FooStep
<1>3. FooInv => TotalsExact
  <2> SUFFICES ASSUME FooInv, FooJoined
               PROVE  /\ atomic_counter = Level * Turns
                      /\ bad_counter \in (IF Turns >= 2 THEN 2 ELSE Turns) .. Level * Turns
    BY DEF TotalsExact
  <2>1. Made(Counts) = Increments /\ Made(Stores) = Increments
    <3>1. \A p \in Increments : p[1] \in FooThreads /\ p[2] < Turns
      BY AtomicAssumption DEF Increments
    <3>2. \A t \in FooThreads : Counts[t] = Turns /\ Stores[t] = Turns
      BY AtomicAssumption DEF FooJoined, At, Counts, Stores
    <3> QED  BY <3>1, <3>2 DEF Made
  <2> DEFINE all == Level * Turns
  <2>2. all \in Nat /\ Turns \in Nat  BY AtomicAssumption
  <2>3. /\ bad_counter \in Nat /\ bad_counter <= all /\ atomic_counter = all
        /\ bad_counter >= IF Turns >= 2 THEN 2 ELSE Turns
    BY <2>1, IncrementsFinite DEF FooInv, FooTypeOK
  <2> HIDE DEF all
  <2>4. bad_counter \in (IF Turns >= 2 THEN 2 ELSE Turns) .. all  BY <2>2, <2>3
  <2> QED  BY <2>3, <2>4 DEF all
<1> QED  BY <1>1, <1>2, <1>3, PTL DEF DemosSpec

-----------------------------------------------------------------------------
(* atomicdemo_multivar: what word is made of.  Additions(n, f) are those   *)
(* made when each thread t is through with f[t] of its indices, at the     *)
(* multiples of n.                                                         *)
Indices == 0 .. MultiTurns - 1
AllAdditions(n) == CountThreads \X {i \in Indices : i % n = 0}
Additions(n, f) == {p \in AllAdditions(n) : p[2] < f[p[1]]}

SmallDone == [t \in CountThreads |-> IF countAt[t].place = "large" THEN countAt[t].i + 1
                                                                 ELSE countAt[t].i]
LargeDone == [t \in CountThreads |-> countAt[t].i]
TopDone == {t \in OddThreads : countAt[t].place = "done"}

SmallCount == Cardinality(Additions(Small, SmallDone))
LargeCount == Cardinality(Additions(Large, LargeDone))
TopCount == Cardinality(TopDone)

Word(low, mid, top) == low + (mid * Bit[LowBits]) + (top * Bit[TopBit])

WordInv ==
    /\ countAt \in [CountThreads -> [i : 0 .. MultiTurns, place : {"small", "large", "done"}]]
    /\ \A t \in CountThreads : /\ countAt[t].place = "large" => countAt[t].i < MultiTurns
                               /\ countAt[t].place = "done" => countAt[t].i = MultiTurns
    /\ word = Word(SmallCount, LargeCount, TopCount)

(* The sizes of the fields: the middle one reaches up to the shared bit.   *)
LEMMA FieldSizes ==
  /\ Bit[LowBits] \in Nat /\ Bit[LowBits] > 0
  /\ Bit[MidBits - 1] \in Nat /\ Bit[MidBits - 1] > 0
  /\ Bit[MidBits] = 2 * Bit[MidBits - 1]
  /\ Bit[TopBit] = Bit[MidBits - 1] * Bit[LowBits]
  /\ Bit[TopBit + 2] = 4 * Bit[TopBit]
<1> DEFINE n == TopBit + 2
<1>1. LowBits \in Nat \ {0} /\ MidBits \in Nat \ {0} /\ n = LowBits + MidBits + 1
      /\ TopBit = LowBits + MidBits - 1
  BY AtomicAssumption DEF TopBit
<1>2. Bit = PowersUpTo(2, n, Bit)
  <2>1. n \in Nat  BY <1>1
  <2>2. \E f : f = PowersUpTo(2, n, f)
    <3> HIDE DEF n
    <3> QED  BY <2>1, PowersExist
  <2> QED  BY <2>2 DEF Bit, PowersUpTo
<1> HIDE DEF n
<1>3. /\ \A d \in 0 .. n : Bit[d] \in Nat /\ Bit[d] > 0
      /\ \A d \in 0 .. n - 1 : Bit[d + 1] = 2 * Bit[d]
  <2>1. n \in Nat  BY <1>1
  <2> QED  BY <1>2, <2>1, PowersProperties
<1>4. /\ LowBits \in 0 .. n /\ MidBits - 1 \in 0 .. n - LowBits /\ MidBits - 1 \in 0 .. n - 1
      /\ TopBit \in 0 .. n - 1 /\ TopBit + 1 \in 0 .. n - 1 /\ n \in Nat
      /\ MidBits - 1 + 1 = MidBits /\ TopBit + 1 + 1 = TopBit + 2 /\ LowBits + (MidBits - 1) = TopBit
  BY <1>1
<1>5. /\ Bit[LowBits] \in Nat /\ Bit[LowBits] > 0
      /\ Bit[MidBits - 1] \in Nat /\ Bit[MidBits - 1] > 0
      /\ Bit[TopBit] \in Nat
  <2>1. MidBits - 1 \in 0 .. n /\ TopBit \in 0 .. n  BY <1>4
  <2> QED  BY <1>3, <1>4, <2>1
<1>6. Bit[MidBits] = 2 * Bit[MidBits - 1]  BY <1>3, <1>4
<1>7. Bit[TopBit] = Bit[MidBits - 1] * Bit[LowBits]
  <2>1. Bit[LowBits + (MidBits - 1)] = Bit[LowBits] * Bit[MidBits - 1]
    BY <1>2, <1>4, PowersOfSum
  <2> QED  BY <1>4, <1>5, <2>1
<1>8. Bit[TopBit + 2] = 4 * Bit[TopBit]
  <2>1. Bit[TopBit + 1] = 2 * Bit[TopBit]  BY <1>3, <1>4
  <2>2. Bit[TopBit + 2] = 2 * Bit[TopBit + 1]  BY <1>3, <1>4
  <2> QED  BY <1>5, <2>1, <2>2
<1> QED  BY <1>5, <1>6, <1>7, <1>8

(* What the fields of a word hold, if the counts fit.                      *)
LEMMA FieldValues ==
  ASSUME NEW low \in Nat, NEW mid \in Nat, NEW top \in {0, 1, 2},
         low < Bit[LowBits], mid < Bit[MidBits - 1]
  PROVE  LET w == Word(low, mid, top)
         IN  /\ w \in 0 .. Bit[TopBit + 2] - 1
             /\ w % Bit[LowBits] = low
             /\ top # 1 => (w \div Bit[LowBits]) % Bit[MidBits] = mid
             /\ w \div Bit[TopBit] = top
<1> DEFINE P == Bit[LowBits]
           H == Bit[MidBits - 1]
           T == Bit[TopBit]
           w == Word(low, mid, top)
           q == mid + (top * H)
           r == low + (mid * P)
<1>1. /\ P \in Nat /\ P > 0 /\ H \in Nat /\ H > 0 /\ T = H * P
      /\ Bit[MidBits] = 2 * H /\ Bit[TopBit + 2] = 4 * T /\ low < P /\ mid < H
      /\ w = low + (mid * P) + (top * T)
  BY FieldSizes DEF Word
<1> HIDE DEF P, H, T, w
<1>2. T \in Nat /\ mid * P \in Nat /\ top * T \in Nat  BY <1>1
<1>3. r \in Nat /\ r < T
  <2>1. (mid + 1) * P <= H * P  BY <1>1, TimesMonotone
  <2>2. (mid + 1) * P = (mid * P) + P  BY <1>1
  <2> QED  BY <1>1, <1>2, <2>1, <2>2
<1>4. q \in Nat /\ w = (q * P) + low
  <2>1. top * T = (top * H) * P  BY <1>1
  <2>2. q * P = (mid * P) + ((top * H) * P)  BY <1>1
  <2> QED  BY <1>1, <1>2, <2>1, <2>2
<1>5. w % P = low /\ w \div P = q
  <2> HIDE DEF q
  <2>1. ((q * P) + low) \div P = q /\ ((q * P) + low) % P = low
    BY <1>1, <1>4, QuotientUnique
  <2> QED  BY <1>4, <2>1
<1>6. w \div T = top
  <2>1. w = (top * T) + r  BY <1>1, <1>2
  <2> HIDE DEF r
  <2> QED  BY <1>2, <1>3, <2>1, QuotientUnique
<1>7. ASSUME top # 1  PROVE q % Bit[MidBits] = mid
  <2> DEFINE M == 2 * H
             m == IF top = 0 THEN 0 ELSE 1
  <2>1. q = (m * M) + mid  BY <1>1, <1>7
  <2>2. M \in Nat /\ mid < M /\ m \in Nat  BY <1>1
  <2> HIDE DEF M, m, q
  <2>3. ((m * M) + mid) % M = mid  BY <2>2, QuotientUnique
  <2> QED  BY <1>1, <2>1, <2>3 DEF M
<1>8. w \in 0 .. (4 * T) - 1
  <2>1. top * T <= 2 * T  BY <1>2
  <2> QED  BY <1>1, <1>2, <1>3, <2>1
<1> QED  BY <1>1, <1>5, <1>6, <1>7, <1>8 DEF P, T, w

LEMMA AdditionsFinite ==
  ASSUME NEW n
  PROVE  /\ IsFiniteSet(AllAdditions(n))
         /\ Cardinality(AllAdditions(n)) = MultiLevel * Multiples(n)
         /\ \A S \in SUBSET AllAdditions(n) :
               /\ IsFiniteSet(S) /\ Cardinality(S) \in Nat
               /\ Cardinality(S) <= MultiLevel * Multiples(n)
<1> DEFINE A == 0 .. MultiLevel - 1
           B == {i \in Indices : i % n = 0}
<1>1. IsFiniteSet(A) /\ Cardinality(A) = MultiLevel
  BY AtomicAssumption, RangeFinite
<1>2. IsFiniteSet(B)
  <2>1. IsFiniteSet(Indices)  BY AtomicAssumption, RangeFinite DEF Indices
  <2>2. B \subseteq Indices  OBVIOUS
  <2> HIDE DEF B
  <2> QED  BY <2>1, <2>2, FS_Subset
<1>3. Cardinality(B) = Multiples(n)  BY DEF Multiples, Indices
<1>4. AllAdditions(n) = A \X B  BY DEF AllAdditions, CountThreads
<1> HIDE DEF A, B
<1>5. IsFiniteSet(AllAdditions(n)) /\ Cardinality(AllAdditions(n)) = MultiLevel * Multiples(n)
  BY <1>1, <1>2, <1>3, <1>4, FS_Product
<1> QED  BY <1>5, FS_Subset, FS_CardinalityType

(* A thread is through with one more index.                                *)
LEMMA OneMoreIndex ==
  ASSUME NEW n \in Nat \ {0}, NEW f \in [CountThreads -> Nat], NEW g,
         NEW t \in CountThreads, f[t] < MultiTurns,
         \A u \in CountThreads : g[u] = IF u = t THEN f[u] + 1 ELSE f[u]
  PROVE  Cardinality(Additions(n, g)) =
            Cardinality(Additions(n, f)) + (IF f[t] % n = 0 THEN 1 ELSE 0)
<1> DEFINE mine == <<t, f[t]>>
<1>1. \A p \in AllAdditions(n) : p = <<p[1], p[2]>> /\ p[1] \in CountThreads /\ p[2] \in Nat
  BY AtomicAssumption DEF AllAdditions, Indices
<1>2. f[t] \in Indices /\ (mine \in AllAdditions(n) <=> f[t] % n = 0) /\ mine \notin Additions(n, f)
  BY AtomicAssumption DEF AllAdditions, Additions, Indices
<1>3. \A p \in AllAdditions(n) : p[2] < g[p[1]] <=> p[2] < f[p[1]] \/ p = mine
  <2> SUFFICES ASSUME NEW p \in AllAdditions(n)
               PROVE  p[2] < g[p[1]] <=> p[2] < f[p[1]] \/ p = mine
    OBVIOUS
  <2>1. CASE p[1] = t
    <3>1. g[p[1]] = f[t] + 1 /\ f[p[1]] = f[t] /\ f[t] \in Nat /\ p[2] \in Nat  BY <1>1, <2>1
    <3>2. p = mine <=> p[2] = f[t]  BY <1>1, <2>1
    <3> QED  BY <3>1, <3>2
  <2>2. CASE p[1] # t
    <3>1. g[p[1]] = f[p[1]]  BY <1>1, <2>2
    <3> QED  BY <2>2, <3>1
  <2> QED  BY <2>1, <2>2
<1> HIDE DEF mine
<1>4. Additions(n, g) = IF f[t] % n = 0 THEN Additions(n, f) \cup {mine} ELSE Additions(n, f)
  BY <1>2, <1>3 DEF Additions
<1>5. IsFiniteSet(Additions(n, f)) /\ Cardinality(Additions(n, f)) \in Nat
  BY AdditionsFinite DEF Additions
<1>6. CASE f[t] % n = 0
  <2>1. Cardinality(Additions(n, f) \cup {mine}) = Cardinality(Additions(n, f)) + 1
    BY <1>2, <1>5, FS_AddElement
  <2> QED  BY <1>4, <1>6, <2>1
<1>7. CASE f[t] % n # 0  BY <1>4, <1>5, <1>7
<1> QED  BY <1>6, <1>7

(* The counts fit, so no addition carries.                                 *)
LEMMA CountsFit ==
  ASSUME NEW S \in SUBSET AllAdditions(Small), NEW L \in SUBSET AllAdditions(Large),
         NEW T \in SUBSET OddThreads
  PROVE  /\ Cardinality(S) \in Nat /\ Cardinality(S) < Bit[LowBits]
         /\ Cardinality(L) \in Nat /\ Cardinality(L) < Bit[MidBits - 1]
         /\ Cardinality(T) \in {0, 1, 2} /\ IsFiniteSet(T)
<1>1. /\ Cardinality(S) \in Nat /\ Cardinality(S) <= MultiLevel * Multiples(Small)
      /\ Cardinality(L) \in Nat /\ Cardinality(L) <= MultiLevel * Multiples(Large)
  BY AdditionsFinite
<1>2. /\ MultiLevel * Multiples(Small) \in Nat
      /\ MultiLevel * Multiples(Large) \in Nat
  BY AdditionsFinite, FS_CardinalityType
<1>3. IsFiniteSet(OddThreads)
  <2>1. IsFiniteSet(CountThreads)  BY AtomicAssumption, RangeFinite DEF CountThreads
  <2> QED  BY <2>1, FS_Subset DEF OddThreads
<1>4. IsFiniteSet(T) /\ Cardinality(T) \in Nat /\ Cardinality(T) <= Cardinality(OddThreads)
  BY <1>3, FS_Subset, FS_CardinalityType
<1>5. Cardinality(T) \in {0, 1, 2}
  <2>1. Cardinality(OddThreads) = 0 \/ Cardinality(OddThreads) = 2  BY FieldsAssumption
  <2> QED  BY <1>4, <2>1
<1>6. (MultiLevel * Multiples(Small)) < Bit[LowBits]
      /\ (MultiLevel * Multiples(Large)) < Bit[MidBits - 1]
  BY FieldsAssumption
<1> DEFINE a == MultiLevel * Multiples(Small)
           b == MultiLevel * Multiples(Large)
<1>7. a \in Nat /\ b \in Nat /\ a < Bit[LowBits] /\ b < Bit[MidBits - 1]
      /\ Cardinality(S) <= a /\ Cardinality(L) <= b
  BY <1>1, <1>2, <1>6
<1> HIDE DEF a, b
<1> QED  BY <1>1, <1>4, <1>5, <1>7, FieldSizes

(* Adding to a count is adding to the word.                                *)
LEMMA WordGrows ==
  ASSUME WordInv, NEW n \in Nat, Add(n),
         word + n = Word(SmallCount, LargeCount, TopCount)'
  PROVE  word' = Word(SmallCount, LargeCount, TopCount)'
<1> DEFINE w == Word(SmallCount, LargeCount, TopCount)'
<1>1. /\ SmallCount' \in Nat /\ SmallCount' < Bit[LowBits]
      /\ LargeCount' \in Nat /\ LargeCount' < Bit[MidBits - 1]
      /\ TopCount' \in {0, 1, 2}
  <2>1. /\ Additions(Small, SmallDone)' \in SUBSET AllAdditions(Small)
        /\ Additions(Large, LargeDone)' \in SUBSET AllAdditions(Large)
        /\ TopDone' \in SUBSET OddThreads
    BY DEF Additions, TopDone
  <2> QED  BY <2>1, CountsFit DEF SmallCount, LargeCount, TopCount
<1>2. w = Word(SmallCount', LargeCount', TopCount')  BY DEF Word
<1>3. w \in 0 .. Bit[TopBit + 2] - 1  BY <1>1, <1>2, FieldValues
<1>4. Bit[TopBit + 2] \in Nat /\ Bit[TopBit + 2] > 0  BY FieldSizes
<1> HIDE DEF w
<1>5. w % Bit[TopBit + 2] = w  BY <1>3, <1>4
<1> QED  BY <1>5 DEF Add, w

LEMMA WordStep == WordInv /\ CountNext => WordInv'
<1> SUFFICES ASSUME WordInv, NEW t \in CountThreads,
                    CountSmall(t) \/ CountLarge(t) \/ CountTop(t)
             PROVE  WordInv'
  BY DEF CountNext
<1> DEFINE i == countAt[t].i
           P == Bit[LowBits]
           T == Bit[TopBit]
           a == SmallCount
           b == LargeCount
           c == TopCount
<1>0. /\ MultiTurns \in Nat \ {0} /\ Small \in Nat \ {0} /\ Large \in Nat \ {0}
      /\ i \in 0 .. MultiTurns /\ P \in Nat /\ T \in Nat
      /\ countAt[t] = [i |-> i, place |-> countAt[t].place]
  <2>1. T \in Nat  BY FieldSizes
  <2> QED  BY <2>1, AtomicAssumption, FieldSizes DEF WordInv
<1>1. /\ SmallDone \in [CountThreads -> Nat] /\ LargeDone \in [CountThreads -> Nat]
  BY <1>0 DEF WordInv, SmallDone, LargeDone
<1>2. a \in Nat /\ b \in Nat /\ c \in {0, 1, 2} /\ IsFiniteSet(TopDone)
  <2>1. /\ Additions(Small, SmallDone) \in SUBSET AllAdditions(Small)
        /\ Additions(Large, LargeDone) \in SUBSET AllAdditions(Large)
        /\ TopDone \in SUBSET OddThreads
    BY DEF Additions, TopDone
  <2> QED  BY <2>1, CountsFit DEF SmallCount, LargeCount, TopCount
<1>3. word = a + (b * P) + (c * T)  BY DEF WordInv, Word
<1>4. CASE CountSmall(t)
  <2> DEFINE x == IF i % Small = 0 THEN 1 ELSE 0
  <2>1. /\ countAt[t].place = "small" /\ i < MultiTurns /\ Add(x)
        /\ countAt' = [countAt EXCEPT ![t] = At(i, "large")]
    BY <1>4 DEF CountSmall, Goes
  <2>2. \A u \in CountThreads : countAt'[u] = IF u = t THEN At(i, "large") ELSE countAt[u]
    BY <2>1 DEF WordInv
  <2>3. /\ \A u \in CountThreads : SmallDone'[u] = IF u = t THEN SmallDone[u] + 1 ELSE SmallDone[u]
        /\ SmallDone[t] = i
    BY <2>1, <2>2 DEF SmallDone, At
  <2>4. LargeDone' = LargeDone  BY <2>1, <2>2 DEF LargeDone, At
  <2>5. TopDone' = TopDone  BY <2>1, <2>2 DEF TopDone, OddThreads, At
  <2>6. SmallCount' = a + x
    <3>1. SmallDone[t] < MultiTurns  BY <2>1, <2>3
    <3> HIDE DEF i
    <3>2. Cardinality(Additions(Small, SmallDone'))
             = Cardinality(Additions(Small, SmallDone)) + (IF SmallDone[t] % Small = 0 THEN 1 ELSE 0)
      BY <1>0, <1>1, <2>3, <3>1, OneMoreIndex
    <3> QED  BY <2>3, <3>2 DEF SmallCount, Additions
  <2>7. LargeCount' = b  BY <2>4 DEF LargeCount, Additions
  <2>8. TopCount' = c  BY <2>5 DEF TopCount
  <2>9. word + x = Word(SmallCount, LargeCount, TopCount)' /\ x \in Nat
    <3>1. x \in Nat  OBVIOUS
    <3>2. b * P \in Nat /\ c * T \in Nat  BY <1>0, <1>2
    <3> HIDE DEF x, a, b, c, P, T
    <3>3. word + x = (a + x) + (b * P) + (c * T)  BY <1>2, <1>3, <3>1, <3>2
    <3> QED  BY <2>6, <2>7, <2>8, <3>1, <3>3 DEF Word, P, T
  <2>10. word' = Word(SmallCount, LargeCount, TopCount)'
    <3> HIDE DEF x
    <3> QED  BY <2>1, <2>9, WordGrows
  <2> QED  BY <1>0, <2>1, <2>2, <2>10 DEF WordInv, At
<1>5. CASE CountLarge(t)
  <2> DEFINE z == IF i % Large = 0 THEN 1 ELSE 0
             x == IF i % Large = 0 THEN P ELSE 0
  <2>1. /\ countAt[t].place = "large" /\ i < MultiTurns /\ Add(x)
        /\ countAt' = [countAt EXCEPT ![t] = At(i + 1, "small")]
    BY <1>5 DEF CountLarge, Goes, WordInv
  <2>2. \A u \in CountThreads : countAt'[u] = IF u = t THEN At(i + 1, "small") ELSE countAt[u]
    BY <2>1 DEF WordInv
  <2>3. /\ \A u \in CountThreads : LargeDone'[u] = IF u = t THEN LargeDone[u] + 1 ELSE LargeDone[u]
        /\ LargeDone[t] = i
    BY <2>1, <2>2 DEF LargeDone, At
  <2>4. SmallDone' = SmallDone  BY <2>1, <2>2 DEF SmallDone, At
  <2>5. TopDone' = TopDone  BY <2>1, <2>2 DEF TopDone, OddThreads, At
  <2>6. LargeCount' = b + z
    <3>1. LargeDone[t] < MultiTurns  BY <2>1, <2>3
    <3> HIDE DEF i
    <3>2. Cardinality(Additions(Large, LargeDone'))
             = Cardinality(Additions(Large, LargeDone)) + (IF LargeDone[t] % Large = 0 THEN 1 ELSE 0)
      BY <1>0, <1>1, <2>3, <3>1, OneMoreIndex
    <3> QED  BY <2>3, <3>2 DEF LargeCount, Additions
  <2>7. SmallCount' = a  BY <2>4 DEF SmallCount, Additions
  <2>8. TopCount' = c  BY <2>5 DEF TopCount
  <2>9. word + x = Word(SmallCount, LargeCount, TopCount)' /\ x \in Nat
    <3>1. (b + z) * P = (b * P) + x  BY <1>0, <1>2
    <3>2. x \in Nat  BY <1>0
    <3>3. b * P \in Nat /\ c * T \in Nat  BY <1>0, <1>2
    <3> HIDE DEF x, z, a, b, c, P, T
    <3>4. word + x = a + ((b + z) * P) + (c * T)  BY <1>2, <1>3, <3>1, <3>2, <3>3
    <3> QED  BY <2>6, <2>7, <2>8, <3>2, <3>4 DEF Word, P, T
  <2>10. word' = Word(SmallCount, LargeCount, TopCount)'
    <3> HIDE DEF x
    <3> QED  BY <2>1, <2>9, WordGrows
  <2> QED  BY <1>0, <2>1, <2>2, <2>10 DEF WordInv, At
<1>6. CASE CountTop(t)
  <2> DEFINE z == t % 2
             x == z * T
  <2>1. /\ countAt[t].place = "small" /\ i = MultiTurns /\ Add(x)
        /\ countAt' = [countAt EXCEPT ![t] = At(i, "done")]
    BY <1>6 DEF CountTop, Goes, At
  <2>2. \A u \in CountThreads : countAt'[u] = IF u = t THEN At(i, "done") ELSE countAt[u]
    BY <2>1 DEF WordInv
  <2>3. SmallDone' = SmallDone  BY <2>1, <2>2 DEF SmallDone, At
  <2>4. LargeDone' = LargeDone  BY <2>1, <2>2 DEF LargeDone, At
  <2>5. z \in {0, 1}  BY AtomicAssumption DEF CountThreads
  <2>6. TopCount' = c + z
    <3>1. t \notin TopDone  BY <2>1 DEF TopDone
    <3>2. TopDone' = IF z = 1 THEN TopDone \cup {t} ELSE TopDone
      BY <2>2 DEF TopDone, OddThreads, At
    <3> HIDE DEF z
    <3>3. CASE z = 1
      <4>1. Cardinality(TopDone \cup {t}) = Cardinality(TopDone) + 1
        BY <1>2, <3>1, FS_AddElement
      <4> QED  BY <3>2, <3>3, <4>1 DEF TopCount
    <3>4. CASE z = 0  BY <1>2, <3>2, <3>4 DEF TopCount
    <3> QED  BY <2>5, <3>3, <3>4
  <2>7. SmallCount' = a  BY <2>3 DEF SmallCount, Additions
  <2>8. LargeCount' = b  BY <2>4 DEF LargeCount, Additions
  <2>9. word + x = Word(SmallCount, LargeCount, TopCount)' /\ x \in Nat
    <3> HIDE DEF z, a, b, c, P, T
    <3>1. (c + z) * T = (c * T) + x  BY <1>0, <1>2, <2>5
    <3>2. x \in Nat  BY <1>0, <2>5
    <3>3. b * P \in Nat /\ c * T \in Nat  BY <1>0, <1>2
    <3> HIDE DEF x
    <3>4. word + x = a + (b * P) + ((c + z) * T)  BY <1>2, <1>3, <3>1, <3>2, <3>3
    <3> QED  BY <2>6, <2>7, <2>8, <3>2, <3>4 DEF Word, P, T
  <2>10. word' = Word(SmallCount, LargeCount, TopCount)'
    <3> HIDE DEF x
    <3> QED  BY <2>1, <2>9, WordGrows
  <2> QED  BY <1>0, <2>1, <2>2, <2>10 DEF WordInv, At
<1> QED  BY <1>4, <1>5, <1>6

(* However the additions to the one word interleave, its fields end as if  *)
(* the threads had counted in three variables, provided they are wide      *)
(* enough.                                                                 *)
THEOREM FieldsAreExact == DemosSpec => []FieldsExact
<1>1. DemosInit => WordInv
  <2> SUFFICES ASSUME AtomicInit  PROVE WordInv  BY DEF DemosInit
  <2>1. \A t \in CountThreads : countAt[t] = At(0, "small")  BY DEF AtomicInit
  <2>2. SmallCount = 0 /\ LargeCount = 0 /\ TopCount = 0
    <3>1. \A t \in CountThreads : SmallDone[t] = 0 /\ LargeDone[t] = 0
      BY <2>1 DEF SmallDone, LargeDone, At
    <3>2. \A n : \A p \in AllAdditions(n) : p[1] \in CountThreads /\ p[2] \in Nat
      BY AtomicAssumption DEF AllAdditions, Indices
    <3>3. Additions(Small, SmallDone) = {} /\ Additions(Large, LargeDone) = {}
      BY <3>1, <3>2 DEF Additions
    <3>4. TopDone = {}  BY <2>1 DEF TopDone, OddThreads, At
    <3> QED  BY <3>3, <3>4, FS_EmptySet DEF SmallCount, LargeCount, TopCount
  <2>3. word = Word(0, 0, 0)
    <3>1. Bit[LowBits] \in Nat /\ Bit[TopBit] \in Nat  BY FieldSizes
    <3> QED  BY <3>1 DEF AtomicInit, Word
  <2> QED  BY <2>1, <2>2, <2>3, AtomicAssumption DEF AtomicInit, WordInv, At
<1>2. WordInv /\ [DemosNext]_demoVars => WordInv'
  <2>1. [DemosNext]_demoVars => CountNext \/ UNCHANGED wordVars
    BY DEF DemosNext, Running, OthersStop, Stopped, demoVars
  <2>2. ASSUME WordInv, UNCHANGED wordVars  PROVE WordInv'
    <3>1. word' = word /\ countAt' = countAt  BY <2>2 DEF wordVars
    <3>2. UNCHANGED <<SmallDone, LargeDone, TopDone>>
      BY <3>1 DEF SmallDone, LargeDone, TopDone
    <3>3. UNCHANGED <<SmallCount, LargeCount, TopCount>>
      BY <3>2 DEF SmallCount, LargeCount, TopCount, Additions
    <3> QED  BY <2>2, <3>1, <3>3 DEF WordInv, Word
  <2> QED  BY <2>1, <2>2, WordStep
<1>3. WordInv => FieldsExact
  <2> SUFFICES ASSUME WordInv, CountJoined
               PROVE  /\ LowField = MultiLevel * Multiples(Small)
                      /\ MidField = MultiLevel * Multiples(Large)
                      /\ TopField = Cardinality(OddThreads)
    BY DEF FieldsExact
  <2>1. \A t \in CountThreads : SmallDone[t] = MultiTurns /\ LargeDone[t] = MultiTurns
    BY DEF CountJoined, WordInv, SmallDone, LargeDone
  <2>2. \A n : \A p \in AllAdditions(n) : p[1] \in CountThreads /\ p[2] < MultiTurns
    BY AtomicAssumption DEF AllAdditions, Indices
  <2>3. /\ Additions(Small, SmallDone) = AllAdditions(Small)
        /\ Additions(Large, LargeDone) = AllAdditions(Large)
        /\ TopDone = OddThreads
    BY <2>1, <2>2 DEF Additions, TopDone, CountJoined, OddThreads
  <2>4. /\ SmallCount = MultiLevel * Multiples(Small)
        /\ LargeCount = MultiLevel * Multiples(Large)
        /\ TopCount = Cardinality(OddThreads)
    BY <2>3, AdditionsFinite DEF SmallCount, LargeCount, TopCount
  <2>5. /\ SmallCount \in Nat /\ SmallCount < Bit[LowBits]
        /\ LargeCount \in Nat /\ LargeCount < Bit[MidBits - 1]
        /\ TopCount \in {0, 1, 2} /\ TopCount # 1
    <3>1. TopCount # 1  BY <2>4, FieldsAssumption
    <3> QED  BY <2>3, <3>1, CountsFit DEF SmallCount, LargeCount, TopCount
  <2>6. word = Word(SmallCount, LargeCount, TopCount)  BY DEF WordInv
  <2> QED  BY <2>4, <2>5, <2>6, FieldValues DEF LowField, MidField, TopField
<1> QED  BY <1>1, <1>2, <1>3, PTL DEF DemosSpec

(* What both programs print is exact, for any number of threads and turns. *)
THEOREM CountersAreExact == DemosSpec => []CountersExact
<1>1. TotalsExact /\ FieldsExact => CountersExact  BY DEF CountersExact
<1> QED  BY <1>1, AtomicIsExact, FieldsAreExact, PTL
=============================================================================
