-------------------------- MODULE MapReduceProofs --------------------------
(***************************************************************************)
(* For every number of threads and every input: the job drives its barrier *)
(* as the barrier expects, the shuffle runs while nobody else touches the  *)
(* intermediate vectors, and no two threads work on one item; the map, the *)
(* sort and the shuffle neither lose nor duplicate a pair, the groups are  *)
(* the classes of pairs with one key, and the output of a job that is done *)
(* is that of a sequential map-reduce.                                     *)
(***************************************************************************)
EXTENDS MapReduce, BarrierProofs, DataLemmas

(* Every step of a worker is a step of the barrier or leaves it alone.     *)
LEMMA WorkerStepsBarrier ==
  ASSUME [WorkerNext \/ Returned]_workerVars
  PROVE  [BarrierNext]_barrierVars
<1>1. CASE UNCHANGED workerVars  BY <1>1 DEF workerVars
<1>2. CASE Returned  BY <1>2 DEF Returned, workerVars
<1>3. ASSUME NEW t \in Threads, Create(t) \/ map_reduce_for_thread(t)
      PROVE  [BarrierNext]_barrierVars
  <2>1. CASE AtBarrier(t)  BY <2>1 DEF AtBarrier, BarrierNext
  <2>2. CASE LeaveBarrier(t)  BY <2>2 DEF LeaveBarrier, BarrierNext
  <2>3. CASE Create(t)  BY <2>3 DEF Create
  <2>4. CASE MapStep(t)
    BY <2>4 DEF MapStep, StoreMax, StoreMapStage, MapTest, MapFetch, emit2, MapDone, Sort
  <2>5. CASE ShuffleStep(t)
    BY <2>5 DEF ShuffleStep, BeginShuffle, ShuffleGroup, EndShuffle
  <2>6. CASE ReduceStep(t)
    BY <2>6 DEF ReduceStep, ReduceTest, ReduceFetch, emit3Lock, emit3Push, ReduceDone
  <2> QED  BY <1>3, <2>1, <2>2, <2>3, <2>4, <2>5, <2>6 DEF map_reduce_for_thread
<1> QED  BY <1>1, <1>2, <1>3 DEF WorkerNext

(* The barrier inside a job behaves as the barrier alone, so its theorems  *)
(* hold of the job.                                                        *)
THEOREM JobDrivesBarrier == MapReduceSpec => BarrierSpec
<1>1. MapReduceInit => BarrierInit  BY DEF MapReduceInit
<1>2. [WorkerNext \/ Returned]_workerVars => [BarrierNext]_barrierVars
  BY WorkerStepsBarrier
<1> QED  BY <1>1, <1>2, PTL DEF MapReduceSpec, BarrierSpec

-----------------------------------------------------------------------------
(* What the proofs need of the types of the variables.                     *)
ControlTypeOK ==
    /\ wpc \in [Threads -> WorkerPc]
    /\ my \in [Threads -> Nat]
    /\ job = [f \in DOMAIN job |-> job[f]]
    /\ {"inputCounter", "interCounter"} \subseteq DOMAIN job
    /\ job.inputCounter \in Nat
    /\ job.interCounter \in Nat

LEMMA InitWorkers == MapReduceInit => ControlTypeOK /\ WorkerInv
<1> SUFFICES ASSUME MapReduceInit PROVE ControlTypeOK /\ WorkerInv  OBVIOUS
<1> USE DEF MapReduceInit, BarrierInit
<1>1. ControlTypeOK  BY DEF ControlTypeOK, WorkerPc
<1>2. ControlInv  BY DEF ControlInv, BarriersPassed, Reducing
<1>3. ClaimInv /\ DistinctWork  BY DEF ClaimInv, DistinctWork, Reducing
<1> QED  BY <1>1, <1>2, <1>3 DEF WorkerInv

(* The counters and program counters stay well typed.                      *)
LEMMA ControlTypeStep ==
  ASSUME ControlTypeOK, [WorkerNext \/ Returned]_workerVars
  PROVE  ControlTypeOK'
<1> USE DEF ControlTypeOK, WorkerPc
<1>1. CASE UNCHANGED workerVars  BY <1>1 DEF workerVars
<1>2. CASE Returned  BY <1>2 DEF Returned, workerVars
<1>3. ASSUME NEW t \in Threads, Create(t) \/ map_reduce_for_thread(t)
      PROVE  ControlTypeOK'
  <2>1. CASE Create(t) \/ MapTest(t) \/ Sort(t) \/ ReduceTest(t) \/ emit3Lock(t) \/ emit3Push(t)
    BY <2>1 DEF Create, MapTest, Sort, ReduceTest, emit3Lock, emit3Push, Goto
  <2>2. CASE AtBarrier(t) \/ LeaveBarrier(t)
    BY <2>2 DEF AtBarrier, LeaveBarrier, Goto
  <2>3. CASE StoreMax(t) \/ StoreMapStage(t) \/ emit2(t) \/ MapDone(t)
    <3>1. wpc' \in [Threads -> WorkerPc] /\ my' = my
      BY <2>3 DEF StoreMax, StoreMapStage, emit2, MapDone, Goto
    <3>2. \/ job' = [job EXCEPT !.maxForMap = Inputs]
          \/ job' = [job EXCEPT !.stage = MAP]
          \/ job' = [job EXCEPT !.maxForShuffle = job.maxForShuffle + 1]
          \/ job' = [job EXCEPT !.mapFinished = job.mapFinished + 1]
      BY <2>3 DEF StoreMax, StoreMapStage, emit2, MapDone
    <3> QED  BY <3>1, <3>2
  <2>4. CASE MapFetch(t)
    BY <2>4 DEF MapFetch, Goto
  <2>5. CASE ReduceFetch(t)
    <3>1. wpc' \in [Threads -> WorkerPc]
      BY <2>5 DEF ReduceFetch, Goto
    <3>2. my' \in [Threads -> Nat]
          /\ job' = [job EXCEPT !.interCounter = job.interCounter + 1]
      BY <2>5 DEF ReduceFetch
    <3> QED  BY <3>1, <3>2
  <2>6. CASE BeginShuffle(t) \/ EndShuffle(t) \/ ReduceDone(t)
    BY <2>6 DEF BeginShuffle, EndShuffle, ReduceDone, Goto
  <2>7. CASE ShuffleGroup(t)
    <3>1. UNCHANGED <<wpc, my>>
          /\ job' = [job EXCEPT !.shuffleFinished = job.shuffleFinished + 1]
      BY <2>7 DEF ShuffleGroup
    <3> QED  BY <3>1
  <2> QED  BY <1>3, <2>1, <2>2, <2>3, <2>4, <2>5, <2>6, <2>7
           DEF map_reduce_for_thread, MapStep, ShuffleStep, ReduceStep
<1> QED  BY <1>1, <1>2, <1>3 DEF WorkerNext

(* Outside the barrier, a step moves a thread between places that have     *)
(* passed as many barriers.                                                *)
LEMMA OutsideControl ==
  ASSUME BarrierTypeOK, ControlTypeOK, ControlInv, NEW t \in Threads,
         Create(t) \/ MapStep(t) \/ ShuffleStep(t) \/ ReduceStep(t)
  PROVE  ControlInv'
<1> USE DEF ControlTypeOK, WorkerPc, ControlInv, BarriersPassed, Reducing,
            barrierVars, Goto
<1>1. CASE Create(t)  BY <1>1 DEF Create
<1>2. CASE MapStep(t)
  BY <1>2 DEF MapStep, StoreMax, StoreMapStage, MapTest, MapFetch, emit2, MapDone, Sort
<1>3. CASE ShuffleStep(t)
  BY <1>3 DEF ShuffleStep, BeginShuffle, ShuffleGroup, EndShuffle
<1>4. CASE ReduceStep(t)
  BY <1>4 DEF ReduceStep, ReduceTest, ReduceFetch, emit3Lock, emit3Push, ReduceDone
<1> QED  BY <1>1, <1>2, <1>3, <1>4

LEMMA ControlStep ==
  ASSUME BarrierTypeOK, ControlTypeOK, ControlInv, [WorkerNext \/ Returned]_workerVars
  PROVE  ControlInv'
<1> USE DEF ControlInv
<1>1. CASE UNCHANGED workerVars  BY <1>1 DEF workerVars, barrierVars
<1>2. CASE Returned  BY <1>2 DEF Returned, workerVars, barrierVars
<1>3. ASSUME NEW t \in Threads, AtBarrier(t)  PROVE ControlInv'
  <2>1. UNCHANGED <<wpc, left>> /\ wpc[t] \in {"barrier1", "barrier2"}
    BY <1>3 DEF AtBarrier, Lock, Wait, Broadcast, Wake
  <2>2. \A u \in Threads \ {t} : bpc[u] = "out" => bpc'[u] = "out"
    BY <1>3 DEF AtBarrier, Lock, Wait, Broadcast, Wake, BarrierTypeOK
  <2> QED  BY <2>1, <2>2
<1>4. ASSUME NEW t \in Threads, LeaveBarrier(t)  PROVE ControlInv'
  BY <1>4 DEF LeaveBarrier, Unlock, Goto, BarrierTypeOK, ControlTypeOK,
              BarriersPassed, Reducing
<1> QED  BY <1>1, <1>2, <1>3, <1>4, OutsideControl DEF WorkerNext, map_reduce_for_thread

-----------------------------------------------------------------------------
(* Indices come from counters that only grow: no index is claimed twice.   *)
LEMMA ClaimStep ==
  ASSUME ControlTypeOK, ClaimInv, DistinctWork, [WorkerNext \/ Returned]_workerVars
  PROVE  ClaimInv' /\ DistinctWork'
<1> USE DEF ClaimInv, DistinctWork, Reducing
<1>1. CASE UNCHANGED workerVars  BY <1>1 DEF workerVars
<1>2. CASE Returned  BY <1>2 DEF Returned, workerVars
<1>3. ASSUME NEW t \in Threads, Create(t) \/ map_reduce_for_thread(t)
      PROVE  ClaimInv' /\ DistinctWork'
  <2> USE DEF ControlTypeOK, Goto
  <2>1. CASE Create(t) \/ MapTest(t) \/ Sort(t) \/ ReduceTest(t) \/ emit3Lock(t) \/ emit3Push(t)
    BY <2>1 DEF Create, MapTest, Sort, ReduceTest, emit3Lock, emit3Push
  <2>2. CASE AtBarrier(t) \/ LeaveBarrier(t)
    BY <2>2 DEF AtBarrier, LeaveBarrier
  <2>3. CASE StoreMax(t) \/ StoreMapStage(t) \/ emit2(t) \/ MapDone(t)
    BY <2>3 DEF StoreMax, StoreMapStage, emit2, MapDone
  <2>4. CASE MapFetch(t)
    BY <2>4 DEF MapFetch
  <2>5. CASE ReduceFetch(t)
    BY <2>5 DEF ReduceFetch
  <2>6. CASE BeginShuffle(t) \/ EndShuffle(t) \/ ReduceDone(t)
    BY <2>6 DEF BeginShuffle, EndShuffle, ReduceDone
  <2>7. CASE ShuffleGroup(t)
    <3>1. UNCHANGED <<wpc, my>>
          /\ job' = [job EXCEPT !.shuffleFinished = job.shuffleFinished + 1]
      BY <2>7 DEF ShuffleGroup
    <3> QED  BY <3>1
  <2> QED  BY <1>3, <2>1, <2>2, <2>3, <2>4, <2>5, <2>6, <2>7
           DEF map_reduce_for_thread, MapStep, ShuffleStep, ReduceStep
<1> QED  BY <1>1, <1>2, <1>3 DEF WorkerNext

(* The two barriers keep the other threads away while thread 0 shuffles.   *)
LEMMA BarriersExclude ==
  ASSUME BarrierTypeOK, BarrierInv, ControlTypeOK, ControlInv
  PROVE  ShuffleExclusive
<1> SUFFICES ASSUME Shuffling, NEW u \in Threads \ {Main}
             PROVE  wpc[u] \in {"barrier1", "barrier2"}
  BY DEF ShuffleExclusive
<1>1. Main \in Threads  BY NAssumption DEF Main, Threads
<1>2. left[Main] = 1 /\ bpc[Main] = "out"
  <2>1. BarriersPassed(wpc[Main]) = 1
    BY DEF Shuffling, BarriersPassed, Reducing
  <2> QED  BY <1>1, <2>1 DEF Shuffling, ControlInv
<1>3. arrived[Main] = 1  BY <1>1, <1>2 DEF BarrierTypeOK, BarrierInv, CallInv
<1>4. left[Main] <= arrived[u] /\ left[u] <= arrived[Main]
  BY <1>1, InvSafe DEF BarrierSafety
<1>5. left[u] \in {0, 1}  BY <1>3, <1>4 DEF BarrierTypeOK
<1>6. left[u] = 0 => bpc[u] # "out"
  BY <1>2, <1>4 DEF BarrierTypeOK, BarrierInv, CallInv
<1>7. wpc[u] \notin {"toShuffle", "shuffle"}  BY DEF ControlInv
<1> QED  BY <1>5, <1>6, <1>7 DEF ControlInv, ControlTypeOK, WorkerPc, BarriersPassed, Reducing

-----------------------------------------------------------------------------
(* The inductive invariant of the workers.                                 *)
THEOREM WorkerInvariant == MapReduceSpec => [](ControlTypeOK /\ WorkerInv)
<1>1. MapReduceInit => ControlTypeOK /\ WorkerInv  BY InitWorkers
<1>2. BarrierTypeOK /\ (ControlTypeOK /\ WorkerInv) /\ [WorkerNext \/ Returned]_workerVars
        => (ControlTypeOK /\ WorkerInv)'
  BY ControlTypeStep, ControlStep, ClaimStep DEF WorkerInv
<1> QED  BY <1>1, <1>2, JobDrivesBarrier, TypeCorrect, PTL DEF MapReduceSpec

(* For every number of threads, while thread 0 pops pairs off the          *)
(* intermediate vectors every other thread is between the two barriers.    *)
THEOREM ShuffleIsExclusive == MapReduceSpec => []ShuffleExclusive
<1>1. BarrierTypeOK /\ BarrierInv /\ (ControlTypeOK /\ WorkerInv) => ShuffleExclusive
  BY BarriersExclude DEF WorkerInv
<1> QED  BY <1>1, JobDrivesBarrier, TypeCorrect, Invariant, WorkerInvariant, PTL

(* For every number of threads and inputs, no input is mapped and no group *)
(* reduced by two threads at a time.                                       *)
THEOREM WorkIsDistinct == MapReduceSpec => []DistinctWork
<1>1. ControlTypeOK /\ WorkerInv => DistinctWork  BY DEF WorkerInv
<1> QED  BY <1>1, WorkerInvariant, PTL

-----------------------------------------------------------------------------
JobType == [stage : Stages, maxForMap : Nat, inputCounter : Nat, interCounter : Nat,
            mapFinished : Nat, maxForShuffle : Nat, shuffleFinished : Nat,
            reduceFinished : Nat]

OutputType == [key : Int, size : Nat]

DataTypeOK ==
    /\ job \in JobType
    /\ pos \in [Threads -> Nat]
    /\ vec \in [Threads -> Seq(AllPairs)]
    /\ groups \in Seq(Seq(AllPairs))
    /\ output \in Seq(OutputType)
    /\ outMutex \in Threads \cup {NoThread}

Mapping == {"none", "start", "stage", "test", "fetch", "map"}
Unsorted == Mapping \cup {"sort"}
AfterShuffle == {"reduceTest", "reduceFetch", "done"} \cup Reducing

(* Who is past the map phase has seen every input handed out; from         *)
(* SHUFFLE on nobody maps or sorts; contexts[0] advances the stage, and    *)
(* the others reduce after it has.                                         *)
PhaseThread(t) ==
    /\ wpc[t] = "map" => my[t] < Inputs /\ pos[t] >= 1
    /\ wpc[t] \notin Mapping => job.inputCounter >= Inputs
    /\ wpc[t] \in AfterShuffle => job.stage = REDUCE
    /\ job.stage \in {SHUFFLE, REDUCE} => wpc[t] \notin Unsorted

PhaseMain ==
    /\ wpc[Main] = "shuffle" => job.stage = SHUFFLE
    /\ job.stage = REDUCE <=> wpc[Main] \in {"barrier2"} \cup AfterShuffle

PhaseInv == (\A t \in Threads : PhaseThread(t)) /\ PhaseMain

(* No list repeats a pair, and no two lists share one.                     *)
OwnInv ==
    /\ \A t \in Threads : IsInjective(vec[t])
    /\ \A t, u \in Threads : t # u => ToSet(vec[t]) \cap ToSet(vec[u]) = {}
    /\ Apart(groups)
    /\ \A t \in Threads, i \in 1 .. Len(groups) :
          ToSet(vec[t]) \cap ToSet(groups[i]) = {}

Grouped == UNION {ToSet(groups[i]) : i \in 1 .. Len(groups)}
Placed == (UNION {ToSet(vec[t]) : t \in Threads}) \cup Grouped

(* The pairs of the inputs handed out, up to where each thread is.         *)
Emitted ==
    {p \in AllPairs :
        /\ p.id[1] < job.inputCounter
        /\ \A t \in Threads : wpc[t] = "map" /\ my[t] = p.id[1] => p.id[2] < pos[t]}

PlacedInv ==
    /\ Placed = Emitted
    /\ IsFiniteSet(Placed)
    /\ job.maxForShuffle = Cardinality(Placed)

-----------------------------------------------------------------------------
Ascending(v) == \A i, j \in 1 .. Len(v) : i < j => v[i].key <= v[j].key

SortedInv == \A t \in Threads : wpc[t] \notin Unsorted => Ascending(vec[t])

(* A group is not empty and holds every pair with its key; after the       *)
(* shuffle, every pair is in a group.                                      *)
GroupInv ==
    /\ \A i \in 1 .. Len(groups) :
          /\ groups[i] # <<>>
          /\ \A p \in ToSet(groups[i]), q \in AllPairs :
                q \in ToSet(groups[i]) <=> q.key = p.key
    /\ job.stage = REDUCE => \A t \in Threads : vec[t] = <<>>

-----------------------------------------------------------------------------
(* The groups whose result is in the output, and those that are counted in *)
(* reduceFinished too.                                                     *)
Claimed == {i \in 1 .. Len(groups) : i <= job.interCounter}
Pushed == {i \in Claimed : \A t \in Threads : wpc[t] \in {"reduce", "push"} => my[t] + 1 # i}
Finished == {i \in Claimed : \A t \in Threads : wpc[t] \in Reducing => my[t] + 1 # i}

ClaimedThread(t) ==
    /\ wpc[t] \in Reducing => my[t] < Len(groups)
    /\ wpc[t] = "done" => job.interCounter >= Len(groups)
    /\ wpc[t] = "push" <=> outMutex = t
    /\ wpc[t] = "push" => pos[t] = Len(output) + 1

ClaimedInv ==
    /\ job.stage # REDUCE => job.interCounter = 0
    /\ \A t \in Threads : ClaimedThread(t)

OutputInv ==
    /\ Len(output) = Cardinality(Pushed)
    /\ ToSet(output) = {Reduced(groups[i]) : i \in Pushed}

FinishedInv ==
    job.reduceFinished = Cardinality(UNION {ToSet(groups[i]) : i \in Finished})

-----------------------------------------------------------------------------
(* A thread that has passed both barriers, or is leaving the second, finds *)
(* that contexts[0] has shuffled.                                          *)
LEMMA MainShuffled ==
  ASSUME BarrierTypeOK, BarrierInv, BarrierTypeOK', BarrierInv', ControlTypeOK, ControlInv,
         NEW t \in Threads, t # Main, wpc[t] = "barrier2", Unlock(t)
  PROVE  wpc[Main] \in {"barrier2"} \cup AfterShuffle
<1>1. Main \in Threads  BY NAssumption DEF Main, Threads
<1>2. left[t] = 1  BY DEF ControlInv, BarriersPassed, Reducing
<1>3. left'[t] = 2 /\ arrived' = arrived  BY <1>2 DEF Unlock, BarrierTypeOK
<1>4. arrived[Main] >= 2
  <2>1. BarrierSafety'  BY InvSafe, PTL
  <2> QED  BY <1>1, <1>3, <2>1 DEF BarrierSafety, BarrierTypeOK
<1>5. left[Main] = 2 \/ (left[Main] = 1 /\ bpc[Main] # "out")
  <2>1. left[Main] \in {0, 1, 2}
    BY <1>1 DEF ControlInv, BarriersPassed, Reducing
  <2> QED  BY <1>1, <1>4, <2>1 DEF BarrierTypeOK, BarrierInv, CallInv
<1> QED  BY <1>1, <1>5 DEF ControlInv, ControlTypeOK, WorkerPc, BarriersPassed, AfterShuffle, Reducing

(* Every input is mapped to a list of keys.                                *)
LEMMA InputsType == Inputs \in Nat /\ \A i \in 0 .. Inputs - 1 : Emits[i + 1] \in Seq(Int)
<1>1. Emits \in Seq(Seq(Int)) /\ Inputs \in Nat  BY EmitsAssumption DEF Inputs
<1>2. ASSUME NEW i \in 0 .. Inputs - 1  PROVE Emits[i + 1] \in Seq(Int)
  <2>1. i + 1 \in 1 .. Len(Emits)  BY <1>1 DEF Inputs
  <2> QED  BY <1>1, <2>1
<1> QED  BY <1>1, <1>2

(* A step of one thread that leaves the stage as it is.                    *)
LEMMA PhaseFrame ==
  ASSUME PhaseInv, DataTypeOK, DataTypeOK', NEW t \in Threads,
         \A u \in Threads \ {t} : wpc'[u] = wpc[u] /\ my'[u] = my[u] /\ pos'[u] = pos[u],
         job'.stage = job.stage, job'.inputCounter >= job.inputCounter,
         PhaseThread(t)', t = Main => PhaseMain'
  PROVE  PhaseInv'
<1>1. Main \in Threads  BY NAssumption DEF Main, Threads
<1>2. Inputs \in Nat /\ job.inputCounter \in Nat /\ job'.inputCounter \in Nat
  BY InputsType DEF DataTypeOK, JobType
<1>3. ASSUME NEW u \in Threads, u # t  PROVE PhaseThread(u)'
  BY <1>2, <1>3 DEF PhaseInv, PhaseThread
<1>4. t # Main => PhaseMain'  BY <1>1 DEF PhaseInv, PhaseMain
<1> QED  BY <1>3, <1>4 DEF PhaseInv

(* A thread goes from one place before the first barrier to another.       *)
MovesUnsorted(t, to) ==
    /\ wpc[t] \in Unsorted /\ to \in Unsorted \cup {"barrier1"}
    /\ wpc' = [wpc EXCEPT ![t] = to]
    /\ \A u \in Threads \ {t} : my'[u] = my[u] /\ pos'[u] = pos[u]
    /\ job'.stage = job.stage /\ job'.inputCounter >= job.inputCounter
    /\ to = "map" => my'[t] < Inputs /\ pos'[t] >= 1
    /\ to \notin Mapping => job'.inputCounter >= Inputs

(* The threads that have not sorted yet.                                   *)
LEMMA PhaseUnsorted ==
  ASSUME PhaseInv, DataTypeOK, DataTypeOK', wpc \in [Threads -> WorkerPc],
         NEW t \in Threads, NEW to, MovesUnsorted(t, to)
  PROVE  PhaseInv'
<1> USE DEF MovesUnsorted
<1> USE DEF Mapping, Unsorted, AfterShuffle, Reducing, UNDEFINED, MAP, SHUFFLE, REDUCE
<1>1. PhaseThread(t) /\ PhaseMain  BY DEF PhaseInv
<1>2. wpc'[t] = to /\ \A u \in Threads \ {t} : wpc'[u] = wpc[u]  OBVIOUS
<1>3. job.stage \notin {SHUFFLE, REDUCE}  BY <1>1 DEF PhaseThread
<1>4. PhaseThread(t)'  BY <1>2, <1>3 DEF PhaseThread
<1>5. t = Main => PhaseMain'  BY <1>1, <1>2, <1>3 DEF PhaseMain
<1> QED  BY <1>2, <1>4, <1>5, PhaseFrame

(* The phases of the job are kept in order by the barrier and the stage.   *)
LEMMA PhaseStep ==
  ASSUME BarrierTypeOK, BarrierInv, BarrierTypeOK', BarrierInv', ControlTypeOK, WorkerInv,
         ShuffleExclusive, DataTypeOK, DataTypeOK', PhaseInv,
         [WorkerNext \/ Returned]_workerVars
  PROVE  PhaseInv'
<1> USE DEF Mapping, Unsorted, AfterShuffle, Reducing
<1>0. /\ Main \in Threads /\ ControlInv
      /\ Inputs \in Nat /\ job.inputCounter \in Nat /\ job'.inputCounter \in Nat
      /\ job \in JobType
      /\ wpc \in [Threads -> WorkerPc] /\ my \in [Threads -> Nat] /\ pos \in [Threads -> Nat]
  <2>1. Main \in Threads /\ ControlInv  BY NAssumption DEF Main, Threads, WorkerInv
  <2>2. job \in JobType /\ job' \in JobType  BY DEF DataTypeOK
  <2>3. job.inputCounter \in Nat /\ job'.inputCounter \in Nat  BY <2>2 DEF JobType
  <2>4. wpc \in [Threads -> WorkerPc] /\ my \in [Threads -> Nat] /\ pos \in [Threads -> Nat]
    BY DEF ControlTypeOK, DataTypeOK
  <2> QED  BY <2>1, <2>2, <2>3, <2>4, InputsType
<1>1. CASE UNCHANGED workerVars  BY <1>1 DEF workerVars, PhaseInv, PhaseThread, PhaseMain
<1>2. CASE Returned  BY <1>2 DEF Returned, workerVars, PhaseInv, PhaseThread, PhaseMain
<1>3. ASSUME NEW t \in Threads, Create(t) \/ map_reduce_for_thread(t)
      PROVE  PhaseInv'
  <2> DEFINE Alone == \A u \in Threads \ {t} :
                         wpc'[u] = wpc[u] /\ my'[u] = my[u] /\ pos'[u] = pos[u]
             Goal == Alone /\ job'.stage = job.stage /\ job'.inputCounter >= job.inputCounter
                     /\ PhaseThread(t)' /\ (t = Main => PhaseMain')
  <2>0. Goal => PhaseInv'  BY PhaseFrame
  <2>00. PhaseThread(t) /\ PhaseMain  BY DEF PhaseInv
  <2> USE DEF JobType, WorkerPc, Stages, UNDEFINED, MAP, SHUFFLE, REDUCE, Goto
  <2>1. CASE Create(t) \/ MapTest(t) \/ Sort(t)
    <3>0. UNCHANGED <<job, my, pos>>  BY <2>1 DEF Create, MapTest, Sort
    <3>1. PICK to \in Unsorted \cup {"barrier1"} :
             wpc[t] \in Unsorted /\ Goto(t, wpc[t], to)
             /\ (to = "sort" => job.inputCounter >= Inputs)
             /\ (to = "barrier1" => wpc[t] = "sort")
             /\ to # "map"
      BY <1>0, <2>1 DEF Create, MapTest, Sort
    <3>2. to \notin Mapping => job.inputCounter >= Inputs
      BY <2>00, <3>1 DEF PhaseThread
    <3>3. job'.inputCounter >= job.inputCounter  BY <1>0, <3>0
    <3>4. MovesUnsorted(t, to)  BY <3>0, <3>1, <3>2, <3>3 DEF MovesUnsorted
    <3> QED  BY <1>0, <3>4, PhaseUnsorted
  <2>2. CASE ReduceTest(t) \/ emit3Lock(t) \/ emit3Push(t)
    <3>0. /\ job' = job /\ my' = my
          /\ \A u \in Threads \ {t} : wpc'[u] = wpc[u] /\ pos'[u] = pos[u]
      BY <1>0, <2>2 DEF ReduceTest, emit3Lock, emit3Push
    <3>1. wpc[t] \in AfterShuffle /\ wpc'[t] \in AfterShuffle
      BY <1>0, <2>2 DEF ReduceTest, emit3Lock, emit3Push
    <3>2. Goal  BY <1>0, <2>00, <3>0, <3>1 DEF PhaseThread, PhaseMain
    <3> QED  BY <2>0, <3>2
  <2>3. CASE AtBarrier(t)
    <3>1. Goal  BY <1>0, <2>00, <2>3 DEF AtBarrier, PhaseThread, PhaseMain
    <3> QED  BY <2>0, <3>1
  <2>4. CASE LeaveBarrier(t)
    <3>1. wpc[t] = "barrier2" => wpc[Main] \in {"barrier2"} \cup AfterShuffle
      BY <1>0, <2>4, MainShuffled DEF LeaveBarrier
    <3>2. UNCHANGED <<job, my, pos>>
          /\ \/ Goto(t, "barrier1", IF t = Main THEN "toShuffle" ELSE "barrier2")
             \/ Goto(t, "barrier2", "reduceTest")
      BY <2>4 DEF LeaveBarrier
    <3>3. Goal  BY <1>0, <2>00, <3>1, <3>2 DEF PhaseThread, PhaseMain
    <3> QED  BY <2>0, <3>3
  <2>5. CASE StoreMax(t) \/ MapFetch(t) \/ emit2(t) \/ MapDone(t)
    <3>1. CASE StoreMax(t) \/ MapDone(t)
      <4> DEFINE to == IF wpc[t] = "start" THEN "stage" ELSE "test"
      <4>1. UNCHANGED <<my, pos>> /\ wpc[t] \in Unsorted /\ wpc' = [wpc EXCEPT ![t] = to]
        BY <3>1 DEF StoreMax, MapDone
      <4>2. job'.stage = job.stage /\ job'.inputCounter = job.inputCounter
        BY <1>0, <3>1 DEF StoreMax, MapDone
      <4>3. to \in Mapping /\ to # "map"  OBVIOUS
      <4>4. job'.inputCounter >= job.inputCounter  BY <1>0, <4>2
      <4>5. MovesUnsorted(t, to)  BY <4>1, <4>2, <4>3, <4>4 DEF MovesUnsorted
      <4> QED  BY <1>0, <4>5, PhaseUnsorted
    <3>2. CASE MapFetch(t)
      <4>1. job'.stage = job.stage /\ job'.inputCounter = job.inputCounter + 1
        BY <1>0, <3>2 DEF MapFetch
      <4>2. /\ my'[t] = job.inputCounter /\ pos'[t] = 1
            /\ \A u \in Threads \ {t} : my'[u] = my[u] /\ pos'[u] = pos[u]
        BY <1>0, <3>2 DEF MapFetch
      <4> DEFINE to == IF job.inputCounter >= Inputs THEN "sort" ELSE "map"
      <4>3. Goto(t, "fetch", to)  BY <3>2 DEF MapFetch
      <4>4. job'.inputCounter >= job.inputCounter /\ (to \notin Mapping => job'.inputCounter >= Inputs)
        BY <1>0, <4>1
      <4>5. to = "map" => my'[t] < Inputs /\ pos'[t] >= 1  BY <1>0, <4>2
      <4>6. to \in Unsorted  OBVIOUS
      <4> HIDE DEF to
      <4>7. MovesUnsorted(t, to)
        BY <4>1, <4>2, <4>3, <4>4, <4>5, <4>6 DEF MovesUnsorted
      <4> QED  BY <1>0, <4>7, PhaseUnsorted
    <3>3. CASE emit2(t)
      <4>1. /\ UNCHANGED <<wpc, my>> /\ wpc[t] = "map"
            /\ pos' = [pos EXCEPT ![t] = pos[t] + 1]
            /\ job' = [job EXCEPT !.maxForShuffle = job.maxForShuffle + 1]
        BY <3>3 DEF emit2
      <4>2. job'.stage = job.stage /\ job'.inputCounter = job.inputCounter
        BY <1>0, <4>1
      <4>3. my'[t] < Inputs /\ pos'[t] >= 1
        BY <1>0, <2>00, <4>1 DEF PhaseThread
      <4>4. wpc' = [wpc EXCEPT ![t] = "map"]  BY <1>0, <4>1
      <4>5. \A u \in Threads \ {t} : my'[u] = my[u] /\ pos'[u] = pos[u]  BY <1>0, <4>1
      <4>6. job'.inputCounter >= job.inputCounter  BY <1>0, <4>2
      <4>7. MovesUnsorted(t, "map")
        BY <4>1, <4>2, <4>3, <4>4, <4>5, <4>6 DEF MovesUnsorted
      <4> QED  BY <1>0, <4>7, PhaseUnsorted
    <3> QED  BY <2>5, <3>1, <3>2, <3>3
  <2>6. CASE StoreMapStage(t)
    <3>1. job'.stage = MAP /\ job'.inputCounter = job.inputCounter /\ job.stage \notin {SHUFFLE, REDUCE}
      BY <2>00, <2>6 DEF StoreMapStage, PhaseThread
    <3>2. wpc[Main] # "shuffle" /\ wpc[Main] \notin {"barrier2"} \cup AfterShuffle
      BY <2>00, <3>1 DEF PhaseMain
    <3>3. \A u \in Threads : PhaseThread(u)'
      BY <1>0, <2>6, <3>1 DEF StoreMapStage, PhaseInv, PhaseThread
    <3>4. PhaseMain'
      BY <1>0, <2>6, <3>1, <3>2 DEF StoreMapStage, PhaseMain
    <3> QED  BY <3>3, <3>4 DEF PhaseInv
  <2>9. CASE BeginShuffle(t)
    <3>1. t = Main /\ \A u \in Threads \ {Main} : wpc[u] \in {"barrier1", "barrier2"}
      BY <1>0, <2>9 DEF BeginShuffle, ControlInv, ShuffleExclusive, Shuffling
    <3>2. job'.stage = SHUFFLE /\ job'.inputCounter = job.inputCounter
      BY <2>9 DEF BeginShuffle
    <3>3. \A u \in Threads : PhaseThread(u)'
      BY <1>0, <2>9, <3>1, <3>2 DEF BeginShuffle, PhaseInv, PhaseThread
    <3>4. PhaseMain'
      BY <1>0, <2>9, <3>1, <3>2 DEF BeginShuffle, PhaseMain
    <3> QED  BY <3>3, <3>4 DEF PhaseInv
  <2>10. CASE EndShuffle(t)
    <3>1. t = Main /\ job.stage = SHUFFLE
      BY <1>0, <2>00, <2>10 DEF EndShuffle, ControlInv, PhaseMain
    <3>2. job'.stage = REDUCE /\ job'.inputCounter = job.inputCounter
      BY <2>10 DEF EndShuffle
    <3>3. \A u \in Threads : PhaseThread(u)'
      BY <1>0, <2>10, <3>1, <3>2 DEF EndShuffle, PhaseInv, PhaseThread
    <3>4. PhaseMain'
      BY <1>0, <2>10, <3>1, <3>2 DEF EndShuffle, PhaseMain
    <3> QED  BY <3>3, <3>4 DEF PhaseInv
  <2>11. CASE ShuffleGroup(t)
    <3>1. UNCHANGED <<wpc, my, pos>>
          /\ job' = [job EXCEPT !.shuffleFinished = job.shuffleFinished + 1]
      BY <2>11 DEF ShuffleGroup
    <3>2. Goal  BY <1>0, <2>00, <3>1 DEF PhaseThread, PhaseMain
    <3> QED  BY <2>0, <3>2
  <2>12. CASE ReduceFetch(t) \/ ReduceDone(t)
    <3>0. /\ job'.stage = job.stage /\ job'.inputCounter = job.inputCounter /\ pos' = pos
          /\ \A u \in Threads \ {t} : wpc'[u] = wpc[u] /\ my'[u] = my[u]
      BY <1>0, <2>12 DEF ReduceFetch, ReduceDone
    <3>1. wpc[t] \in AfterShuffle /\ wpc'[t] \in AfterShuffle
      BY <1>0, <2>12 DEF ReduceFetch, ReduceDone
    <3>2. Goal  BY <1>0, <2>00, <3>0, <3>1 DEF PhaseThread, PhaseMain
    <3> QED  BY <2>0, <3>2
  <2> QED  BY <1>3, <2>1, <2>2, <2>3, <2>4, <2>5, <2>6, <2>9, <2>10, <2>11, <2>12
           DEF map_reduce_for_thread, MapStep, ShuffleStep, ReduceStep
<1> QED  BY <1>1, <1>2, <1>3 DEF WorkerNext

-----------------------------------------------------------------------------
(* A pair is known by the input that emitted it and the place in it.       *)
LEMMA PairFields ==
  /\ \A p \in AllPairs :
        /\ p.key \in Int
        /\ p.id[1] \in 0 .. Inputs - 1
        /\ p.id[2] \in 1 .. Len(Emits[p.id[1] + 1])
        /\ p = Pair(p.id[1], p.id[2])
  /\ \A i \in 0 .. Inputs - 1 : \A j \in 1 .. Len(Emits[i + 1]) :
        Pair(i, j) \in AllPairs /\ Pair(i, j).id[1] = i /\ Pair(i, j).id[2] = j
<1>1. \A i \in 0 .. Inputs - 1 : Emits[i + 1] \in Seq(Int) /\ DOMAIN Emits[i + 1] = 1 .. Len(Emits[i + 1])
  BY InputsType
<1>2. ASSUME NEW i \in 0 .. Inputs - 1, NEW j \in 1 .. Len(Emits[i + 1])
      PROVE  /\ Pair(i, j) \in AllPairs /\ Pair(i, j).id[1] = i /\ Pair(i, j).id[2] = j
             /\ Pair(i, j).key \in Int
  <2>1. Pair(i, j) \in {Pair(i, l) : l \in DOMAIN Emits[i + 1]}  BY <1>1
  <2>2. Pair(i, j) \in AllPairs  BY <2>1 DEF AllPairs
  <2>3. Emits[i + 1][j] \in Int  BY <1>1
  <2> QED  BY <2>2, <2>3 DEF Pair
<1>3. ASSUME NEW p \in AllPairs
      PROVE  /\ p.key \in Int
             /\ p.id[1] \in 0 .. Inputs - 1
             /\ p.id[2] \in 1 .. Len(Emits[p.id[1] + 1])
             /\ p = Pair(p.id[1], p.id[2])
  <2>1. PICK i \in 0 .. Inputs - 1 : p \in {Pair(i, j) : j \in DOMAIN Emits[i + 1]}
    BY DEF AllPairs
  <2>2. PICK j \in 1 .. Len(Emits[i + 1]) : p = Pair(i, j)  BY <1>1, <2>1
  <2> QED  BY <1>2, <2>2
<1> QED  BY <1>2, <1>3

(* The loop over the back of one vector pops the pairs with key k, and     *)
(* stops at one with another key.                                          *)
LEMMA KeptBack ==
  ASSUME NEW v \in Seq(AllPairs), NEW k
  PROVE  /\ Kept(v, k) \in 0 .. Len(v)
         /\ \A i \in Kept(v, k) + 1 .. Len(v) : k2_equals(v[i].key, k)
         /\ Kept(v, k) > 0 => ~ k2_equals(v[Kept(v, k)].key, k)
<1> DEFINE I == {n \in 0 .. Len(v) : \A i \in n + 1 .. Len(v) : k2_equals(v[i].key, k)}
           m == Kept(v, k)
<1>1. I \in SUBSET Nat /\ Len(v) \in I  OBVIOUS
<1>2. PICK x \in I : \A n \in I : x <= n  BY <1>1, LeastElement
<1>3. m = CHOOSE y \in I : \A n \in I : y <= n  BY DEF Kept, Min
<1>4. m \in I /\ \A n \in I : m <= n  BY <1>2, <1>3
<1> HIDE DEF m
<1>5. m \in 0 .. Len(v) /\ \A i \in m + 1 .. Len(v) : k2_equals(v[i].key, k)  BY <1>4
<1>6. ASSUME m > 0, k2_equals(v[m].key, k)  PROVE FALSE
  <2>1. m - 1 \in 0 .. Len(v) /\ ~ (m <= m - 1)  BY <1>5, <1>6
  <2>2. ASSUME NEW i \in (m - 1) + 1 .. Len(v)  PROVE k2_equals(v[i].key, k)
    <3>1. i = m \/ i \in m + 1 .. Len(v)  BY <1>5
    <3> QED  BY <1>5, <1>6, <3>1
  <2>3. m - 1 \in I  BY <2>1, <2>2
  <2> QED  BY <1>4, <2>1, <2>3
<1> QED  BY <1>5, <1>6 DEF m

(* What one turn of the loop of shuffle() pops off the vector of a thread. *)
Popped(t, k) == {vec[t][i] : i \in Kept(vec[t], k) + 1 .. Len(vec[t])}

(* The loop of get_shuffle_vector splits each vector in what is left and   *)
(* what is popped.                                                         *)
LEMMA VecSplit ==
  ASSUME DataTypeOK, OwnInv, NEW k, NEW t \in Threads
  PROVE  LET n == Kept(vec[t], k)
             a == SubSeq(vec[t], 1, n)
             b == Reverse(SubSeq(vec[t], n + 1, Len(vec[t])))
         IN  /\ n \in 0 .. Len(vec[t])
             /\ a \in Seq(AllPairs) /\ IsInjective(a)
             /\ Len(a) = n /\ \A i \in 1 .. n : a[i] = vec[t][i]
             /\ b \in Seq(AllPairs) /\ IsInjective(b) /\ ToSet(b) = Popped(t, k)
             /\ ToSet(a) \cup ToSet(b) = ToSet(vec[t])
             /\ ToSet(a) \cap ToSet(b) = {}
<1> DEFINE v == vec[t]
           n == Kept(v, k)
           a == SubSeq(v, 1, n)
           b == Reverse(SubSeq(v, n + 1, Len(v)))
<1>1. v \in Seq(AllPairs) /\ IsInjective(v)  BY DEF DataTypeOK, OwnInv
<1>2. n \in 0 .. Len(v)  BY <1>1, KeptBack
<1>3. /\ a \in Seq(AllPairs) /\ Len(a) = n /\ \A i \in 1 .. n : a[i] = v[i]
      /\ IsInjective(a)
      /\ ToSet(a) = {v[i] : i \in 1 .. n}
      /\ b \in Seq(AllPairs) /\ IsInjective(b)
      /\ ToSet(b) = {v[i] : i \in n + 1 .. Len(v)}
  <2> HIDE DEF v, n
  <2> QED  BY <1>1, <1>2, SplitReversed
<1>4. Len(v) \in Nat /\ ToSet(v) = {v[i] : i \in 1 .. Len(v)}
      /\ \A i, j \in 1 .. Len(v) : v[i] = v[j] => i = j
  BY <1>1, ListElements
<1>5. ToSet(b) = Popped(t, k)  BY <1>3 DEF Popped
<1> HIDE DEF v, n, a, b
<1>6. /\ \A i \in 1 .. n : i \in 1 .. Len(v)
      /\ \A i \in n + 1 .. Len(v) : i \in 1 .. Len(v) /\ i \notin 1 .. n
      /\ \A i \in 1 .. Len(v) : i \in 1 .. n \/ i \in n + 1 .. Len(v)
  BY <1>2, <1>4
<1>7. ToSet(a) \cup ToSet(b) = ToSet(v)  BY <1>3, <1>4, <1>6
<1>8. ToSet(a) \cap ToSet(b) = {}
  <2> SUFFICES ASSUME NEW x \in ToSet(a), x \in ToSet(b)  PROVE FALSE  OBVIOUS
  <2>1. PICK i \in 1 .. n : x = v[i]  BY <1>3
  <2>2. PICK j \in n + 1 .. Len(v) : x = v[j]  BY <1>3
  <2> QED  BY <1>4, <1>6, <2>1, <2>2
<1> QED  BY <1>2, <1>3, <1>5, <1>7, <1>8 DEF v, n, a, b

(* get_shuffle_vector returns the pairs it pops off all vectors, each once.*)
LEMMA ShuffleVector ==
  ASSUME DataTypeOK, OwnInv, NEW k
  PROVE  /\ get_shuffle_vector(k) \in Seq(AllPairs)
         /\ IsInjective(get_shuffle_vector(k))
         /\ ToSet(get_shuffle_vector(k)) = UNION {Popped(t, k) : t \in Threads}
<1> DEFINE b(t) == Reverse(SubSeq(vec[t], Kept(vec[t], k) + 1, Len(vec[t])))
           ss == [i \in 1 .. N |-> b(i - 1)]
<1>1. get_shuffle_vector(k) = FlattenSeq(ss)  BY DEF get_shuffle_vector
<1>2. \A t \in Threads :
        /\ b(t) \in Seq(AllPairs) /\ IsInjective(b(t)) /\ ToSet(b(t)) = Popped(t, k)
        /\ ToSet(b(t)) \subseteq ToSet(vec[t])
  BY VecSplit
<1> HIDE DEF b
<1>3. N \in Nat /\ \A i \in 1 .. N : i - 1 \in Threads  BY NAssumption DEF Threads
<1>4. ss \in Seq(Seq(AllPairs)) /\ Len(ss) = N /\ \A i \in 1 .. N : ss[i] = b(i - 1)
  BY <1>2, <1>3
<1>5. Apart(ss)
  <2>1. ASSUME NEW i \in 1 .. N, NEW j \in 1 .. N, i # j
        PROVE  ToSet(b(i - 1)) \cap ToSet(b(j - 1)) = {}
    <3>1. i - 1 \in Threads /\ j - 1 \in Threads /\ i - 1 # j - 1  BY <1>3, <2>1
    <3>2. ToSet(vec[i - 1]) \cap ToSet(vec[j - 1]) = {}  BY <3>1 DEF OwnInv
    <3> QED  BY <1>2, <3>1, <3>2
  <2>2. \A i \in 1 .. N : IsInjective(b(i - 1))  BY <1>2, <1>3
  <2> HIDE DEF ss
  <2> QED  BY <1>4, <2>1, <2>2 DEF Apart
<1>6. UNION {ToSet(ss[i]) : i \in 1 .. N} = UNION {Popped(t, k) : t \in Threads}
  <2>1. \A i \in 1 .. N : ToSet(ss[i]) = Popped(i - 1, k)  BY <1>2, <1>3, <1>4
  <2>2. \A t \in Threads : t + 1 \in 1 .. N /\ (t + 1) - 1 = t  BY <1>3 DEF Threads
  <2> HIDE DEF ss
  <2>3. \A t \in Threads : Popped(t, k) = ToSet(ss[t + 1]) /\ t + 1 \in 1 .. N  BY <2>1, <2>2
  <2>4. \A i \in 1 .. N : ToSet(ss[i]) = Popped(i - 1, k) /\ i - 1 \in Threads  BY <1>3, <2>1
  <2> QED  BY <2>3, <2>4
<1> HIDE DEF ss
<1>7. /\ FlattenSeq(ss) \in Seq(AllPairs) /\ IsInjective(FlattenSeq(ss))
      /\ ToSet(FlattenSeq(ss)) = UNION {ToSet(ss[i]) : i \in 1 .. Len(ss)}
  BY <1>4, <1>5, FlattenApart
<1> QED  BY <1>1, <1>4, <1>6, <1>7

-----------------------------------------------------------------------------
(* The steps that leave the pairs where they are, and the map phase too.   *)
Quiet ==
    /\ UNCHANGED <<vec, groups>>
    /\ job'.inputCounter = job.inputCounter /\ job'.maxForShuffle = job.maxForShuffle
    /\ \A u \in Threads :
          wpc[u] = "map" \/ wpc'[u] = "map" =>
              wpc'[u] = wpc[u] /\ my'[u] = my[u] /\ pos'[u] = pos[u]

(* The steps that move pairs, or change how far the map phase is.          *)
LEMMA StepKinds ==
  ASSUME ControlTypeOK, DataTypeOK, [WorkerNext \/ Returned]_workerVars
  PROVE  \/ Quiet
         \/ \E t \in Threads :
               MapFetch(t) \/ MapDone(t) \/ emit2(t) \/ Sort(t) \/ ShuffleGroup(t)
<1>0. /\ job \in JobType
      /\ wpc \in [Threads -> WorkerPc] /\ my \in [Threads -> Nat] /\ pos \in [Threads -> Nat]
  BY DEF ControlTypeOK, DataTypeOK
<1>1. CASE UNCHANGED workerVars  BY <1>1 DEF workerVars, dataVars, Quiet
<1>2. CASE Returned  BY <1>2 DEF Returned, workerVars, dataVars, Quiet
<1>3. ASSUME NEW t \in Threads, Create(t) \/ map_reduce_for_thread(t)
      PROVE  Quiet \/ MapFetch(t) \/ MapDone(t) \/ emit2(t) \/ Sort(t) \/ ShuffleGroup(t)
  <2> USE DEF JobType, Goto, dataVars, Quiet
  <2>1. CASE Create(t) \/ MapTest(t) \/ ReduceTest(t)
    BY <1>0, <2>1 DEF Create, MapTest, ReduceTest
  <2>2. CASE emit3Lock(t) \/ emit3Push(t)
    BY <1>0, <2>2 DEF emit3Lock, emit3Push
  <2>3. CASE AtBarrier(t) \/ LeaveBarrier(t)
    BY <1>0, <2>3 DEF AtBarrier, LeaveBarrier
  <2>4. CASE StoreMax(t) \/ StoreMapStage(t)
    BY <1>0, <2>4 DEF StoreMax, StoreMapStage
  <2>5. CASE BeginShuffle(t) \/ EndShuffle(t)
    BY <1>0, <2>5 DEF BeginShuffle, EndShuffle
  <2>6. CASE ReduceFetch(t)
    <3>1. UNCHANGED <<vec, groups>> /\ job'.inputCounter = job.inputCounter
          /\ job'.maxForShuffle = job.maxForShuffle
      BY <1>0, <2>6 DEF ReduceFetch
    <3>2. \A u \in Threads : wpc[u] = "map" \/ wpc'[u] = "map" =>
              wpc'[u] = wpc[u] /\ my'[u] = my[u] /\ pos'[u] = pos[u]
      BY <1>0, <2>6 DEF ReduceFetch
    <3> QED  BY <3>1, <3>2
  <2>7. CASE ReduceDone(t)
    <3>1. UNCHANGED <<vec, groups>> /\ job'.inputCounter = job.inputCounter
          /\ job'.maxForShuffle = job.maxForShuffle
      BY <1>0, <2>7 DEF ReduceDone
    <3>2. \A u \in Threads : wpc[u] = "map" \/ wpc'[u] = "map" =>
              wpc'[u] = wpc[u] /\ my'[u] = my[u] /\ pos'[u] = pos[u]
      BY <1>0, <2>7 DEF ReduceDone
    <3> QED  BY <3>1, <3>2
  <2> QED  BY <1>3, <2>1, <2>2, <2>3, <2>4, <2>5, <2>6, <2>7
           DEF map_reduce_for_thread, MapStep, ShuffleStep, ReduceStep
<1> QED  BY <1>1, <1>2, <1>3 DEF WorkerNext

-----------------------------------------------------------------------------
(* The pair that is emitted is one of the input's, and not there yet.      *)
LEMMA EmitsNew ==
  ASSUME ControlTypeOK, DataTypeOK, PhaseInv, PlacedInv, NEW t \in Threads, emit2(t)
  PROVE  LET p == Pair(my[t], pos[t])
         IN  /\ my[t] \in 0 .. Inputs - 1 /\ pos[t] \in 1 .. Len(Emits[my[t] + 1])
             /\ p \in AllPairs /\ p.id[1] = my[t] /\ p.id[2] = pos[t]
             /\ p \notin Placed
             /\ vec' = [vec EXCEPT ![t] = Append(vec[t], p)]
<1> DEFINE p == Pair(my[t], pos[t])
<1>1. wpc[t] = "map" /\ pos[t] \in DOMAIN Emits[my[t] + 1]
      /\ vec' = [vec EXCEPT ![t] = Append(vec[t], p)]
  BY DEF emit2
<1>2. my[t] \in 0 .. Inputs - 1
  BY <1>1, InputsType DEF PhaseInv, PhaseThread, ControlTypeOK
<1>3. pos[t] \in 1 .. Len(Emits[my[t] + 1])  BY <1>1, <1>2, InputsType
<1>4. p \in AllPairs /\ p.id[1] = my[t] /\ p.id[2] = pos[t]  BY <1>2, <1>3, PairFields
<1> HIDE DEF p
<1>5. p \notin Placed
  <2>1. ~ (p.id[2] < pos[t])  BY <1>3, <1>4
  <2> QED  BY <1>1, <1>4, <2>1 DEF PlacedInv, Emitted
<1> QED  BY <1>1, <1>2, <1>3, <1>4, <1>5 DEF p

(* The sort rearranges a vector.                                           *)
LEMMA SortVector ==
  ASSUME DataTypeOK, OwnInv, NEW t \in Threads, Sort(t)
  PROVE  \E s \in Seq(AllPairs) :
            /\ vec' = [vec EXCEPT ![t] = s]
            /\ IsInjective(s) /\ ToSet(s) = ToSet(vec[t]) /\ Ascending(s)
<1>1. PICK s \in SortedVersions(vec[t]) : vec' = [vec EXCEPT ![t] = s]  BY DEF Sort
<1>2. vec[t] \in Seq(AllPairs) /\ IsInjective(vec[t])  BY DEF DataTypeOK, OwnInv
<1>3. IsFiniteSet(ToSet(vec[t])) /\ ToSet(vec[t]) \subseteq AllPairs
  BY <1>2, InjectiveLength, ListElements
<1>4. s \in SetToSeqs(ToSet(vec[t]))
      /\ \A i, j \in DOMAIN s : i < j => ~KeyLess(s[j].key, s[i].key)
  BY <1>1 DEF SortedVersions
<1>5. s \in Seq(ToSet(vec[t])) /\ IsInjective(s) /\ ToSet(s) = ToSet(vec[t])
  BY <1>3, <1>4, ListOfSet
<1>6. s \in Seq(AllPairs) /\ DOMAIN s = 1 .. Len(s) /\ \A i \in 1 .. Len(s) : s[i] \in AllPairs
  BY <1>3, <1>5
<1>7. Ascending(s)
  <2>1. \A i \in 1 .. Len(s) : s[i].key \in Int  BY <1>6, PairFields
  <2> QED  BY <1>4, <1>6, <2>1 DEF Ascending, KeyLess
<1> QED  BY <1>1, <1>5, <1>6, <1>7

(* One turn of the loop of shuffle() moves pairs to a new group.           *)
LEMMA ShuffleMoves ==
  ASSUME DataTypeOK, OwnInv, NEW t \in Threads, ShuffleGroup(t)
  PROVE  LET k == get_current_largest_element
             g == get_shuffle_vector(k)
         IN  /\ groups' = Append(groups, g)
             /\ g \in Seq(AllPairs) /\ IsInjective(g)
             /\ ToSet(g) = UNION {Popped(u, k) : u \in Threads}
             /\ DOMAIN vec' = Threads
             /\ \A u \in Threads :
                   /\ vec'[u] \in Seq(AllPairs) /\ IsInjective(vec'[u])
                   /\ vec'[u] = SubSeq(vec[u], 1, Kept(vec[u], k))
                   /\ ToSet(vec'[u]) \cup Popped(u, k) = ToSet(vec[u])
                   /\ ToSet(vec'[u]) \cap Popped(u, k) = {}
<1> DEFINE k == get_current_largest_element
           g == get_shuffle_vector(k)
<1>1. groups' = Append(groups, g)
      /\ vec' = [u \in Threads |-> SubSeq(vec[u], 1, Kept(vec[u], k))]
  BY DEF ShuffleGroup
<1>2. g \in Seq(AllPairs) /\ IsInjective(g) /\ ToSet(g) = UNION {Popped(u, k) : u \in Threads}
  <2> HIDE DEF k
  <2> QED  BY ShuffleVector
<1>3. ASSUME NEW u \in Threads
      PROVE  /\ vec'[u] \in Seq(AllPairs) /\ IsInjective(vec'[u])
             /\ vec'[u] = SubSeq(vec[u], 1, Kept(vec[u], k))
             /\ ToSet(vec'[u]) \cup Popped(u, k) = ToSet(vec[u])
             /\ ToSet(vec'[u]) \cap Popped(u, k) = {}
  <2>1. vec'[u] = SubSeq(vec[u], 1, Kept(vec[u], k))  BY <1>1
  <2> DEFINE a == SubSeq(vec[u], 1, Kept(vec[u], k))
             b == Reverse(SubSeq(vec[u], Kept(vec[u], k) + 1, Len(vec[u])))
  <2> HIDE DEF k
  <2>2. /\ a \in Seq(AllPairs) /\ IsInjective(a) /\ ToSet(b) = Popped(u, k)
        /\ ToSet(a) \cup ToSet(b) = ToSet(vec[u])
        /\ ToSet(a) \cap ToSet(b) = {}
    BY VecSplit
  <2>3. vec'[u] = a  BY <2>1
  <2> HIDE DEF a, b
  <2> QED  BY <2>1, <2>2, <2>3
<1> QED  BY <1>1, <1>2, <1>3

-----------------------------------------------------------------------------
(* A vector takes in pairs that are not yet anywhere.                      *)
LEMMA OwnReplace ==
  ASSUME DataTypeOK, OwnInv, NEW t \in Threads, NEW s, NEW X,
         vec' = [vec EXCEPT ![t] = s], groups' = groups,
         IsInjective(s), ToSet(s) = ToSet(vec[t]) \cup X, X \cap Placed = {}
  PROVE  /\ OwnInv'
         /\ Placed' = Placed \cup X
<1>1. vec'[t] = s /\ \A u \in Threads \ {t} : vec'[u] = vec[u]  BY DEF DataTypeOK
<1>2. \A u \in Threads : ToSet(vec[u]) \subseteq Placed  BY DEF Placed
<1>3. \A i \in 1 .. Len(groups) : ToSet(groups[i]) \subseteq Placed  BY DEF Placed, Grouped
<1>4. \A u \in Threads : IsInjective(vec'[u])  BY <1>1 DEF OwnInv
<1>5. ASSUME NEW u \in Threads, NEW w \in Threads, u # w
      PROVE  ToSet(vec'[u]) \cap ToSet(vec'[w]) = {}
  <2>1. \A x \in Threads \ {t} : ToSet(vec'[x]) \cap ToSet(s) = {}
    BY <1>1, <1>2 DEF OwnInv
  <2>2. CASE u # t /\ w # t  BY <1>1, <1>5, <2>2 DEF OwnInv
  <2>3. CASE u = t \/ w = t  BY <1>1, <1>5, <2>1, <2>3
  <2> QED  BY <2>2, <2>3
<1>6. ASSUME NEW u \in Threads, NEW i \in 1 .. Len(groups)
      PROVE  ToSet(vec'[u]) \cap ToSet(groups[i]) = {}
  BY <1>1, <1>3 DEF OwnInv
<1>7. OwnInv'  BY <1>4, <1>5, <1>6 DEF OwnInv
<1>8. Placed' = Placed \cup X
  <2>1. Grouped' = Grouped  BY DEF Grouped
  <2>2. UNION {ToSet(vec'[u]) : u \in Threads} = (UNION {ToSet(vec[u]) : u \in Threads}) \cup X
    BY <1>1
  <2> QED  BY <2>1, <2>2 DEF Placed
<1> QED  BY <1>7, <1>8

(* Pairs move from the vectors to a new group.                             *)
LEMMA OwnShuffle ==
  ASSUME DataTypeOK, OwnInv, NEW t \in Threads, ShuffleGroup(t)
  PROVE  OwnInv' /\ Placed' = Placed
<1> DEFINE k == get_current_largest_element
           g == get_shuffle_vector(k)
           n == Len(groups)
           P(u) == Popped(u, k)
<1>1. /\ groups' = Append(groups, g)
      /\ g \in Seq(AllPairs) /\ IsInjective(g)
      /\ ToSet(g) = UNION {P(u) : u \in Threads}
      /\ \A u \in Threads :
            /\ IsInjective(vec'[u])
            /\ ToSet(vec'[u]) \cup P(u) = ToSet(vec[u])
            /\ ToSet(vec'[u]) \cap P(u) = {}
  BY ShuffleMoves
<1> HIDE DEF k, g, P
<1>2. n \in Nat /\ Len(groups') = n + 1 /\ groups'[n + 1] = g
      /\ \A i \in 1 .. n : groups'[i] = groups[i]
  BY <1>1 DEF DataTypeOK
<1> HIDE DEF n
<1>3. \A i \in 1 .. n + 1 : i \in 1 .. n \/ i = n + 1  BY <1>2
<1>4. \A u \in Threads : \A i \in 1 .. n : ToSet(vec[u]) \cap ToSet(groups[i]) = {}
  BY DEF OwnInv, n
<1>5. \A i \in 1 .. n : ToSet(g) \cap ToSet(groups[i]) = {}
  <2>1. \A u \in Threads : P(u) \subseteq ToSet(vec[u])  BY <1>1
  <2>2. ToSet(g) = UNION {P(u) : u \in Threads}  BY <1>1
  <2>3. \A p \in ToSet(g) : \E u \in Threads : p \in ToSet(vec[u])  BY <2>1, <2>2
  <2> QED  BY <1>4, <2>3
<1>6. \A u, w \in Threads : u # w => ToSet(vec[u]) \cap ToSet(vec[w]) = {}  BY DEF OwnInv
<1>7. \A u, w \in Threads : u # w => ToSet(vec'[u]) \cap ToSet(vec'[w]) = {}
  BY <1>1, <1>6
<1>8. \A u \in Threads : ToSet(vec'[u]) \cap ToSet(g) = {}
  <2> SUFFICES ASSUME NEW u \in Threads, NEW x \in ToSet(vec'[u]), x \in ToSet(g)  PROVE FALSE
    OBVIOUS
  <2>1. PICK w \in Threads : x \in P(w)  BY <1>1
  <2>2. u # w  BY <1>1, <2>1
  <2>3. x \in ToSet(vec[u]) /\ x \in ToSet(vec[w])  BY <1>1, <2>1
  <2> QED  BY <1>6, <2>2, <2>3
<1>9. Apart(groups')
  <2>1. \A i, j \in 1 .. n : i # j => ToSet(groups[i]) \cap ToSet(groups[j]) = {}
    BY DEF OwnInv, Apart, n
  <2>2. \A i \in 1 .. n : IsInjective(groups[i])  BY DEF OwnInv, Apart, n
  <2>3. ASSUME NEW i \in 1 .. n + 1, NEW j \in 1 .. n + 1, i # j
        PROVE  ToSet(groups'[i]) \cap ToSet(groups'[j]) = {}
    BY <1>2, <1>3, <1>5, <2>1, <2>3
  <2>4. \A i \in 1 .. n + 1 : IsInjective(groups'[i])  BY <1>1, <1>2, <1>3, <2>2
  <2> QED  BY <1>2, <2>3, <2>4 DEF Apart
<1>10. \A u \in Threads : \A i \in 1 .. n + 1 : ToSet(vec'[u]) \cap ToSet(groups'[i]) = {}
  <2> TAKE u \in Threads
  <2> TAKE i \in 1 .. n + 1
  <2>1. CASE i = n + 1  BY <1>2, <1>8, <2>1
  <2>2. CASE i \in 1 .. n
    <3>1. groups'[i] = groups[i] /\ ToSet(vec'[u]) \subseteq ToSet(vec[u])  BY <1>1, <1>2, <2>2
    <3> QED  BY <1>4, <2>2, <3>1
  <2> QED  BY <1>3, <2>1, <2>2
<1>11. OwnInv'  BY <1>1, <1>2, <1>7, <1>9, <1>10 DEF OwnInv
<1>12. Placed' = Placed
  <2>1. Grouped' = Grouped \cup ToSet(g)
    <3>1. Grouped' = UNION {ToSet(groups'[i]) : i \in 1 .. n + 1}  BY <1>2 DEF Grouped
    <3>2. Grouped = UNION {ToSet(groups[i]) : i \in 1 .. n}  BY DEF Grouped, n
    <3>3. \A i \in 1 .. n : i \in 1 .. n + 1  BY <1>2
    <3>4. n + 1 \in 1 .. n + 1  BY <1>2
    <3> QED  BY <1>2, <1>3, <3>1, <3>2, <3>3, <3>4
  <2>2. (UNION {ToSet(vec'[u]) : u \in Threads}) \cup ToSet(g) = UNION {ToSet(vec[u]) : u \in Threads}
    BY <1>1
  <2> QED  BY <2>1, <2>2 DEF Placed
<1> QED  BY <1>11, <1>12

-----------------------------------------------------------------------------
(* A step that leaves the map phase alone emits nothing.                   *)
MapAlone ==
    /\ job'.inputCounter = job.inputCounter
    /\ \A u \in Threads :
          wpc[u] = "map" \/ wpc'[u] = "map" =>
              wpc'[u] = wpc[u] /\ my'[u] = my[u] /\ pos'[u] = pos[u]

(* Steps outside the map loop leave the emitted pairs alone.               *)
LEMMA EmittedAlone ==
  ASSUME MapAlone
  PROVE  Emitted' = Emitted
<1>1. ASSUME NEW p \in AllPairs, NEW u \in Threads
      PROVE  (wpc'[u] = "map" /\ my'[u] = p.id[1] => p.id[2] < pos'[u])
               <=> (wpc[u] = "map" /\ my[u] = p.id[1] => p.id[2] < pos[u])
  BY DEF MapAlone
<1> QED  BY <1>1 DEF Emitted, MapAlone

(* A thread that takes an input has emitted none of its pairs.             *)
LEMMA EmittedFetch ==
  ASSUME ControlTypeOK, DataTypeOK, NEW t \in Threads, MapFetch(t)
  PROVE  Emitted' = Emitted
<1> DEFINE ic == job.inputCounter
           Far(p, u) == wpc[u] = "map" /\ my[u] = p.id[1] => p.id[2] < pos[u]
           FarNext(p, u) == wpc'[u] = "map" /\ my'[u] = p.id[1] => p.id[2] < pos'[u]
<1>1. ic \in Nat /\ job'.inputCounter = ic + 1  BY DEF MapFetch, DataTypeOK, JobType
<1>2. /\ wpc[t] = "fetch" /\ my'[t] = ic /\ pos'[t] = 1
      /\ wpc'[t] = IF ic >= Inputs THEN "sort" ELSE "map"
      /\ \A u \in Threads \ {t} : wpc'[u] = wpc[u] /\ my'[u] = my[u] /\ pos'[u] = pos[u]
  BY DEF MapFetch, Goto, ControlTypeOK, DataTypeOK
<1> HIDE DEF ic
<1>3. ASSUME NEW p \in AllPairs
      PROVE  (p.id[1] < ic + 1 /\ \A u \in Threads : FarNext(p, u))
               <=> (p.id[1] < ic /\ \A u \in Threads : Far(p, u))
  <2>1. p.id[1] \in 0 .. Inputs - 1 /\ p.id[2] \in Nat /\ p.id[2] >= 1 /\ Inputs \in Nat
    BY PairFields, InputsType
  <2>2. \A u \in Threads \ {t} : FarNext(p, u) <=> Far(p, u)  BY <1>2
  <2>3. Far(p, t)  BY <1>2
  <2>4. CASE p.id[1] = ic
    <3>1. ~ FarNext(p, t)
      <4>1. ~ (ic >= Inputs)  BY <1>1, <2>1, <2>4
      <4>2. ~ (p.id[2] < 1)  BY <2>1
      <4> QED  BY <1>2, <2>4, <4>1, <4>2
    <3> HIDE DEF FarNext, Far
    <3> QED  BY <1>1, <2>4, <3>1
  <2>5. CASE p.id[1] # ic
    <3>1. FarNext(p, t)  BY <1>2, <2>5
    <3>2. p.id[1] < ic + 1 <=> p.id[1] < ic  BY <1>1, <2>1, <2>5
    <3> HIDE DEF FarNext, Far
    <3> QED  BY <2>2, <2>3, <3>1, <3>2
  <2> QED  BY <2>4, <2>5
<1> QED  BY <1>1, <1>3 DEF Emitted, ic

(* A thread that leaves an input has emitted all of its pairs.             *)
LEMMA EmittedDone ==
  ASSUME ControlTypeOK, DataTypeOK, PhaseInv, NEW t \in Threads, MapDone(t)
  PROVE  Emitted' = Emitted
<1> DEFINE Far(p, u) == wpc[u] = "map" /\ my[u] = p.id[1] => p.id[2] < pos[u]
           FarNext(p, u) == wpc'[u] = "map" /\ my'[u] = p.id[1] => p.id[2] < pos'[u]
<1>1. job'.inputCounter = job.inputCounter  BY DEF MapDone, DataTypeOK, JobType
<1>2. /\ wpc[t] = "map" /\ wpc'[t] = "test" /\ my' = my /\ pos' = pos
      /\ \A u \in Threads \ {t} : wpc'[u] = wpc[u]
  BY DEF MapDone, Goto, ControlTypeOK
<1>3. pos[t] \in Nat /\ pos[t] >= 1 /\ pos[t] \notin DOMAIN Emits[my[t] + 1]
      /\ my[t] \in 0 .. Inputs - 1
  BY <1>2, InputsType DEF MapDone, PhaseInv, PhaseThread, ControlTypeOK, DataTypeOK
<1>4. pos[t] > Len(Emits[my[t] + 1])
  <2>1. Emits[my[t] + 1] \in Seq(Int)  BY <1>3, InputsType
  <2>2. pos[t] \notin 1 .. Len(Emits[my[t] + 1])  BY <1>3, <2>1
  <2> QED  BY <1>3, <2>1, <2>2
<1>5. ASSUME NEW p \in AllPairs, NEW u \in Threads
      PROVE  FarNext(p, u) <=> Far(p, u)
  <2>1. CASE u # t  BY <1>2, <2>1
  <2>2. CASE u = t
    <3>1. FarNext(p, t)  BY <1>2
    <3>2. Far(p, t)
      <4> SUFFICES ASSUME my[t] = p.id[1]  PROVE p.id[2] < pos[t]  OBVIOUS
      <4>1. p.id[2] \in 1 .. Len(Emits[my[t] + 1])  BY PairFields
      <4>2. Len(Emits[my[t] + 1]) \in Nat  BY <1>3, InputsType
      <4> QED  BY <1>3, <1>4, <4>1, <4>2
    <3> HIDE DEF Far, FarNext
    <3> QED  BY <2>2, <3>1, <3>2
  <2> QED  BY <2>1, <2>2
<1> QED  BY <1>1, <1>5 DEF Emitted

(* emit2 adds one pair.                                                    *)
LEMMA EmittedEmit ==
  ASSUME ControlTypeOK, DataTypeOK, ClaimInv, DistinctWork, PhaseInv, PlacedInv,
         NEW t \in Threads, emit2(t)
  PROVE  Emitted' = Emitted \cup {Pair(my[t], pos[t])}
<1> DEFINE e == Pair(my[t], pos[t])
           Far(p, u) == wpc[u] = "map" /\ my[u] = p.id[1] => p.id[2] < pos[u]
           FarNext(p, u) == wpc'[u] = "map" /\ my'[u] = p.id[1] => p.id[2] < pos'[u]
<1>1. job'.inputCounter = job.inputCounter  BY DEF emit2, DataTypeOK, JobType
<1>2. /\ wpc[t] = "map" /\ wpc' = wpc /\ my' = my /\ pos'[t] = pos[t] + 1
      /\ \A u \in Threads \ {t} : pos'[u] = pos[u]
  BY DEF emit2, DataTypeOK
<1>3. /\ my[t] \in 0 .. Inputs - 1
      /\ e \in AllPairs /\ e.id[1] = my[t] /\ e.id[2] = pos[t]
  BY EmitsNew
<1>4. pos[t] \in Nat /\ my[t] < job.inputCounter
      /\ \A u \in Threads \ {t} : wpc[u] = "map" => my[u] # my[t]
  BY <1>2 DEF ClaimInv, DistinctWork, DataTypeOK
<1>5. ASSUME NEW p \in AllPairs
      PROVE  (p.id[1] < job.inputCounter /\ \A u \in Threads : FarNext(p, u))
               <=> (p.id[1] < job.inputCounter /\ \A u \in Threads : Far(p, u)) \/ p = e
  <2>1. p.id[2] \in Nat  BY PairFields
  <2>2. \A u \in Threads \ {t} : FarNext(p, u) <=> Far(p, u)  BY <1>2
  <2>3. CASE p.id[1] = my[t]
    <3>1. \A u \in Threads \ {t} : Far(p, u)  BY <1>4, <2>3
    <3>2. Far(p, t) <=> p.id[2] < pos[t]  BY <1>2, <2>3
    <3>3. FarNext(p, t) <=> p.id[2] < pos[t] + 1  BY <1>2, <2>3
    <3>4. p = e <=> p.id[2] = pos[t]
      <4>1. p = Pair(p.id[1], p.id[2])  BY PairFields
      <4> QED  BY <1>3, <2>3, <4>1
    <3>5. p.id[1] < job.inputCounter  BY <1>4, <2>3
    <3> HIDE DEF Far, FarNext, e
    <3>6. FarNext(p, t) <=> Far(p, t) \/ p = e  BY <1>4, <2>1, <3>2, <3>3, <3>4
    <3> QED  BY <2>2, <3>1, <3>5, <3>6
  <2>4. CASE p.id[1] # my[t]
    <3>1. FarNext(p, t) /\ Far(p, t) /\ p # e  BY <1>2, <1>3, <2>4
    <3> HIDE DEF Far, FarNext, e
    <3> QED  BY <2>2, <3>1
  <2> QED  BY <2>3, <2>4
<1>6. e \in AllPairs  BY <1>3
<1> HIDE DEF e
<1>7. \A p : p \in Emitted' <=> p \in Emitted \/ p = e  BY <1>1, <1>5, <1>6 DEF Emitted
<1> QED  BY <1>7 DEF e

-----------------------------------------------------------------------------
(* No step loses a pair or puts it in two places.                          *)
LEMMA PlacedStep ==
  ASSUME ControlTypeOK, ClaimInv, DistinctWork, DataTypeOK, PhaseInv, OwnInv, PlacedInv,
         [WorkerNext \/ Returned]_workerVars
  PROVE  OwnInv' /\ PlacedInv'
<1>0. job \in JobType /\ wpc \in [Threads -> WorkerPc]  BY DEF ControlTypeOK, DataTypeOK
<1>1. CASE Quiet
  <2>1. UNCHANGED <<vec, groups>> /\ job'.maxForShuffle = job.maxForShuffle /\ MapAlone
    BY <1>1 DEF Quiet, MapAlone
  <2>2. OwnInv'  BY <2>1 DEF OwnInv, Apart
  <2>3. Placed' = Placed  BY <2>1 DEF Placed, Grouped
  <2> QED  BY <2>1, <2>2, <2>3, EmittedAlone DEF PlacedInv
<1>2. ASSUME NEW t \in Threads, MapFetch(t) \/ MapDone(t)  PROVE OwnInv' /\ PlacedInv'
  <2>1. UNCHANGED <<vec, groups>>  BY <1>2 DEF MapFetch, MapDone, dataVars
  <2>2. job'.maxForShuffle = job.maxForShuffle  BY <1>0, <1>2 DEF MapFetch, MapDone, JobType
  <2>3. OwnInv'  BY <2>1 DEF OwnInv, Apart
  <2>4. Placed' = Placed  BY <2>1 DEF Placed, Grouped
  <2>5. Emitted' = Emitted  BY <1>2, EmittedFetch, EmittedDone
  <2> QED  BY <2>2, <2>3, <2>4, <2>5 DEF PlacedInv
<1>3. ASSUME NEW t \in Threads, emit2(t)  PROVE OwnInv' /\ PlacedInv'
  <2> DEFINE e == Pair(my[t], pos[t])
  <2>1. e \in AllPairs /\ e \notin Placed /\ vec' = [vec EXCEPT ![t] = Append(vec[t], e)]
    BY <1>3, EmitsNew
  <2>2. groups' = groups  BY <1>3 DEF emit2
  <2>3. job'.maxForShuffle = job.maxForShuffle + 1  BY <1>0, <1>3 DEF emit2, JobType
  <2>4. Emitted' = Emitted \cup {e}  BY <1>3, EmittedEmit
  <2> HIDE DEF e
  <2>5. e \notin ToSet(vec[t])  BY <2>1 DEF Placed
  <2>6. /\ IsInjective(Append(vec[t], e))
        /\ ToSet(Append(vec[t], e)) = ToSet(vec[t]) \cup {e}
    BY <2>1, <2>5, InjectiveAppend DEF DataTypeOK, OwnInv
  <2>7. OwnInv' /\ Placed' = Placed \cup {e}
    <3>1. {e} \cap Placed = {}  BY <2>1
    <3> QED  BY <2>1, <2>2, <2>6, <3>1, OwnReplace
  <2>8. /\ IsFiniteSet(Placed \cup {e})
        /\ Cardinality(Placed \cup {e}) = Cardinality(Placed) + 1
    BY <2>1, FS_AddElement DEF PlacedInv
  <2> QED  BY <2>3, <2>4, <2>7, <2>8 DEF PlacedInv
<1>4. ASSUME NEW t \in Threads, Sort(t)  PROVE OwnInv' /\ PlacedInv'
  <2>1. PICK s \in Seq(AllPairs) :
           vec' = [vec EXCEPT ![t] = s] /\ IsInjective(s) /\ ToSet(s) = ToSet(vec[t])
    BY <1>4, SortVector
  <2>2. groups' = groups /\ job' = job  BY <1>4 DEF Sort
  <2>3. MapAlone  BY <1>0, <1>4 DEF Sort, Goto, MapAlone
  <2>4. ToSet(s) = ToSet(vec[t]) \cup {}  BY <2>1
  <2>5. OwnInv' /\ Placed' = Placed \cup {}
    <3>1. {} \cap Placed = {}  OBVIOUS
    <3> QED  BY <2>1, <2>2, <2>4, <3>1, OwnReplace
  <2> QED  BY <2>2, <2>3, <2>5, EmittedAlone DEF PlacedInv
<1>5. ASSUME NEW t \in Threads, ShuffleGroup(t)  PROVE OwnInv' /\ PlacedInv'
  <2>1. OwnInv' /\ Placed' = Placed  BY <1>5, OwnShuffle
  <2>2. UNCHANGED <<wpc, my, pos>>
        /\ job' = [job EXCEPT !.shuffleFinished = job.shuffleFinished + 1]
    BY <1>5 DEF ShuffleGroup
  <2>3. job'.maxForShuffle = job.maxForShuffle /\ job'.inputCounter = job.inputCounter
    BY <1>0, <2>2 DEF JobType
  <2>4. MapAlone  BY <2>2, <2>3 DEF MapAlone
  <2> QED  BY <2>1, <2>3, <2>4, EmittedAlone DEF PlacedInv
<1> QED  BY <1>1, <1>2, <1>3, <1>4, <1>5, StepKinds

-----------------------------------------------------------------------------
(* From SHUFFLE on all inputs are mapped: every pair is in some list.      *)
LEMMA AllPlaced ==
  ASSUME DataTypeOK, PhaseInv, PlacedInv, job.stage \in {SHUFFLE, REDUCE}
  PROVE  Placed = AllPairs
<1>1. Main \in Threads  BY NAssumption DEF Main, Threads
<1>2. \A t \in Threads : wpc[t] \notin Unsorted /\ wpc[t] # "map" /\ wpc[t] \notin Mapping
  <2>1. \A t \in Threads : wpc[t] \notin Unsorted  BY DEF PhaseInv, PhaseThread
  <2> QED  BY <2>1 DEF Unsorted, Mapping
<1>3. job.inputCounter >= Inputs  BY <1>1, <1>2 DEF PhaseInv, PhaseThread
<1>4. \A p \in AllPairs : p.id[1] < job.inputCounter
  <2>1. job.inputCounter \in Nat /\ Inputs \in Nat  BY InputsType DEF DataTypeOK, JobType
  <2>2. \A p \in AllPairs : p.id[1] \in 0 .. Inputs - 1  BY PairFields
  <2> QED  BY <1>3, <2>1, <2>2
<1>5. Emitted = AllPairs  BY <1>2, <1>4 DEF Emitted
<1> QED  BY <1>5 DEF PlacedInv

(* Which steps change the stage.                                           *)
LEMMA StageSteps ==
  ASSUME ControlTypeOK, DataTypeOK, [WorkerNext \/ Returned]_workerVars
  PROVE  \/ job'.stage = job.stage
         \/ job'.stage \in {MAP, SHUFFLE}
         \/ job'.stage = REDUCE /\ Backs = {} /\ UNCHANGED <<vec, groups>>
            /\ \E t \in Threads : wpc[t] = "shuffle"
<1>0. job \in JobType  BY DEF DataTypeOK
<1>1. CASE UNCHANGED workerVars  BY <1>1 DEF workerVars
<1>2. CASE Returned  BY <1>2 DEF Returned, workerVars
<1>3. ASSUME NEW t \in Threads, EndShuffle(t)
      PROVE  /\ job'.stage = REDUCE /\ Backs = {} /\ UNCHANGED <<vec, groups>>
             /\ wpc[t] = "shuffle"
  BY <1>0, <1>3 DEF EndShuffle, JobType, dataVars, Goto
<1>4. ASSUME NEW t \in Threads, StoreMapStage(t) \/ BeginShuffle(t)
      PROVE  job'.stage \in {MAP, SHUFFLE}
  BY <1>0, <1>4 DEF StoreMapStage, BeginShuffle, JobType
<1>5. ASSUME NEW t \in Threads, Create(t) \/ map_reduce_for_thread(t),
             ~ EndShuffle(t), ~ StoreMapStage(t), ~ BeginShuffle(t)
      PROVE  job'.stage = job.stage
  <2> USE DEF JobType
  <2>1. CASE Create(t) \/ MapTest(t) \/ ReduceTest(t) \/ Sort(t) \/ emit3Lock(t) \/ emit3Push(t)
    BY <2>1 DEF Create, MapTest, ReduceTest, Sort, emit3Lock, emit3Push
  <2>2. CASE AtBarrier(t) \/ LeaveBarrier(t)
    BY <2>2 DEF AtBarrier, LeaveBarrier
  <2>3. CASE StoreMax(t) \/ MapFetch(t)
    BY <1>0, <2>3 DEF StoreMax, MapFetch
  <2>4. CASE emit2(t) \/ MapDone(t)
    BY <1>0, <2>4 DEF emit2, MapDone
  <2>5. CASE ReduceFetch(t) \/ ReduceDone(t)
    BY <1>0, <2>5 DEF ReduceFetch, ReduceDone
  <2>6. CASE ShuffleGroup(t)
    <3>1. job' = [job EXCEPT !.shuffleFinished = job.shuffleFinished + 1]
      BY <2>6 DEF ShuffleGroup
    <3> QED  BY <1>0, <3>1
  <2> QED  BY <1>5, <2>1, <2>2, <2>3, <2>4, <2>5, <2>6
           DEF map_reduce_for_thread, MapStep, ShuffleStep, ReduceStep
<1> QED  BY <1>1, <1>2, <1>3, <1>4, <1>5 DEF WorkerNext

(* A thread that is past its sort does not go back before it.              *)
LEMMA StaysSorted ==
  ASSUME ControlTypeOK, [WorkerNext \/ Returned]_workerVars, NEW u \in Threads
  PROVE  /\ wpc[u] \notin Unsorted => wpc'[u] \notin Unsorted
         /\ wpc'[u] \notin Unsorted => wpc[u] \notin Unsorted \/ Sort(u)
<1>0. wpc \in [Threads -> WorkerPc]  BY DEF ControlTypeOK
<1> USE DEF Unsorted, Mapping, Goto
<1>1. CASE UNCHANGED workerVars  BY <1>1 DEF workerVars
<1>2. CASE Returned  BY <1>2 DEF Returned, workerVars
<1>3. ASSUME NEW t \in Threads, Create(t) \/ map_reduce_for_thread(t)
      PROVE  /\ wpc[u] \notin Unsorted => wpc'[u] \notin Unsorted
             /\ wpc'[u] \notin Unsorted => wpc[u] \notin Unsorted \/ Sort(u)
  <2>1. CASE Create(t) \/ MapTest(t)
    BY <1>0, <2>1 DEF Create, MapTest
  <2>2. CASE ReduceTest(t) \/ emit3Lock(t) \/ emit3Push(t)
    BY <1>0, <2>2 DEF ReduceTest, emit3Lock, emit3Push
  <2>3. CASE AtBarrier(t) \/ LeaveBarrier(t)
    BY <1>0, <2>3 DEF AtBarrier, LeaveBarrier
  <2>4. CASE StoreMax(t) \/ StoreMapStage(t) \/ MapFetch(t)
    BY <1>0, <2>4 DEF StoreMax, StoreMapStage, MapFetch
  <2>5. CASE emit2(t) \/ MapDone(t)
    BY <1>0, <2>5 DEF emit2, MapDone
  <2>6. CASE Sort(t)
    <3>1. Goto(t, "sort", "barrier1")  BY <2>6 DEF Sort
    <3> QED  BY <1>0, <2>6, <3>1
  <2>7. CASE BeginShuffle(t) \/ EndShuffle(t)
    BY <1>0, <2>7 DEF BeginShuffle, EndShuffle
  <2>8. CASE ShuffleGroup(t)
    <3>1. wpc' = wpc  BY <2>8 DEF ShuffleGroup
    <3> QED  BY <3>1
  <2>9. CASE ReduceFetch(t) \/ ReduceDone(t)
    BY <1>0, <2>9 DEF ReduceFetch, ReduceDone
  <2> QED  BY <1>3, <2>1, <2>2, <2>3, <2>4, <2>5, <2>6, <2>7, <2>8, <2>9
           DEF map_reduce_for_thread, MapStep, ShuffleStep, ReduceStep
<1> QED  BY <1>1, <1>2, <1>3 DEF WorkerNext

-----------------------------------------------------------------------------
(* The vectors stay sorted while pairs are popped off them.                *)
LEMMA SortedStep ==
  ASSUME ControlTypeOK, ControlInv, DataTypeOK, PhaseInv, OwnInv, SortedInv,
         [WorkerNext \/ Returned]_workerVars
  PROVE  SortedInv'
<1> SUFFICES ASSUME NEW u \in Threads, wpc'[u] \notin Unsorted  PROVE Ascending(vec'[u])
  BY DEF SortedInv
<1>0. wpc[u] \notin Unsorted \/ Sort(u)  BY StaysSorted
<1>1. CASE ~ Sort(u) /\ (Quiet \/ \E t \in Threads : MapFetch(t) \/ MapDone(t))
  <2>1. vec' = vec  BY <1>1 DEF Quiet, MapFetch, MapDone, dataVars
  <2> QED  BY <1>0, <1>1, <2>1 DEF SortedInv, Ascending
<1>2. ASSUME NEW t \in Threads, emit2(t)  PROVE Ascending(vec'[u])
  <2>1. wpc' = wpc /\ wpc[t] = "map"  BY <1>2 DEF emit2
  <2>2. u # t  BY <2>1 DEF Unsorted, Mapping
  <2>3. vec'[u] = vec[u]  BY <1>2, <2>2 DEF emit2, DataTypeOK
  <2> QED  BY <2>1, <2>3 DEF SortedInv, Ascending
<1>3. ASSUME NEW t \in Threads, Sort(t)  PROVE Ascending(vec'[u])
  <2>1. PICK s \in Seq(AllPairs) : vec' = [vec EXCEPT ![t] = s] /\ Ascending(s)
    BY <1>3, SortVector
  <2>2. CASE u = t  BY <2>1, <2>2 DEF DataTypeOK
  <2>3. CASE u # t
    <3>1. wpc'[u] = wpc[u] /\ vec'[u] = vec[u]
      BY <1>3, <2>1, <2>3 DEF Sort, Goto, DataTypeOK, ControlTypeOK
    <3> QED  BY <3>1 DEF SortedInv, Ascending
  <2> QED  BY <2>2, <2>3
<1>4. ASSUME NEW t \in Threads, ShuffleGroup(t)  PROVE Ascending(vec'[u])
  <2> DEFINE n == Kept(vec[u], get_current_largest_element)
  <2>1. wpc' = wpc  BY <1>4 DEF ShuffleGroup
  <2>2. Ascending(vec[u])  BY <2>1 DEF SortedInv
  <2>3. vec'[u] = SubSeq(vec[u], 1, n)  BY <1>4, ShuffleMoves
  <2>4. vec[u] \in Seq(AllPairs) /\ n \in 0 .. Len(vec[u])  BY KeptBack DEF DataTypeOK
  <2> HIDE DEF n
  <2>5. Len(vec'[u]) = n /\ \A i \in 1 .. n : vec'[u][i] = vec[u][i] /\ i \in 1 .. Len(vec[u])
    BY <2>3, <2>4
  <2> QED  BY <2>2, <2>5 DEF Ascending
<1> QED  BY <1>1, <1>2, <1>3, <1>4, StepKinds

-----------------------------------------------------------------------------
(* While there is a vector with a pair in it, the loop finds the largest   *)
(* key at the back of one.                                                 *)
LEMMA LargestBack ==
  ASSUME DataTypeOK, Backs # {}
  PROVE  /\ get_current_largest_element \in Backs
         /\ \A l \in Backs : l <= get_current_largest_element
<1> DEFINE B(t) == Last(vec[t]).key
           Full == {t \in Threads : vec[t] # <<>>}
           Largest(t, n) == t \in Full /\ \A u \in Full : u < n => B(u) <= B(t)
           T == {n \in 0 .. N : (\E t \in Full : t < n) => \E t \in Full : t < n /\ Largest(t, n)}
<1>1. N \in Nat /\ \A t \in Threads : t \in Nat /\ t < N  BY NAssumption DEF Threads
<1>2. \A t \in Full : B(t) \in Int
  <2> TAKE t \in Full
  <2>1. vec[t] \in Seq(AllPairs) /\ vec[t] # <<>>  BY DEF DataTypeOK
  <2>2. Last(vec[t]) \in AllPairs  BY <2>1 DEF Last
  <2> QED  BY <2>2, PairFields
<1>3. Backs = {B(t) : t \in Full}  BY DEF Backs
<1> HIDE DEF B, Full
<1>4. Full \subseteq Threads  BY DEF Full
<1>5. 0 \in T  BY <1>1, <1>4
<1>6. \A n \in 0 .. N - 1 : n \in T => n + 1 \in T
  <2> SUFFICES ASSUME NEW n \in 0 .. N - 1, n \in T, \E t \in Full : t < n + 1
               PROVE  \E t \in Full : t < n + 1 /\ Largest(t, n + 1)
    BY <1>1
  <2>1. \A u \in Full : u \in Nat /\ (u < n + 1 <=> u < n \/ u = n)  BY <1>1, <1>4
  <2>2. CASE n \notin Full  BY <2>1, <2>2
  <2>3. CASE n \in Full /\ ~ \E t \in Full : t < n
    <3>1. Largest(n, n + 1)  BY <1>2, <2>1, <2>3
    <3> QED  BY <2>1, <2>3, <3>1
  <2>4. CASE n \in Full /\ \E t \in Full : t < n
    <3>1. PICK t \in Full : t < n /\ Largest(t, n)  BY <2>4
    <3>2. CASE B(n) <= B(t)
      <4>1. Largest(t, n + 1)  BY <2>1, <3>1, <3>2
      <4> QED  BY <2>1, <3>1, <4>1
    <3>3. CASE ~ (B(n) <= B(t))
      <4>1. \A u \in Full : u < n + 1 => B(u) <= B(n)
        <5> TAKE u \in Full
        <5>1. B(u) \in Int /\ B(t) \in Int /\ B(n) \in Int  BY <1>2, <2>4
        <5> QED  BY <2>1, <3>1, <3>3, <5>1
      <4>2. Largest(n, n + 1)  BY <2>4, <4>1
      <4> QED  BY <2>1, <2>4, <4>2
    <3> QED  BY <3>2, <3>3
  <2> QED  BY <2>2, <2>3, <2>4
<1>7. N \in T
  <2> HIDE DEF T
  <2>1. \A n \in 0 .. N : n \in T  BY <1>1, <1>5, <1>6, UpToInduction
  <2> QED  BY <1>1, <2>1
<1>8. PICK t \in Full : Largest(t, N)  BY <1>1, <1>3, <1>4, <1>7
<1>9. \A u \in Full : B(u) <= B(t)  BY <1>1, <1>4, <1>8
<1>10. B(t) \in Backs /\ \A l \in Backs : ~ KeyLess(B(t), l)
  <2>1. \A l \in Backs : l \in Int /\ l <= B(t)  BY <1>2, <1>3, <1>9
  <2> QED  BY <1>2, <1>3, <1>8, <2>1 DEF KeyLess
<1>11. /\ get_current_largest_element \in Backs
       /\ \A l \in Backs : ~ KeyLess(get_current_largest_element, l)
  <2> HIDE DEF B
  <2> QED  BY <1>10 DEF get_current_largest_element
<1>12. \A l \in Backs : l \in Int  BY <1>2, <1>3
<1> QED  BY <1>11, <1>12 DEF KeyLess

(* Off sorted vectors, it pops every pair with that key.                   *)
LEMMA PoppedClass ==
  ASSUME DataTypeOK, NEW u \in Threads, Ascending(vec[u]), Backs # {}
  PROVE  LET k == get_current_largest_element
         IN  Popped(u, k) = {p \in ToSet(vec[u]) : p.key = k}
<1> DEFINE k == get_current_largest_element
           v == vec[u]
           n == Len(v)
           m == Kept(v, k)
<1>1. v \in Seq(AllPairs)  BY DEF DataTypeOK
<1>2. n \in Nat /\ ToSet(v) = {v[i] : i \in 1 .. n}  BY <1>1, ListElements
<1>3. \A i \in 1 .. n : v[i].key \in Int  BY <1>1, PairFields
<1>4. k \in Int
  <2>1. PICK t \in Threads : vec[t] # <<>> /\ k = Last(vec[t]).key
    BY LargestBack DEF Backs
  <2>2. vec[t] \in Seq(AllPairs)  BY DEF DataTypeOK
  <2>3. Last(vec[t]) \in AllPairs  BY <2>1, <2>2 DEF Last
  <2> QED  BY <2>1, <2>3, PairFields
<1>5. n > 0 => v[n].key <= k
  <2> SUFFICES ASSUME n > 0  PROVE v[n].key <= k  OBVIOUS
  <2>1. v # <<>>  BY <1>1
  <2>2. Last(v).key \in Backs  BY <2>1 DEF Backs
  <2> QED  BY <2>2, LargestBack DEF Last
<1> HIDE DEF k
<1>6. /\ m \in 0 .. n
      /\ \A i \in m + 1 .. n : k2_equals(v[i].key, k)
      /\ m > 0 => ~ k2_equals(v[m].key, k)
  BY <1>1, KeptBack
<1>7. \A i, j \in 1 .. n : i < j => v[i].key <= v[j].key  BY DEF Ascending
<1> HIDE DEF v, n, m
<1>8. \A i \in 1 .. n : k2_equals(v[i].key, k) <=> v[i].key = k
  BY <1>3, <1>4 DEF k2_equals, KeyLess
<1>9. ASSUME NEW i \in 1 .. n, v[i].key = k  PROVE i \in m + 1 .. n
  <2> SUFFICES ASSUME i <= m  PROVE FALSE  BY <1>2, <1>6
  <2>1. m \in 1 .. n /\ n \in 1 .. n /\ m > 0 /\ n > 0  BY <1>2, <1>6
  <2>2. v[m].key >= k
    <3>1. CASE i = m  BY <1>3, <1>4, <1>9, <2>1, <3>1
    <3>2. CASE i < m  BY <1>7, <1>9, <2>1, <3>2
    <3> QED  BY <1>2, <1>6, <3>1, <3>2
  <2>3. v[m].key <= k
    <3>1. CASE m = n  BY <1>5, <2>1, <3>1
    <3>2. CASE m < n
      <4>1. v[m].key <= v[n].key  BY <1>7, <2>1, <3>2
      <4> QED  BY <1>3, <1>4, <1>5, <2>1, <4>1
    <3> QED  BY <1>2, <1>6, <3>1, <3>2
  <2>4. v[m].key = k  BY <1>3, <1>4, <2>1, <2>2, <2>3
  <2> QED  BY <1>6, <1>8, <2>1, <2>4
<1>10. \A i \in m + 1 .. n : i \in 1 .. n /\ v[i].key = k
  <2>1. \A i \in m + 1 .. n : i \in 1 .. n  BY <1>2, <1>6
  <2> QED  BY <1>6, <1>8, <2>1
<1>11. Popped(u, k) = {v[i] : i \in m + 1 .. n}  BY DEF Popped, v, n, m
<1>12. Popped(u, k) = {p \in ToSet(v) : p.key = k}  BY <1>2, <1>9, <1>10, <1>11
<1> QED  BY <1>12 DEF k, v

-----------------------------------------------------------------------------
(* A turn of the loop of shuffle() makes a group of all the pairs with the *)
(* largest key.                                                            *)
LEMMA GroupShuffle ==
  ASSUME ControlTypeOK, ControlInv, DataTypeOK, PhaseInv, OwnInv, PlacedInv, SortedInv, GroupInv,
         NEW t \in Threads, ShuffleGroup(t)
  PROVE  GroupInv'
<1> DEFINE k == get_current_largest_element
           g == get_shuffle_vector(k)
           n == Len(groups)
<1>0. job \in JobType  BY DEF DataTypeOK
<1>1. t = Main /\ job.stage = SHUFFLE /\ wpc[t] = "shuffle" /\ Backs # {}
  BY DEF ShuffleGroup, ControlInv, PhaseInv, PhaseMain
<1>2. job'.stage = SHUFFLE
  <2>1. job' = [job EXCEPT !.shuffleFinished = job.shuffleFinished + 1]  BY DEF ShuffleGroup
  <2> QED  BY <1>0, <1>1, <2>1 DEF JobType
<1>3. Placed = AllPairs  BY <1>1, AllPlaced
<1>4. \A u \in Threads : wpc[u] \notin Unsorted
  BY <1>1 DEF PhaseInv, PhaseThread
<1>5. \A u \in Threads : Popped(u, k) = {p \in ToSet(vec[u]) : p.key = k}
  BY <1>1, <1>4, PoppedClass DEF SortedInv
<1>6. /\ groups' = Append(groups, g)
      /\ g \in Seq(AllPairs)
      /\ ToSet(g) = UNION {Popped(u, k) : u \in Threads}
  BY ShuffleMoves
<1>7. k \in Backs  BY <1>1, LargestBack
<1> HIDE DEF k, g
<1>8. ToSet(g) = {p \in UNION {ToSet(vec[u]) : u \in Threads} : p.key = k}
  <2>1. ToSet(g) = UNION {{p \in ToSet(vec[u]) : p.key = k} : u \in Threads}
    BY <1>5, <1>6
  <2> QED  BY <2>1
<1>9. \E x \in ToSet(g) : TRUE
  <2>1. PICK u \in Threads : vec[u] # <<>> /\ k = Last(vec[u]).key  BY <1>7 DEF Backs
  <2>2. vec[u] \in Seq(AllPairs)  BY DEF DataTypeOK
  <2>3. Last(vec[u]) = vec[u][Len(vec[u])] /\ Len(vec[u]) \in 1 .. Len(vec[u])
    BY <2>1, <2>2 DEF Last
  <2>4. Last(vec[u]) \in ToSet(vec[u])  BY <2>2, <2>3, ListElements
  <2> QED  BY <1>8, <2>1, <2>4
<1>10. g # <<>>
  <2>1. g = <<>> => ToSet(g) = {}  BY DEF ToSet
  <2> QED  BY <1>9, <2>1
<1>11. n \in Nat /\ Len(groups') = n + 1 /\ groups'[n + 1] = g
      /\ \A i \in 1 .. n : groups'[i] = groups[i] /\ ToSet(groups[i]) \subseteq AllPairs
  <2>1. \A i \in 1 .. n : groups[i] \in Seq(AllPairs)  BY DEF DataTypeOK
  <2> QED  BY <1>6, <2>1, ListElements DEF DataTypeOK
<1>12. \A i \in 1 .. n :
          /\ groups[i] # <<>>
          /\ \A p \in ToSet(groups[i]), q \in AllPairs :
                q \in ToSet(groups[i]) <=> q.key = p.key
  BY DEF GroupInv
<1>13. \A i \in 1 .. n : \A u \in Threads : ToSet(vec[u]) \cap ToSet(groups[i]) = {}
  BY DEF OwnInv
<1>14. \A q \in AllPairs : (\E u \in Threads : q \in ToSet(vec[u]))
                           \/ (\E i \in 1 .. n : q \in ToSet(groups[i]))
  BY <1>3 DEF Placed, Grouped
<1>15. \A u \in Threads : ToSet(vec[u]) \subseteq AllPairs  BY <1>3 DEF Placed
<1> HIDE DEF n
<1>16. ASSUME NEW p \in ToSet(g), NEW q \in AllPairs
       PROVE  q \in ToSet(g) <=> q.key = p.key
  <2>1. p.key = k /\ p \in AllPairs  BY <1>8, <1>15
  <2>2. ASSUME q.key = k, NEW i \in 1 .. n, q \in ToSet(groups[i])  PROVE FALSE
    <3>1. p \in ToSet(groups[i])  BY <1>12, <2>1, <2>2
    <3> QED  BY <1>8, <1>13, <3>1
  <2> QED  BY <1>8, <1>14, <2>1, <2>2
<1>17. \A i \in 1 .. n + 1 :
          /\ groups'[i] # <<>>
          /\ \A p \in ToSet(groups'[i]), q \in AllPairs :
                q \in ToSet(groups'[i]) <=> q.key = p.key
  <2> TAKE i \in 1 .. n + 1
  <2>1. i \in 1 .. n \/ i = n + 1  BY <1>11
  <2>2. CASE i \in 1 .. n  BY <1>11, <1>12, <2>2
  <2>3. CASE i = n + 1  BY <1>10, <1>11, <1>16, <2>3
  <2> QED  BY <2>1, <2>2, <2>3
<1> QED  BY <1>2, <1>11, <1>17 DEF GroupInv, SHUFFLE, REDUCE

(* The groups stay the classes of pairs with one key.                      *)
LEMMA GroupStep ==
  ASSUME ControlTypeOK, ControlInv, DataTypeOK, PhaseInv, OwnInv, PlacedInv, SortedInv, GroupInv,
         [WorkerNext \/ Returned]_workerVars
  PROVE  GroupInv'
<1>1. CASE \E t \in Threads : ShuffleGroup(t)  BY <1>1, GroupShuffle
<1>2. CASE ~ \E t \in Threads : ShuffleGroup(t)
  <2>1. groups' = groups
    BY <1>2, StepKinds DEF Quiet, MapFetch, MapDone, emit2, Sort, dataVars
  <2>2. ASSUME job'.stage = REDUCE, NEW u \in Threads  PROVE vec'[u] = <<>>
    <3>1. CASE job.stage = REDUCE
      <4>1. \A t \in Threads : wpc[t] \notin Unsorted  BY <3>1 DEF PhaseInv, PhaseThread
      <4>2. \A t \in Threads : ~ emit2(t) /\ ~ Sort(t)
        BY <4>1 DEF emit2, Sort, Goto, Unsorted, Mapping
      <4>3. vec' = vec
        BY <1>2, <4>2, StepKinds DEF Quiet, MapFetch, MapDone, dataVars
      <4> QED  BY <3>1, <4>3 DEF GroupInv
    <3>2. CASE job.stage # REDUCE
      <4>1. Backs = {} /\ vec' = vec
        BY <2>2, <3>2, StageSteps DEF MAP, SHUFFLE, REDUCE
      <4> QED  BY <4>1 DEF Backs
    <3> QED  BY <3>1, <3>2
  <2> QED  BY <2>1, <2>2 DEF GroupInv
<1> QED  BY <1>1, <1>2

-----------------------------------------------------------------------------
(* The steps that leave the reduce phase alone.                            *)
ReduceQuiet ==
    /\ job'.interCounter = job.interCounter /\ job'.reduceFinished = job.reduceFinished
    /\ UNCHANGED <<output, outMutex>>
    /\ \A u \in Threads :
          wpc[u] \in Reducing \cup {"done"} \/ wpc'[u] \in Reducing \cup {"done"} =>
              wpc'[u] = wpc[u] /\ my'[u] = my[u] /\ pos'[u] = pos[u]

(* The other steps leave the reduce phase alone.                           *)
LEMMA ReduceKinds ==
  ASSUME ControlTypeOK, DataTypeOK, [WorkerNext \/ Returned]_workerVars
  PROVE  \/ ReduceQuiet
         \/ \E t \in Threads : ReduceStep(t)
<1>0. /\ job \in JobType
      /\ wpc \in [Threads -> WorkerPc] /\ my \in [Threads -> Nat] /\ pos \in [Threads -> Nat]
  BY DEF ControlTypeOK, DataTypeOK
<1>1. CASE UNCHANGED workerVars  BY <1>1 DEF workerVars, dataVars, ReduceQuiet
<1>2. CASE Returned  BY <1>2 DEF Returned, workerVars, dataVars, ReduceQuiet
<1>3. ASSUME NEW t \in Threads, Create(t) \/ map_reduce_for_thread(t), ~ ReduceStep(t)
      PROVE  ReduceQuiet
  <2> USE DEF JobType, Goto, dataVars, ReduceQuiet, Reducing
  <2>1. CASE Create(t) \/ MapTest(t)
    BY <1>0, <2>1 DEF Create, MapTest
  <2>2. CASE Sort(t)
    <3>1. UNCHANGED <<job, my, pos, output, outMutex>> /\ Goto(t, "sort", "barrier1")
      BY <2>2 DEF Sort
    <3> QED  BY <1>0, <3>1
  <2>3. CASE AtBarrier(t) \/ LeaveBarrier(t)
    BY <1>0, <2>3 DEF AtBarrier, LeaveBarrier
  <2>4. CASE StoreMax(t) \/ StoreMapStage(t)
    BY <1>0, <2>4 DEF StoreMax, StoreMapStage
  <2>5. CASE BeginShuffle(t) \/ EndShuffle(t)
    BY <1>0, <2>5 DEF BeginShuffle, EndShuffle
  <2>6. CASE MapFetch(t)
    <3>1. UNCHANGED <<output, outMutex>> /\ job'.interCounter = job.interCounter
          /\ job'.reduceFinished = job.reduceFinished
      BY <1>0, <2>6 DEF MapFetch
    <3>2. /\ wpc[t] = "fetch" /\ wpc'[t] \in {"sort", "map"}
          /\ \A u \in Threads \ {t} : wpc'[u] = wpc[u] /\ my'[u] = my[u] /\ pos'[u] = pos[u]
      BY <1>0, <2>6 DEF MapFetch
    <3> QED  BY <3>1, <3>2
  <2>7. CASE MapDone(t)
    <3>1. UNCHANGED <<output, outMutex>> /\ job'.interCounter = job.interCounter
          /\ job'.reduceFinished = job.reduceFinished
      BY <1>0, <2>7 DEF MapDone
    <3>2. UNCHANGED <<my, pos>> /\ Goto(t, "map", "test")
      BY <2>7 DEF MapDone
    <3> QED  BY <1>0, <3>1, <3>2
  <2>8. CASE emit2(t)
    <3>1. UNCHANGED <<output, outMutex>> /\ job'.interCounter = job.interCounter
          /\ job'.reduceFinished = job.reduceFinished
      BY <1>0, <2>8 DEF emit2
    <3>2. UNCHANGED <<wpc, my>> /\ wpc[t] = "map" /\ pos' = [pos EXCEPT ![t] = pos[t] + 1]
      BY <2>8 DEF emit2
    <3> QED  BY <1>0, <3>1, <3>2
  <2>9. CASE ShuffleGroup(t)
    <3>1. UNCHANGED <<wpc, my, pos, output, outMutex>>
          /\ job' = [job EXCEPT !.shuffleFinished = job.shuffleFinished + 1]
      BY <2>9 DEF ShuffleGroup
    <3> QED  BY <1>0, <3>1
  <2> QED  BY <1>3, <2>1, <2>2, <2>3, <2>4, <2>5, <2>6, <2>7, <2>8, <2>9
           DEF map_reduce_for_thread, MapStep, ShuffleStep
<1> QED  BY <1>1, <1>2, <1>3 DEF WorkerNext

(* The groups are what they are once the shuffle is over.                  *)
LEMMA GroupsFixed ==
  ASSUME ControlTypeOK, ControlInv, DataTypeOK, PhaseInv, [WorkerNext \/ Returned]_workerVars
  PROVE  \/ groups' = groups
         \/ /\ ReduceQuiet /\ job.stage # REDUCE /\ job'.stage # REDUCE
            /\ \A t \in Threads : wpc[t] \notin AfterShuffle /\ wpc'[t] \notin AfterShuffle
<1>1. ASSUME NEW t \in Threads, ShuffleGroup(t)
      PROVE  /\ ReduceQuiet /\ job.stage # REDUCE /\ job'.stage # REDUCE
             /\ \A u \in Threads : wpc[u] \notin AfterShuffle /\ wpc'[u] \notin AfterShuffle
  <2>1. UNCHANGED <<wpc, my, pos, output, outMutex>> /\ wpc[t] = "shuffle"
        /\ job' = [job EXCEPT !.shuffleFinished = job.shuffleFinished + 1]
    BY <1>1 DEF ShuffleGroup
  <2>2. /\ job'.stage = job.stage /\ job'.interCounter = job.interCounter
        /\ job'.reduceFinished = job.reduceFinished
    BY <2>1 DEF DataTypeOK, JobType
  <2>3. ReduceQuiet  BY <2>1, <2>2 DEF ReduceQuiet
  <2>4. job.stage = SHUFFLE  BY <2>1 DEF ControlInv, PhaseInv, PhaseMain
  <2>5. \A u \in Threads : wpc[u] \notin AfterShuffle
    BY <2>4 DEF PhaseInv, PhaseThread, SHUFFLE, REDUCE
  <2> QED  BY <2>1, <2>2, <2>3, <2>4, <2>5 DEF SHUFFLE, REDUCE
<1>2. CASE ~ \E t \in Threads : ShuffleGroup(t)
  BY <1>2, StepKinds DEF Quiet, MapFetch, MapDone, emit2, Sort, dataVars
<1> QED  BY <1>1, <1>2

(* A group that is being reduced is one of those claimed; a result goes to *)
(* the end of the output.                                                  *)
LEMMA EmitsResult ==
  ASSUME ControlTypeOK, DataTypeOK, GroupInv, ClaimedInv, NEW t \in Threads, emit3Push(t)
  PROVE  LET e == Reduced(groups[my[t] + 1])
         IN  /\ my[t] + 1 \in 1 .. Len(groups)
             /\ e \in OutputType
             /\ output' = Append(output, e)
<1> DEFINE g == groups[my[t] + 1]
<1>1. wpc[t] = "push" /\ output' = Append(SubSeq(output, 1, pos[t] - 1), Reduced(g))
  BY DEF emit3Push, Goto
<1>2. ClaimedThread(t)  BY DEF ClaimedInv
<1>3. my[t] + 1 \in 1 .. Len(groups) /\ pos[t] - 1 = Len(output)
  <2>1. my[t] \in Nat /\ Len(groups) \in Nat /\ Len(output) \in Nat
    BY DEF ControlTypeOK, DataTypeOK
  <2>2. my[t] < Len(groups) /\ pos[t] = Len(output) + 1
    BY <1>1, <1>2 DEF ClaimedThread, Reducing
  <2> QED  BY <2>1, <2>2
<1>4. SubSeq(output, 1, Len(output)) = output  BY DEF DataTypeOK
<1>5. g \in Seq(AllPairs) /\ g # <<>>  BY <1>3 DEF DataTypeOK, GroupInv
<1>6. Head(g) \in AllPairs /\ Len(g) \in Nat  BY <1>5
<1>7. Reduced(g) \in OutputType  BY <1>6, PairFields DEF Reduced, OutputType
<1> QED  BY <1>1, <1>3, <1>4, <1>7

(* A counter takes another value.                                          *)
LEMMA JobUpdates ==
  ASSUME NEW j \in JobType, NEW n \in Nat, NEW s \in Stages
  PROVE  /\ [j EXCEPT !.stage = s] \in JobType
         /\ [j EXCEPT !.maxForMap = n] \in JobType
         /\ [j EXCEPT !.inputCounter = n] \in JobType
         /\ [j EXCEPT !.interCounter = n] \in JobType
         /\ [j EXCEPT !.mapFinished = n] \in JobType
         /\ [j EXCEPT !.maxForShuffle = n] \in JobType
         /\ [j EXCEPT !.shuffleFinished = n] \in JobType
         /\ [j EXCEPT !.reduceFinished = n] \in JobType
<1> USE DEF JobType
<1>1. [j EXCEPT !.stage = s] \in JobType  OBVIOUS
<1>2. [j EXCEPT !.maxForMap = n] \in JobType  OBVIOUS
<1>3. [j EXCEPT !.inputCounter = n] \in JobType  OBVIOUS
<1>4. [j EXCEPT !.interCounter = n] \in JobType  OBVIOUS
<1>5. [j EXCEPT !.mapFinished = n] \in JobType  OBVIOUS
<1>6. [j EXCEPT !.maxForShuffle = n] \in JobType  OBVIOUS
<1>7. [j EXCEPT !.shuffleFinished = n] \in JobType  OBVIOUS
<1>8. [j EXCEPT !.reduceFinished = n] \in JobType  OBVIOUS
<1> QED  BY <1>1, <1>2, <1>3, <1>4, <1>5, <1>6, <1>7, <1>8

(* The lengths, counters and lists stay well typed.                        *)
LEMMA DataTypeStep ==
  ASSUME ControlTypeOK, DataTypeOK, PhaseInv, OwnInv, PlacedInv, GroupInv, ClaimedInv,
         [WorkerNext \/ Returned]_workerVars
  PROVE  DataTypeOK'
<1>0. /\ job \in JobType
      /\ wpc \in [Threads -> WorkerPc] /\ my \in [Threads -> Nat] /\ pos \in [Threads -> Nat]
      /\ vec \in [Threads -> Seq(AllPairs)] /\ groups \in Seq(Seq(AllPairs))
      /\ output \in Seq(OutputType) /\ outMutex \in Threads \cup {NoThread}
      /\ Inputs \in Nat
  BY InputsType DEF ControlTypeOK, DataTypeOK
<1>1. CASE UNCHANGED workerVars  BY <1>1 DEF workerVars, dataVars, DataTypeOK
<1>2. CASE Returned  BY <1>2 DEF Returned, workerVars, dataVars, DataTypeOK
<1>3. ASSUME NEW t \in Threads, Create(t) \/ map_reduce_for_thread(t)
      PROVE  DataTypeOK'
  <2>0. /\ job \in JobType
        /\ job.maxForShuffle + 1 \in Nat /\ job.inputCounter + 1 \in Nat
        /\ job.mapFinished + 1 \in Nat /\ job.interCounter + 1 \in Nat
        /\ job.shuffleFinished + 1 \in Nat /\ job.reduceFinished \in Nat
        /\ 0 \in Stages
    <3>1. job \in JobType  BY <1>0
    <3> QED  BY <3>1 DEF JobType, Stages, UNDEFINED, REDUCE
  <2>1. CASE Create(t) \/ MapTest(t) \/ ReduceTest(t) \/ AtBarrier(t) \/ LeaveBarrier(t)
    BY <2>1 DEF Create, MapTest, ReduceTest, AtBarrier, LeaveBarrier, dataVars, DataTypeOK
  <2>2. CASE StoreMax(t) \/ StoreMapStage(t) \/ BeginShuffle(t) \/ EndShuffle(t)
    <3>0. MAP \in Stages /\ SHUFFLE \in Stages /\ REDUCE \in Stages
      BY DEF Stages, UNDEFINED, MAP, SHUFFLE, REDUCE
    <3>1. \/ job' = [job EXCEPT !.maxForMap = Inputs]
          \/ \E s \in Stages : job' = [job EXCEPT !.stage = s]
      BY <2>2, <3>0 DEF StoreMax, StoreMapStage, BeginShuffle, EndShuffle
    <3>2. job' \in JobType  BY <1>0, <3>0, <3>1, JobUpdates
    <3> QED  BY <2>2, <3>2 DEF StoreMax, StoreMapStage, BeginShuffle, EndShuffle, dataVars, DataTypeOK
  <2>3. CASE MapFetch(t) \/ MapDone(t) \/ ReduceFetch(t)
    <3>1. job' \in JobType
      <4>1. CASE MapFetch(t)  BY <2>0, <4>1, JobUpdates DEF MapFetch
      <4>2. CASE MapDone(t)  BY <2>0, <4>2, JobUpdates DEF MapDone
      <4>3. CASE ReduceFetch(t)  BY <2>0, <4>3, JobUpdates DEF ReduceFetch
      <4> QED  BY <2>3, <4>1, <4>2, <4>3
    <3>2. pos' \in [Threads -> Nat]  BY <1>0, <2>3 DEF MapFetch, MapDone, ReduceFetch
    <3> QED  BY <2>3, <3>1, <3>2 DEF MapFetch, MapDone, ReduceFetch, dataVars, DataTypeOK
  <2>4. CASE emit2(t)
    <3>1. job' = [job EXCEPT !.maxForShuffle = job.maxForShuffle + 1]
          /\ pos' = [pos EXCEPT ![t] = pos[t] + 1]
          /\ UNCHANGED <<groups, output, outMutex>>
      BY <2>4 DEF emit2
    <3>2. job' \in JobType  BY <2>0, <3>1, JobUpdates
    <3>2a. pos' \in [Threads -> Nat]  BY <1>0, <3>1
    <3>3. vec' \in [Threads -> Seq(AllPairs)]
      <4> DEFINE e == Pair(my[t], pos[t])
      <4>1. e \in AllPairs /\ vec' = [vec EXCEPT ![t] = Append(vec[t], e)]  BY <2>4, EmitsNew
      <4> HIDE DEF e
      <4> QED  BY <1>0, <4>1
    <3> QED  BY <1>0, <3>1, <3>2, <3>2a, <3>3 DEF DataTypeOK
  <2>5. CASE Sort(t)
    <3>1. PICK s \in Seq(AllPairs) : vec' = [vec EXCEPT ![t] = s]  BY <2>5, SortVector
    <3>2. vec' \in [Threads -> Seq(AllPairs)]  BY <1>0, <3>1
    <3> QED  BY <1>0, <2>5, <3>2 DEF Sort, DataTypeOK
  <2>6. CASE ShuffleGroup(t)
    <3>1. job' = [job EXCEPT !.shuffleFinished = job.shuffleFinished + 1]
          /\ UNCHANGED <<pos, output, outMutex>>
          /\ vec' = [u \in Threads |-> SubSeq(vec[u], 1, Kept(vec[u], get_current_largest_element))]
      BY <2>6 DEF ShuffleGroup
    <3>2. job' \in JobType  BY <2>0, <3>1, JobUpdates
    <3>3. /\ groups' = Append(groups, get_shuffle_vector(get_current_largest_element))
          /\ get_shuffle_vector(get_current_largest_element) \in Seq(AllPairs)
          /\ \A u \in Threads : vec'[u] \in Seq(AllPairs)
      BY <2>6, ShuffleMoves
    <3>4. groups' \in Seq(Seq(AllPairs))  BY <1>0, <3>3
    <3>5. vec' \in [Threads -> Seq(AllPairs)]  BY <3>1, <3>3
    <3> QED  BY <1>0, <3>1, <3>2, <3>4, <3>5 DEF DataTypeOK
  <2>7. CASE emit3Lock(t)
    <3>1. pos' \in [Threads -> Nat]
      <4>1. Len(output) + 1 \in Nat  BY <1>0
      <4> QED  BY <1>0, <2>7, <4>1 DEF emit3Lock
    <3> QED  BY <1>0, <2>7, <3>1 DEF emit3Lock, DataTypeOK
  <2>8. CASE emit3Push(t)
    <3> DEFINE e == Reduced(groups[my[t] + 1])
    <3>1. e \in OutputType /\ output' = Append(output, e)  BY <2>8, EmitsResult
    <3> HIDE DEF e
    <3>2. output' \in Seq(OutputType)  BY <1>0, <3>1
    <3>3. UNCHANGED <<job, pos, vec, groups>> /\ outMutex' = NoThread
      BY <2>8 DEF emit3Push
    <3> QED  BY <1>0, <3>2, <3>3 DEF DataTypeOK
  <2>9. CASE ReduceDone(t)
    <3>1. UNCHANGED <<pos, vec, groups, output, outMutex>> /\ wpc[t] = "reduced"
          /\ job' = [job EXCEPT !.reduceFinished = job.reduceFinished + Len(groups[my[t] + 1])]
      BY <2>9 DEF ReduceDone, Goto, dataVars
    <3>2. my[t] + 1 \in 1 .. Len(groups)
      <4>1. my[t] < Len(groups)  BY <3>1 DEF ClaimedInv, ClaimedThread, Reducing
      <4>2. my[t] \in Nat /\ Len(groups) \in Nat  BY <1>0
      <4> QED  BY <4>1, <4>2
    <3>3. Len(groups[my[t] + 1]) \in Nat  BY <1>0, <3>2
    <3>4. job' \in JobType
      <4>1. job.reduceFinished + Len(groups[my[t] + 1]) \in Nat  BY <2>0, <3>3
      <4> QED  BY <2>0, <3>1, <4>1, JobUpdates
    <3> QED  BY <1>0, <3>1, <3>4 DEF DataTypeOK
  <2> QED  BY <1>3, <2>1, <2>2, <2>3, <2>4, <2>5, <2>6, <2>7, <2>8, <2>9
           DEF map_reduce_for_thread, MapStep, ShuffleStep, ReduceStep
<1> QED  BY <1>1, <1>2, <1>3 DEF WorkerNext

-----------------------------------------------------------------------------
(* Once contexts[0] is past the shuffle, it stays there.                   *)
LEMMA StaysShuffled ==
  ASSUME ControlTypeOK, PhaseInv, PhaseInv', [WorkerNext \/ Returned]_workerVars,
         job.stage = REDUCE
  PROVE  job'.stage = REDUCE
<1>0. wpc \in [Threads -> WorkerPc] /\ Main \in Threads
  BY NAssumption DEF ControlTypeOK, Main, Threads
<1>1. wpc[Main] \in {"barrier2"} \cup AfterShuffle  BY DEF PhaseInv, PhaseMain
<1> USE DEF AfterShuffle, Reducing, Goto
<1>2. wpc'[Main] \in {"barrier2"} \cup AfterShuffle
  <2>1. CASE UNCHANGED workerVars  BY <1>1, <2>1 DEF workerVars
  <2>2. CASE Returned  BY <1>1, <2>2 DEF Returned, workerVars
  <2>3. ASSUME NEW t \in Threads, Create(t) \/ map_reduce_for_thread(t)
        PROVE  wpc'[Main] \in {"barrier2"} \cup AfterShuffle
    <3>1. CASE Create(t) \/ MapTest(t)
      BY <1>0, <1>1, <3>1 DEF Create, MapTest
    <3>2. CASE ReduceTest(t) \/ emit3Lock(t) \/ emit3Push(t)
      BY <1>0, <1>1, <3>2 DEF ReduceTest, emit3Lock, emit3Push
    <3>3. CASE AtBarrier(t) \/ LeaveBarrier(t)
      BY <1>0, <1>1, <3>3 DEF AtBarrier, LeaveBarrier
    <3>4. CASE StoreMax(t) \/ StoreMapStage(t) \/ MapFetch(t)
      BY <1>0, <1>1, <3>4 DEF StoreMax, StoreMapStage, MapFetch
    <3>5. CASE emit2(t) \/ MapDone(t)
      BY <1>0, <1>1, <3>5 DEF emit2, MapDone
    <3>6. CASE Sort(t)
      <4>1. Goto(t, "sort", "barrier1")  BY <3>6 DEF Sort
      <4> QED  BY <1>0, <1>1, <4>1
    <3>7. CASE BeginShuffle(t) \/ EndShuffle(t)
      BY <1>0, <1>1, <3>7 DEF BeginShuffle, EndShuffle
    <3>8. CASE ShuffleGroup(t)
      <4>1. wpc' = wpc  BY <3>8 DEF ShuffleGroup
      <4> QED  BY <1>1, <4>1
    <3>9. CASE ReduceFetch(t) \/ ReduceDone(t)
      BY <1>0, <1>1, <3>9 DEF ReduceFetch, ReduceDone
    <3> QED  BY <2>3, <3>1, <3>2, <3>3, <3>4, <3>5, <3>6, <3>7, <3>8, <3>9
             DEF map_reduce_for_thread, MapStep, ShuffleStep, ReduceStep
  <2> QED  BY <2>1, <2>2, <2>3 DEF WorkerNext
<1> QED  BY <1>2 DEF PhaseInv, PhaseMain

(* What each step of reduce() does.                                        *)
LEMMA ReduceEffects ==
  ASSUME ControlTypeOK, DataTypeOK, GroupInv, ClaimedInv, NEW t \in Threads, ReduceStep(t)
  PROVE  /\ groups' = groups
         /\ \A u \in Threads \ {t} : wpc'[u] = wpc[u] /\ my'[u] = my[u] /\ pos'[u] = pos[u]
         /\ wpc[t] \in AfterShuffle
         /\ \/ /\ wpc[t] = "reduceTest" /\ my'[t] = my[t]
               /\ wpc'[t] = IF job.interCounter < Len(groups) THEN "reduceFetch" ELSE "done"
               /\ UNCHANGED <<job, output, outMutex>>
            \/ /\ wpc[t] = "reduceFetch" /\ my'[t] = job.interCounter
               /\ wpc'[t] = IF job.interCounter >= Len(groups) THEN "done" ELSE "reduce"
               /\ job'.interCounter = job.interCounter + 1
               /\ job'.reduceFinished = job.reduceFinished
               /\ UNCHANGED <<output, outMutex>>
            \/ /\ wpc[t] = "reduce" /\ wpc'[t] = "push" /\ my'[t] = my[t]
               /\ pos'[t] = Len(output) + 1
               /\ outMutex = NoThread /\ outMutex' = t
               /\ UNCHANGED <<job, output>>
            \/ /\ wpc[t] = "push" /\ wpc'[t] = "reduced" /\ my'[t] = my[t]
               /\ output' = Append(output, Reduced(groups[my[t] + 1]))
               /\ outMutex' = NoThread
               /\ UNCHANGED job
            \/ /\ wpc[t] = "reduced" /\ wpc'[t] = "reduceTest" /\ my'[t] = my[t]
               /\ job'.interCounter = job.interCounter
               /\ job'.reduceFinished = job.reduceFinished + Len(groups[my[t] + 1])
               /\ UNCHANGED <<output, outMutex>>
<1>0. /\ job \in JobType
      /\ wpc \in [Threads -> WorkerPc] /\ my \in [Threads -> Nat] /\ pos \in [Threads -> Nat]
  BY DEF ControlTypeOK, DataTypeOK
<1> USE DEF Goto, AfterShuffle, Reducing, dataVars
<1>1. CASE ReduceTest(t)  BY <1>0, <1>1 DEF ReduceTest
<1>2. CASE ReduceFetch(t)
  <2>1. job'.interCounter = job.interCounter + 1 /\ job'.reduceFinished = job.reduceFinished
    BY <1>0, <1>2 DEF ReduceFetch, JobType
  <2>2. /\ groups' = groups /\ UNCHANGED <<output, outMutex>>
        /\ \A u \in Threads \ {t} : wpc'[u] = wpc[u] /\ my'[u] = my[u] /\ pos'[u] = pos[u]
        /\ wpc[t] = "reduceFetch" /\ my'[t] = job.interCounter
        /\ wpc'[t] = IF job.interCounter >= Len(groups) THEN "done" ELSE "reduce"
    BY <1>0, <1>2 DEF ReduceFetch
  <2> QED  BY <2>1, <2>2
<1>3. CASE emit3Lock(t)  BY <1>0, <1>3 DEF emit3Lock
<1>4. CASE emit3Push(t)
  <2>1. output' = Append(output, Reduced(groups[my[t] + 1]))  BY <1>4, EmitsResult
  <2>2. Goto(t, "push", "reduced") /\ outMutex' = NoThread /\ UNCHANGED <<job, my, pos, groups>>
    BY <1>4 DEF emit3Push
  <2> QED  BY <1>0, <2>1, <2>2
<1>5. CASE ReduceDone(t)
  <2>1. /\ job'.interCounter = job.interCounter
        /\ job'.reduceFinished = job.reduceFinished + Len(groups[my[t] + 1])
    BY <1>0, <1>5 DEF ReduceDone, JobType
  <2>2. Goto(t, "reduced", "reduceTest") /\ UNCHANGED <<my, pos, groups, output, outMutex>>
    BY <1>5 DEF ReduceDone
  <2> QED  BY <1>0, <2>1, <2>2
<1> QED  BY <1>1, <1>2, <1>3, <1>4, <1>5 DEF ReduceStep

-----------------------------------------------------------------------------
(* Who reduces a group has claimed it, and who is done has found none left.*)
LEMMA ClaimedStep ==
  ASSUME ControlTypeOK, ControlInv, DataTypeOK, PhaseInv, PhaseInv', GroupInv, ClaimedInv,
         [WorkerNext \/ Returned]_workerVars
  PROVE  ClaimedInv'
<1>0. job.interCounter \in Nat /\ Len(groups) \in Nat /\ Len(output) \in Nat
  BY DEF DataTypeOK, JobType
<1>00. \A t \in Threads : t # NoThread  BY DEF Threads, NoThread
<1>1. CASE ReduceQuiet
  <2>1. job'.interCounter = job.interCounter /\ UNCHANGED <<output, outMutex>>
    BY <1>1 DEF ReduceQuiet
  <2>2. job'.stage # REDUCE => job'.interCounter = 0
    BY <2>1, StaysShuffled DEF ClaimedInv
  <2>3. ASSUME NEW u \in Threads  PROVE ClaimedThread(u)'
    <3>1. ClaimedThread(u)  BY DEF ClaimedInv
    <3>2. CASE wpc[u] \in Reducing \cup {"done"} \/ wpc'[u] \in Reducing \cup {"done"}
      <4>1. wpc'[u] = wpc[u] /\ my'[u] = my[u] /\ pos'[u] = pos[u]  BY <1>1, <3>2 DEF ReduceQuiet
      <4>2. wpc[u] \in AfterShuffle  BY <3>2, <4>1 DEF AfterShuffle
      <4>3. groups' = groups  BY <4>2, GroupsFixed
      <4> QED  BY <2>1, <3>1, <4>1, <4>3 DEF ClaimedThread
    <3>3. CASE ~ (wpc[u] \in Reducing \cup {"done"} \/ wpc'[u] \in Reducing \cup {"done"})
      BY <2>1, <3>1, <3>3 DEF ClaimedThread, Reducing
    <3> QED  BY <3>2, <3>3
  <2> QED  BY <2>2, <2>3 DEF ClaimedInv
<1>2. ASSUME NEW t \in Threads, ReduceStep(t)  PROVE ClaimedInv'
  <2>1. /\ groups' = groups
        /\ \A u \in Threads \ {t} : wpc'[u] = wpc[u] /\ my'[u] = my[u] /\ pos'[u] = pos[u]
        /\ wpc[t] \in AfterShuffle
    BY <1>2, ReduceEffects
  <2>2. job'.stage = REDUCE  BY <2>1, StaysShuffled DEF PhaseInv, PhaseThread
  <2>3. \A u \in Threads : ClaimedThread(u)  BY DEF ClaimedInv
  <2>4. \A u \in Threads : wpc[u] = "push" => outMutex = u  BY <2>3 DEF ClaimedThread
  <2> USE DEF ClaimedThread, Reducing
  <2>5. CASE /\ wpc[t] = "reduceTest" /\ my'[t] = my[t]
             /\ wpc'[t] = IF job.interCounter < Len(groups) THEN "reduceFetch" ELSE "done"
             /\ UNCHANGED <<job, output, outMutex>>
    <3>1. \A u \in Threads : ClaimedThread(u)'  BY <1>0, <2>1, <2>3, <2>5
    <3> QED  BY <2>2, <3>1 DEF ClaimedInv
  <2>6. CASE /\ wpc[t] = "reduceFetch" /\ my'[t] = job.interCounter
             /\ wpc'[t] = IF job.interCounter >= Len(groups) THEN "done" ELSE "reduce"
             /\ job'.interCounter = job.interCounter + 1
             /\ UNCHANGED <<output, outMutex>>
    <3>1. \A u \in Threads : ClaimedThread(u)'  BY <1>0, <2>1, <2>3, <2>6
    <3> QED  BY <2>2, <3>1 DEF ClaimedInv
  <2>7. CASE /\ wpc[t] = "reduce" /\ wpc'[t] = "push" /\ my'[t] = my[t]
             /\ pos'[t] = Len(output) + 1
             /\ outMutex = NoThread /\ outMutex' = t
             /\ UNCHANGED <<job, output>>
    <3>1. \A u \in Threads : ClaimedThread(u)'  BY <1>0, <1>00, <2>1, <2>3, <2>7
    <3> QED  BY <2>2, <3>1 DEF ClaimedInv
  <2>8. CASE /\ wpc[t] = "push" /\ wpc'[t] = "reduced" /\ my'[t] = my[t]
             /\ outMutex' = NoThread
             /\ UNCHANGED job
    <3>1. \A u \in Threads \ {t} : wpc[u] # "push"  BY <2>4, <2>8
    <3>2. \A u \in Threads : ClaimedThread(u)'  BY <1>0, <1>00, <2>1, <2>3, <2>8, <3>1
    <3> QED  BY <2>2, <3>2 DEF ClaimedInv
  <2>9. CASE /\ wpc[t] = "reduced" /\ wpc'[t] = "reduceTest" /\ my'[t] = my[t]
             /\ job'.interCounter = job.interCounter
             /\ UNCHANGED <<output, outMutex>>
    <3>1. \A u \in Threads : ClaimedThread(u)'  BY <1>0, <2>1, <2>3, <2>9
    <3> QED  BY <2>2, <3>1 DEF ClaimedInv
  <2> QED  BY <1>2, <2>5, <2>6, <2>7, <2>8, <2>9, ReduceEffects
<1> QED  BY <1>1, <1>2, ReduceKinds

-----------------------------------------------------------------------------
SetsSame == Pushed' = Pushed /\ Finished' = Finished

(* Only a push and the end of a reduction change the sets of groups.       *)
LEMMA WorkSets ==
  ASSUME ControlTypeOK, ClaimInv, DistinctWork, DataTypeOK, GroupInv, ClaimedInv,
         NEW t \in Threads, ReduceStep(t)
  PROVE  LET i == my[t] + 1
         IN  \/ /\ SetsSame /\ output' = output /\ job'.reduceFinished = job.reduceFinished
             \/ /\ i \in 1 .. Len(groups) /\ i \notin Pushed
                /\ Pushed' = Pushed \cup {i} /\ Finished' = Finished
                /\ output' = Append(output, Reduced(groups[i]))
                /\ job'.reduceFinished = job.reduceFinished
             \/ /\ i \in 1 .. Len(groups) /\ i \notin Finished
                /\ Pushed' = Pushed /\ Finished' = Finished \cup {i}
                /\ output' = output
                /\ job'.reduceFinished = job.reduceFinished + Len(groups[i])
<1> DEFINE n == Len(groups)
           c == job.interCounter
           i == my[t] + 1
           free(u, k) == wpc[u] \in {"reduce", "push"} => my[u] + 1 # k
           gone(u, k) == wpc[u] \in Reducing => my[u] + 1 # k
<1>0. n \in Nat /\ c \in Nat /\ my \in [Threads -> Nat] /\ job \in JobType
  <2>1. job \in JobType /\ groups \in Seq(Seq(AllPairs))  BY DEF DataTypeOK
  <2>2. my \in [Threads -> Nat]  BY DEF ControlTypeOK
  <2>3. n \in Nat  BY <2>1
  <2>4. c \in Nat  BY <2>1 DEF JobType
  <2> QED  BY <2>1, <2>2, <2>3, <2>4
<1>1. /\ groups' = groups
      /\ \A u \in Threads \ {t} : wpc'[u] = wpc[u] /\ my'[u] = my[u]
  BY ReduceEffects
<1>2. /\ Pushed = {k \in 1 .. n : k <= c /\ \A u \in Threads : free(u, k)}
      /\ Finished = {k \in 1 .. n : k <= c /\ \A u \in Threads : gone(u, k)}
  BY DEF Pushed, Finished, Claimed
<1>3. /\ Pushed' = {k \in 1 .. n : k <= c' /\ \A u \in Threads : free(u, k)'}
      /\ Finished' = {k \in 1 .. n : k <= c' /\ \A u \in Threads : gone(u, k)'}
  BY <1>1 DEF Pushed, Finished, Claimed
<1>4. \A u \in Threads \ {t}, k \in 1 .. n : free(u, k)' = free(u, k) /\ gone(u, k)' = gone(u, k)
  BY <1>1
<1>5. \A u \in Threads \ {t} :
        wpc[u] \in Reducing /\ wpc[t] \in Reducing => my[u] # my[t]
  BY DEF DistinctWork
<1>6. wpc[t] \in Reducing => i \in 1 .. n /\ i <= c
  <2>1. wpc[t] \in Reducing => my[t] < n /\ my[t] < c
    BY DEF ClaimedInv, ClaimedThread, ClaimInv
  <2>2. my[t] \in Nat  BY <1>0
  <2> QED  BY <1>0, <2>1, <2>2
<1>7. \A u \in Threads : my[u] \in Nat  BY <1>0
<1> HIDE DEF n, c
<1>10. CASE /\ wpc[t] = "reduceTest" /\ my'[t] = my[t]
            /\ wpc'[t] \in {"reduceFetch", "done"}
            /\ UNCHANGED <<job, output>>
  <2>1. c' = c  BY <1>10 DEF c
  <2>2. \A k \in 1 .. n : free(t, k) /\ free(t, k)' /\ gone(t, k) /\ gone(t, k)'
    BY <1>10 DEF Reducing
  <2>3. SetsSame  BY <1>2, <1>3, <1>4, <2>1, <2>2 DEF SetsSame
  <2> QED  BY <1>10, <2>3
<1>20. CASE /\ wpc[t] = "reduceFetch" /\ my'[t] = c
            /\ wpc'[t] = IF c >= n THEN "done" ELSE "reduce"
            /\ c' = c + 1
            /\ job'.reduceFinished = job.reduceFinished
            /\ output' = output
  <2>1. \A k \in 1 .. n : free(t, k) /\ gone(t, k)  BY <1>20 DEF Reducing
  <2>2. \A k \in 1 .. n : k <= c => free(t, k)' /\ gone(t, k)'
    <3> TAKE k \in 1 .. n
    <3>1. k <= c => c + 1 # k  BY <1>0
    <3> QED  BY <1>20, <3>1
  <2>3. \A k \in 1 .. n : k <= c' /\ ~ (k <= c) => ~ free(t, k)' /\ ~ gone(t, k)'
    <3> SUFFICES ASSUME NEW k \in 1 .. n, k <= c', ~ (k <= c)
                 PROVE  ~ free(t, k)' /\ ~ gone(t, k)'
      OBVIOUS
    <3>1. k = c + 1 /\ ~ (c >= n)  BY <1>0, <1>20
    <3> QED  BY <1>20, <3>1 DEF Reducing
  <2>4. \A k \in 1 .. n : k <= c => k <= c'  BY <1>0, <1>20
  <2>5. Pushed' = Pushed
    <3> HIDE DEF free, gone
    <3> QED  BY <1>2, <1>3, <1>4, <2>1, <2>2, <2>3, <2>4
  <2>6. Finished' = Finished
    <3> HIDE DEF free, gone
    <3> QED  BY <1>2, <1>3, <1>4, <2>1, <2>2, <2>3, <2>4
  <2> QED  BY <1>20, <2>5, <2>6 DEF SetsSame
<1>30. CASE /\ wpc[t] = "reduce" /\ wpc'[t] = "push" /\ my'[t] = my[t]
            /\ UNCHANGED <<job, output>>
  <2>1. c' = c  BY <1>30 DEF c
  <2>2. \A k \in 1 .. n : free(t, k)' = free(t, k) /\ gone(t, k)' = gone(t, k)
    BY <1>30 DEF Reducing
  <2>3. SetsSame
    <3> HIDE DEF free, gone
    <3> QED  BY <1>2, <1>3, <1>4, <2>1, <2>2 DEF SetsSame
  <2> QED  BY <1>30, <2>3
<1>40. CASE /\ wpc[t] = "push" /\ wpc'[t] = "reduced" /\ my'[t] = my[t]
            /\ output' = Append(output, Reduced(groups[i]))
            /\ UNCHANGED job
  <2>1. c' = c /\ i \in 1 .. n /\ i <= c  BY <1>6, <1>40 DEF c, Reducing
  <2>2. \A k \in 1 .. n : free(t, k)' /\ (free(t, k) <=> k # i)
                          /\ gone(t, k)' = gone(t, k)
    BY <1>40 DEF Reducing
  <2>3. \A u \in Threads \ {t} : free(u, i)  BY <1>5, <1>7, <1>40 DEF Reducing
  <2>4. Finished' = Finished
    <3> HIDE DEF free, gone
    <3> QED  BY <1>2, <1>3, <1>4, <2>1, <2>2
  <2>5. Pushed' = Pushed \cup {i} /\ i \notin Pushed
    <3> HIDE DEF free, gone, i
    <3> QED  BY <1>2, <1>3, <1>4, <2>1, <2>2, <2>3
  <2> QED  BY <1>40, <2>1, <2>4, <2>5 DEF n
<1>50. CASE /\ wpc[t] = "reduced" /\ wpc'[t] = "reduceTest" /\ my'[t] = my[t]
            /\ c' = c
            /\ job'.reduceFinished = job.reduceFinished + Len(groups[i])
            /\ output' = output
  <2>1. i \in 1 .. n /\ i <= c  BY <1>6, <1>50 DEF Reducing
  <2>2. \A k \in 1 .. n : gone(t, k)' /\ (gone(t, k) <=> k # i)
                          /\ free(t, k)' = free(t, k)
    BY <1>50 DEF Reducing
  <2>3. \A u \in Threads \ {t} : gone(u, i)  BY <1>5, <1>7, <1>50 DEF Reducing
  <2>4. Pushed' = Pushed
    <3> HIDE DEF free, gone
    <3> QED  BY <1>2, <1>3, <1>4, <1>50, <2>2
  <2>5. Finished' = Finished \cup {i} /\ i \notin Finished
    <3> HIDE DEF free, gone, i
    <3> QED  BY <1>2, <1>3, <1>4, <1>50, <2>1, <2>2, <2>3
  <2> QED  BY <1>50, <2>1, <2>4, <2>5 DEF n
<1> QED
  BY <1>10, <1>20, <1>30, <1>40, <1>50, ReduceEffects DEF n, c

(* The steps of the other phases change neither.                           *)
LEMMA QuietSets ==
  ASSUME ControlTypeOK, ControlInv, DataTypeOK, PhaseInv, ClaimedInv,
         [WorkerNext \/ Returned]_workerVars, ReduceQuiet
  PROVE  SetsSame /\ (groups' = groups \/ (Pushed = {} /\ Finished = {}))
<1>1. CASE groups' = groups
  <2>1. Claimed' = Claimed  BY <1>1 DEF ReduceQuiet, Claimed
  <2>2. \A u \in Threads, k \in Claimed :
          /\ (wpc'[u] \in {"reduce", "push"} => my'[u] + 1 # k)
                = (wpc[u] \in {"reduce", "push"} => my[u] + 1 # k)
          /\ (wpc'[u] \in Reducing => my'[u] + 1 # k) = (wpc[u] \in Reducing => my[u] + 1 # k)
    BY DEF ReduceQuiet, Reducing
  <2>3. Pushed' = Pushed  BY <2>1, <2>2 DEF Pushed
  <2>4. Finished' = Finished  BY <2>1, <2>2 DEF Finished
  <2>5. SetsSame  BY <2>3, <2>4 DEF SetsSame
  <2> QED  BY <1>1, <2>5
<1>2. CASE job.stage # REDUCE
  <2>1. job.interCounter = 0 /\ job'.interCounter = 0  BY <1>2 DEF ClaimedInv, ReduceQuiet
  <2>2. Claimed = {} /\ Claimed' = {}  BY <2>1 DEF Claimed
  <2> QED  BY <2>2 DEF Pushed, Finished, SetsSame
<1> QED  BY <1>1, <1>2, GroupsFixed

(* A group that is counted has its result in the output.                   *)
LEMMA PushedFinite ==
  ASSUME DataTypeOK
  PROVE  /\ Pushed \subseteq 1 .. Len(groups) /\ IsFiniteSet(Pushed)
         /\ Finished \subseteq Pushed
<1>1. IsFiniteSet(1 .. Len(groups))
  <2>1. Len(groups) \in Nat  BY DEF DataTypeOK
  <2> DEFINE n == Len(groups)
  <2> HIDE DEF n
  <2>2. n \in Nat  BY <2>1 DEF n
  <2>3. IsFiniteSet(1 .. n)  BY <2>2, FS_Interval
  <2> QED  BY <2>3 DEF n
<1>2. Pushed \subseteq 1 .. Len(groups)  BY DEF Pushed, Claimed
<1> QED  BY <1>1, <1>2, FS_Subset DEF Pushed, Finished, Reducing

(* The output holds the results of the pushed groups, once each.           *)
LEMMA OutputStep ==
  ASSUME ControlTypeOK, ControlInv, ClaimInv, DistinctWork, DataTypeOK, PhaseInv, GroupInv,
         ClaimedInv, OutputInv, [WorkerNext \/ Returned]_workerVars
  PROVE  OutputInv'
<1>1. CASE ReduceQuiet
  <2>1. SetsSame /\ (groups' = groups \/ Pushed = {}) /\ output' = output
    BY <1>1, QuietSets DEF ReduceQuiet
  <2> QED  BY <2>1 DEF OutputInv, SetsSame
<1>2. ASSUME NEW t \in Threads, ReduceStep(t)  PROVE OutputInv'
  <2> DEFINE i == my[t] + 1
             e == Reduced(groups[i])
  <2>1. groups' = groups  BY <1>2, ReduceEffects
  <2>2. CASE Pushed' = Pushed /\ output' = output  BY <2>1, <2>2 DEF OutputInv
  <2>3. CASE /\ i \in 1 .. Len(groups) /\ i \notin Pushed
             /\ Pushed' = Pushed \cup {i} /\ output' = Append(output, e)
    <3>1. e \in OutputType
      <4>1. groups[i] \in Seq(AllPairs) /\ groups[i] # <<>>
        BY <2>3 DEF DataTypeOK, GroupInv
      <4>2. Head(groups[i]) \in AllPairs /\ Len(groups[i]) \in Nat  BY <4>1
      <4> QED  BY <4>2, PairFields DEF Reduced, OutputType
    <3>2. output \in Seq(OutputType)  BY DEF DataTypeOK
    <3>3. Len(output') = Len(output) + 1 /\ ToSet(output') = ToSet(output) \cup {e}
      <4> HIDE DEF e
      <4> QED  BY <2>3, <3>1, <3>2, AppendElements
    <3>4. Cardinality(Pushed') = Cardinality(Pushed) + 1
      <4> HIDE DEF i
      <4> QED  BY <2>3, PushedFinite, FS_AddElement
    <3>5. {Reduced(groups[k]) : k \in Pushed'} = {Reduced(groups[k]) : k \in Pushed} \cup {e}
      BY <2>3
    <3> QED  BY <2>1, <3>3, <3>4, <3>5 DEF OutputInv
  <2> QED  BY <1>2, <2>2, <2>3, WorkSets DEF SetsSame
<1> QED  BY <1>1, <1>2, ReduceKinds

(* reduceFinished counts the pairs of the finished groups.                 *)
LEMMA FinishedStep ==
  ASSUME ControlTypeOK, ControlInv, ClaimInv, DistinctWork, DataTypeOK, PhaseInv, OwnInv,
         PlacedInv, GroupInv, ClaimedInv, FinishedInv, [WorkerNext \/ Returned]_workerVars
  PROVE  FinishedInv'
<1>1. CASE ReduceQuiet
  <2>1. SetsSame /\ (groups' = groups \/ Finished = {})
        /\ job'.reduceFinished = job.reduceFinished
    BY <1>1, QuietSets DEF ReduceQuiet
  <2> QED  BY <2>1 DEF FinishedInv, SetsSame
<1>2. ASSUME NEW t \in Threads, ReduceStep(t)  PROVE FinishedInv'
  <2> DEFINE i == my[t] + 1
             U == UNION {ToSet(groups[k]) : k \in Finished}
             g == ToSet(groups[i])
  <2>1. groups' = groups  BY <1>2, ReduceEffects
  <2>2. CASE Finished' = Finished /\ job'.reduceFinished = job.reduceFinished
    BY <2>1, <2>2 DEF FinishedInv
  <2>3. CASE /\ i \in 1 .. Len(groups) /\ i \notin Finished
             /\ Finished' = Finished \cup {i}
             /\ job'.reduceFinished = job.reduceFinished + Len(groups[i])
    <3>1. UNION {ToSet(groups[k]) : k \in Finished'} = U \cup g  BY <2>3
    <3>2. Finished \subseteq 1 .. Len(groups)  BY PushedFinite
    <3>3. U \cap g = {}
      <4>1. \A k \in Finished : ToSet(groups[k]) \cap g = {}
        BY <2>3, <3>2 DEF OwnInv, Apart
      <4> QED  BY <4>1
    <3>4. IsFiniteSet(g) /\ Cardinality(g) = Len(groups[i])
      <4>1. groups[i] \in Seq(AllPairs) /\ IsInjective(groups[i])
        BY <2>3 DEF DataTypeOK, OwnInv, Apart
      <4> QED  BY <4>1, InjectiveLength
    <3>5. IsFiniteSet(U)
      <4>1. U \subseteq Placed  BY <3>2 DEF Placed, Grouped
      <4> QED  BY <4>1, FS_Subset DEF PlacedInv
    <3>6. Cardinality(U \cup g) = Cardinality(U) + Cardinality(g)
      <4> HIDE DEF U, g
      <4>1. Cardinality(U \cap g) = 0  BY <3>3, FS_EmptySet
      <4>2. Cardinality(U) \in Nat /\ Cardinality(g) \in Nat  BY <3>4, <3>5, FS_CardinalityType
      <4>3. Cardinality(U \cup g) = Cardinality(U) + Cardinality(g) - Cardinality(U \cap g)
        BY <3>4, <3>5, FS_Union
      <4> QED  BY <4>1, <4>2, <4>3
    <3> QED  BY <2>1, <2>3, <3>1, <3>4, <3>6 DEF FinishedInv
  <2> QED  BY <1>2, <2>2, <2>3, WorkSets DEF SetsSame
<1> QED  BY <1>1, <1>2, ReduceKinds

-----------------------------------------------------------------------------
(* Before the first thread is created there is no pair anywhere.           *)
LEMMA InitData ==
  ASSUME MapReduceInit
  PROVE  /\ DataTypeOK /\ PhaseInv /\ OwnInv /\ PlacedInv /\ SortedInv /\ GroupInv
         /\ ClaimedInv /\ OutputInv /\ FinishedInv
<1> USE DEF MapReduceInit
<1>0. /\ vec = [t \in Threads |-> <<>>] /\ groups = <<>> /\ output = <<>>
      /\ job.inputCounter = 0 /\ job.interCounter = 0 /\ job.maxForShuffle = 0
      /\ job.reduceFinished = 0 /\ job.stage = UNDEFINED
      /\ \A t \in Threads : wpc[t] = "none"
      /\ Main \in Threads
  BY NAssumption DEF Main, Threads
<1>1. /\ Len(groups) = 0 /\ 1 .. Len(groups) = {} /\ Len(output) = 0
  BY <1>0
<1>2. \A t \in Threads : /\ vec[t] = <<>> /\ Len(vec[t]) = 0 /\ 1 .. Len(vec[t]) = {}
                         /\ ToSet(vec[t]) = {} /\ IsInjective(vec[t])
  <2> HIDE DEF MapReduceInit
  <2> SUFFICES ASSUME NEW t \in Threads
               PROVE  /\ vec[t] = <<>> /\ Len(vec[t]) = 0 /\ 1 .. Len(vec[t]) = {}
                      /\ ToSet(vec[t]) = {} /\ IsInjective(vec[t])
    OBVIOUS
  <2>1. vec[t] = <<>> /\ vec[t] \in Seq(AllPairs) /\ Len(vec[t]) = 0  BY <1>0
  <2> QED  BY <2>1, EmptyList
<1>3. DataTypeOK
  <2>1. job \in JobType  BY DEF JobType, Stages, UNDEFINED, REDUCE
  <2>2. pos \in [Threads -> Nat] /\ vec \in [Threads -> Seq(AllPairs)]
        /\ groups \in Seq(Seq(AllPairs)) /\ output \in Seq(OutputType)
        /\ outMutex \in Threads \cup {NoThread}
    OBVIOUS
  <2> QED  BY <2>1, <2>2 DEF DataTypeOK
<1>4. PhaseInv
  BY <1>0 DEF PhaseInv, PhaseThread, PhaseMain, Mapping, Unsorted, AfterShuffle, Reducing,
              UNDEFINED, SHUFFLE, REDUCE
<1>5. OwnInv  BY <1>1, <1>2 DEF OwnInv, Apart
<1>6. PlacedInv
  <2>1. Grouped = {}  BY <1>1 DEF Grouped
  <2>2. Placed = {}  BY <1>2, <2>1 DEF Placed
  <2>3. Emitted = {}
    <3>1. \A p \in AllPairs : ~ (p.id[1] < 0)  BY PairFields
    <3> QED  BY <1>0, <3>1 DEF Emitted
  <2> QED  BY <1>0, <2>2, <2>3, FS_EmptySet DEF PlacedInv
<1>7. SortedInv  BY <1>2 DEF SortedInv, Ascending
<1>8. GroupInv  BY <1>0, <1>1 DEF GroupInv, UNDEFINED, REDUCE
<1>9. ClaimedInv
  <2>1. outMutex = NoThread /\ \A t \in Threads : t # NoThread  BY DEF Threads, NoThread
  <2> QED  BY <1>0, <2>1 DEF ClaimedInv, ClaimedThread, Reducing
<1>10. Pushed = {} /\ Finished = {}  BY <1>1 DEF Pushed, Finished, Claimed
<1>11. OutputInv
  <2>1. Len(output) = 0 /\ output \in Seq(OutputType)  BY <1>1, <1>3 DEF DataTypeOK
  <2>2. ToSet(output) = {}
    <3> HIDE DEF MapReduceInit
    <3> QED  BY <2>1, EmptyList
  <2> QED  BY <1>1, <1>10, <2>2, FS_EmptySet DEF OutputInv
<1>12. FinishedInv
  <2>1. UNION {ToSet(groups[i]) : i \in Finished} = {}  BY <1>10
  <2> QED  BY <1>0, <2>1, FS_EmptySet DEF FinishedInv
<1> QED  BY <1>3, <1>4, <1>5, <1>6, <1>7, <1>8, <1>9, <1>11, <1>12

(* The inductive invariant.                                                *)
DataInv ==
    /\ DataTypeOK /\ PhaseInv
    /\ OwnInv /\ PlacedInv
    /\ SortedInv /\ GroupInv
    /\ ClaimedInv /\ OutputInv /\ FinishedInv

(* Every step preserves the invariant.                                     *)
LEMMA DataStep ==
  ASSUME BarrierTypeOK, BarrierInv, BarrierTypeOK', BarrierInv', ControlTypeOK, WorkerInv,
         DataInv, [WorkerNext \/ Returned]_workerVars
  PROVE  DataInv'
<1>0. /\ ControlInv /\ ClaimInv /\ DistinctWork /\ ShuffleExclusive
      /\ DataTypeOK /\ PhaseInv /\ OwnInv /\ PlacedInv /\ SortedInv /\ GroupInv
      /\ ClaimedInv /\ OutputInv /\ FinishedInv
  BY BarriersExclude DEF WorkerInv, DataInv
<1>1. DataTypeOK'  BY <1>0, DataTypeStep
<1>2. PhaseInv'  BY <1>0, <1>1, PhaseStep
<1>3. OwnInv' /\ PlacedInv'  BY <1>0, PlacedStep
<1>4. SortedInv' /\ GroupInv'  BY <1>0, SortedStep, GroupStep
<1>5. ClaimedInv'  BY <1>0, <1>2, ClaimedStep
<1>6. OutputInv' /\ FinishedInv'  BY <1>0, OutputStep, FinishedStep
<1> QED  BY <1>1, <1>2, <1>3, <1>4, <1>5, <1>6 DEF DataInv

(* For every number of threads and every input, the invariant holds.       *)
THEOREM DataInvariant == MapReduceSpec => []DataInv
<1>1. MapReduceInit => DataInv  BY InitData DEF DataInv
<1>2. /\ BarrierTypeOK /\ BarrierInv /\ (BarrierTypeOK /\ BarrierInv)'
      /\ (ControlTypeOK /\ WorkerInv) /\ DataInv
      /\ [WorkerNext \/ Returned]_workerVars
      => DataInv'
  BY DataStep
<1> QED
  BY <1>1, <1>2, JobDrivesBarrier, TypeCorrect, Invariant, WorkerInvariant, PTL
  DEF MapReduceSpec

(* For every number of threads and every input, the counters, the indices  *)
(* and the lists of the job are well typed.                                *)
THEOREM MapReduceTypeCorrect == MapReduceSpec => []MapReduceTypeOK
<1>1. BarrierTypeOK /\ (ControlTypeOK /\ WorkerInv) /\ DataInv => MapReduceTypeOK
  BY DEF ControlTypeOK, DataInv, DataTypeOK, JobType, MapReduceTypeOK
<1> QED  BY <1>1, JobDrivesBarrier, TypeCorrect, WorkerInvariant, DataInvariant, PTL

-----------------------------------------------------------------------------
(* The vectors of the threads and the groups, one after the other.         *)
AllLists == [i \in 1 .. N |-> vec[i - 1]] \o groups

(* They are lists of pairs with nothing in common that hold what is placed.*)
LEMMA ListsOf ==
  ASSUME DataTypeOK, OwnInv
  PROVE  /\ AllLists \in Seq(Seq(AllPairs))
         /\ Apart(AllLists)
         /\ UNION {ToSet(AllLists[i]) : i \in 1 .. Len(AllLists)} = Placed
<1> DEFINE vs == [i \in 1 .. N |-> vec[i - 1]]
           m == Len(groups)
           ss == vs \o groups
<1>0. N \in Nat /\ m \in Nat /\ groups \in Seq(Seq(AllPairs))
      /\ vec \in [Threads -> Seq(AllPairs)]
  BY NAssumption DEF DataTypeOK
<1>1. \A i \in 1 .. N : i - 1 \in Threads /\ vec[i - 1] \in Seq(AllPairs)
  BY <1>0 DEF Threads
<1>2. vs \in Seq(Seq(AllPairs)) /\ Len(vs) = N /\ \A i \in 1 .. N : vs[i] = vec[i - 1]
  BY <1>0, <1>1
<1> HIDE DEF vs, m
<1>3. /\ ss \in Seq(Seq(AllPairs)) /\ Len(ss) = N + m
      /\ \A i \in 1 .. N : ss[i] = vs[i]
      /\ \A i \in 1 .. m : ss[N + i] = groups[i]
  <2>1. Len(groups) = m  BY DEF m
  <2>2. vs \in Seq(Seq(AllPairs)) /\ groups \in Seq(Seq(AllPairs))  BY <1>0, <1>2
  <2> DEFINE S == Seq(AllPairs)
  <2> HIDE DEF S
  <2>3. /\ vs \o groups \in Seq(S) /\ Len(vs \o groups) = Len(vs) + Len(groups)
        /\ \A i \in 1 .. Len(vs) : (vs \o groups)[i] = vs[i]
        /\ \A i \in 1 .. Len(groups) : (vs \o groups)[Len(vs) + i] = groups[i]
    <3>1. vs \in Seq(S) /\ groups \in Seq(S)  BY <2>2 DEF S
    <3> QED  BY <3>1, ConcatAt
  <2> HIDE DEF ss
  <2>4. /\ ss \in Seq(S) /\ Len(ss) = N + m
        /\ \A i \in 1 .. N : ss[i] = vs[i]
        /\ \A i \in 1 .. m : ss[N + i] = groups[i]
    BY <1>2, <2>1, <2>3 DEF ss
  <2> QED  BY <2>4 DEF S
<1>4. \A i \in 1 .. N + m : \/ i \in 1 .. N /\ ss[i] = vec[i - 1] /\ i - 1 \in Threads
                            \/ i - N \in 1 .. m /\ ss[i] = groups[i - N]
  <2> TAKE i \in 1 .. N + m
  <2>1. CASE i \in 1 .. N  BY <1>1, <1>2, <1>3, <2>1
  <2>2. CASE i \notin 1 .. N
    <3>1. i - N \in 1 .. m /\ N + (i - N) = i  BY <1>0, <2>2
    <3> QED  BY <1>3, <3>1
  <2> QED  BY <2>1, <2>2
<1> HIDE DEF ss
<1>5. /\ \A t \in Threads : IsInjective(vec[t])
      /\ \A t, u \in Threads : t # u => ToSet(vec[t]) \cap ToSet(vec[u]) = {}
      /\ \A i \in 1 .. m : IsInjective(groups[i])
      /\ \A i, j \in 1 .. m : i # j => ToSet(groups[i]) \cap ToSet(groups[j]) = {}
      /\ \A t \in Threads, i \in 1 .. m : ToSet(vec[t]) \cap ToSet(groups[i]) = {}
  BY DEF OwnInv, Apart, m
<1>6. Apart(ss)
  <2>1. \A i \in 1 .. N + m : IsInjective(ss[i])  BY <1>4, <1>5
  <2>2. ASSUME NEW i \in 1 .. N + m, NEW j \in 1 .. N + m, i # j
        PROVE  ToSet(ss[i]) \cap ToSet(ss[j]) = {}
    <3>1. i - 1 # j - 1 /\ i - N # j - N  BY <1>0, <2>2
    <3> QED  BY <1>4, <1>5, <3>1
  <2> QED  BY <1>3, <2>1, <2>2 DEF Apart
<1>7. UNION {ToSet(ss[i]) : i \in 1 .. N + m} = Placed
  <2>1. Placed = (UNION {ToSet(vec[t]) : t \in Threads})
                 \cup UNION {ToSet(groups[i]) : i \in 1 .. m}
    BY DEF Placed, Grouped, m
  <2>2. \A i \in 1 .. N + m : ToSet(ss[i]) \subseteq Placed  BY <1>4, <2>1
  <2>3. ASSUME NEW t \in Threads  PROVE \E i \in 1 .. N + m : ss[i] = vec[t]
    <3>1. t + 1 \in 1 .. N /\ (t + 1) - 1 = t /\ t + 1 \in 1 .. N + m
      BY <1>0 DEF Threads
    <3> QED  BY <1>2, <1>3, <3>1
  <2>4. ASSUME NEW k \in 1 .. m  PROVE \E i \in 1 .. N + m : ss[i] = groups[k]
    <3>1. N + k \in 1 .. N + m  BY <1>0
    <3> QED  BY <1>3, <3>1
  <2>5. Placed \subseteq UNION {ToSet(ss[i]) : i \in 1 .. N + m}
    BY <2>1, <2>3, <2>4
  <2> QED  BY <2>2, <2>5
<1> QED  BY <1>3, <1>6, <1>7 DEF AllLists, ss, vs

(* For every number of threads and every input, every pair that was        *)
(* emitted is in exactly one place, and from the shuffle on these are the  *)
(* pairs of all the inputs.                                                *)
THEOREM PairsAreConserved == MapReduceSpec => []PairsConserved
<1>1. ASSUME DataInv  PROVE PairsConserved
  <2> DEFINE all == FlattenSeq(AllLists)
  <2>0. DataTypeOK /\ PhaseInv /\ OwnInv /\ PlacedInv  BY <1>1 DEF DataInv
  <2>1. all \in Seq(AllPairs) /\ IsInjective(all) /\ ToSet(all) = Placed
    BY <2>0, ListsOf, FlattenApart
  <2>2. Len(all) = job.maxForShuffle
    BY <2>0, <2>1, InjectiveLength DEF PlacedInv
  <2>3. job.stage \in {SHUFFLE, REDUCE} => ToSet(all) = AllPairs
    BY <2>0, <2>1, AllPlaced
  <2> QED  BY <2>1, <2>2, <2>3 DEF PairsConserved, AllLists
<1> QED  BY <1>1, DataInvariant, PTL

-----------------------------------------------------------------------------
(* The result of a group is that of all the pairs with its key.            *)
ResultOf(k) == [key |-> k, size |-> Cardinality({q \in AllPairs : q.key = k})]

(* So it is for each group.                                                *)
LEMMA GroupResult ==
  ASSUME DataTypeOK, OwnInv, GroupInv, NEW i \in 1 .. Len(groups)
  PROVE  LET k == Head(groups[i]).key
         IN  /\ Head(groups[i]) \in ToSet(groups[i]) /\ Head(groups[i]) \in AllPairs
             /\ ToSet(groups[i]) = {q \in AllPairs : q.key = k}
             /\ Reduced(groups[i]) = ResultOf(k)
<1> DEFINE g == groups[i]
           k == Head(g).key
<1>1. g \in Seq(AllPairs) /\ g # <<>> /\ IsInjective(g)
  BY DEF DataTypeOK, GroupInv, OwnInv, Apart
<1>2. /\ \A p \in ToSet(g), q \in AllPairs : q \in ToSet(g) <=> q.key = p.key
  BY DEF GroupInv
<1> HIDE DEF g
<1>3. Head(g) \in ToSet(g) /\ ToSet(g) \subseteq AllPairs
  BY <1>1, InjectiveTail, ListElements
<1>4. ToSet(g) = {q \in AllPairs : q.key = k}  BY <1>2, <1>3
<1>5. Len(g) = Cardinality(ToSet(g))  BY <1>1, InjectiveLength
<1>6. Reduced(g) = ResultOf(k)  BY <1>4, <1>5 DEF Reduced, ResultOf
<1> QED  BY <1>3, <1>4, <1>6 DEF g

(* What the output holds once every group has been reduced.                *)
LEMMA AllReduced ==
  ASSUME DataInv, job.stage = REDUCE, Pushed = 1 .. Len(groups)
  PROVE  Len(output) = Cardinality(Expected) /\ ToSet(output) = Expected
<1> DEFINE n == Len(groups)
           h(i) == Head(groups[i])
           f == [i \in 1 .. n |-> Reduced(groups[i])]
<1>0. DataTypeOK /\ PhaseInv /\ OwnInv /\ PlacedInv /\ GroupInv /\ OutputInv
  BY DEF DataInv
<1>1. Expected = {ResultOf(p.key) : p \in AllPairs}  BY DEF Expected, ResultOf
<1>2. Grouped = AllPairs
  <2>1. \A t \in Threads : ToSet(vec[t]) = {}
    <3> TAKE t \in Threads
    <3>1. Len(vec[t]) = 0 /\ vec[t] \in Seq(AllPairs)  BY <1>0 DEF GroupInv, DataTypeOK
    <3> QED  BY <3>1, EmptyList
  <2>2. Placed = Grouped  BY <2>1 DEF Placed
  <2> QED  BY <1>0, <2>2, AllPlaced
<1>3. \A i \in 1 .. n : /\ h(i) \in ToSet(groups[i]) /\ h(i) \in AllPairs
                        /\ ToSet(groups[i]) = {q \in AllPairs : q.key = h(i).key}
                        /\ Reduced(groups[i]) = ResultOf(h(i).key)
  BY <1>0, GroupResult
<1>4. ToSet(output) = {Reduced(groups[i]) : i \in 1 .. n} /\ Len(output) = Cardinality(1 .. n)
  BY <1>0 DEF OutputInv
<1>5. \A i, j \in 1 .. n : i # j => ToSet(groups[i]) \cap ToSet(groups[j]) = {}
  BY <1>0 DEF OwnInv, Apart
<1>5a. n \in Nat  BY <1>0 DEF DataTypeOK
<1>5b. \A p \in AllPairs : \E i \in 1 .. n : p \in ToSet(groups[i])
  BY <1>2 DEF Grouped
<1> HIDE DEF n, h
<1>6. {Reduced(groups[i]) : i \in 1 .. n} = Expected
  <2>1. \A i \in 1 .. n : Reduced(groups[i]) \in Expected  BY <1>1, <1>3
  <2>2. ASSUME NEW p \in AllPairs
        PROVE  \E i \in 1 .. n : ResultOf(p.key) = Reduced(groups[i])
    <3>1. PICK i \in 1 .. n : p \in ToSet(groups[i])  BY <1>5b
    <3>2. p.key = h(i).key  BY <1>3, <3>1
    <3> QED  BY <1>3, <3>2
  <2> QED  BY <1>1, <2>1, <2>2
<1>7. f \in Bijection(1 .. n, Expected)
  <2>1. f \in [1 .. n -> Expected] /\ \A x \in Expected : \E i \in 1 .. n : f[i] = x
    BY <1>6
  <2>2. ASSUME NEW i \in 1 .. n, NEW j \in 1 .. n, f[i] = f[j]  PROVE i = j
    <3>1. ResultOf(h(i).key) = ResultOf(h(j).key)  BY <1>3, <2>2
    <3>2. h(i).key = h(j).key
      <4>1. \A k : ResultOf(k).key = k  BY DEF ResultOf
      <4> QED  BY <3>1, <4>1
    <3>3. h(i) \in ToSet(groups[j])  BY <1>3, <3>2
    <3> QED  BY <1>3, <1>5, <3>3
  <2> HIDE DEF f
  <2> QED  BY <2>1, <2>2 DEF Bijection, Injection, IsInjective, Surjection
<1>8. IsFiniteSet(1 .. n)  BY <1>5a, FS_Interval
<1>9. Cardinality(Expected) = Cardinality(1 .. n)
  <2> HIDE DEF f
  <2> QED  BY <1>7, <1>8, FS_Bijection DEF ExistsBijection
<1> QED  BY <1>4, <1>6, <1>9

(* For every number of threads and every input, the output of a job that   *)
(* is done is that of a sequential map-reduce.                             *)
THEOREM OutputIsExact == MapReduceSpec => []OutputExact
<1>1. ASSUME DataInv, AllDone
      PROVE  Len(output) = Cardinality(Expected) /\ ToSet(output) = Expected
  <2>1. Main \in Threads  BY NAssumption DEF Main, Threads
  <2>2. \A t \in Threads : wpc[t] = "done"  BY <1>1 DEF AllDone
  <2>3. job.stage = REDUCE
    BY <1>1, <2>1, <2>2 DEF DataInv, PhaseInv, PhaseMain, AfterShuffle
  <2>4. job.interCounter >= Len(groups) /\ job.interCounter \in Nat /\ Len(groups) \in Nat
    BY <1>1, <2>1, <2>2 DEF DataInv, DataTypeOK, JobType, ClaimedInv, ClaimedThread
  <2>5. Claimed = 1 .. Len(groups)
    <3>1. \A i \in 1 .. Len(groups) : i <= job.interCounter  BY <2>4
    <3> QED  BY <3>1 DEF Claimed
  <2>6. Pushed = 1 .. Len(groups)  BY <2>2, <2>5 DEF Pushed
  <2> QED  BY <1>1, <2>3, <2>6, AllReduced
<1>2. DataInv => OutputExact  BY <1>1 DEF OutputExact
<1> QED  BY <1>2, DataInvariant, PTL
=============================================================================
