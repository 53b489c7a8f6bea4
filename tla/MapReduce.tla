----------------------------- MODULE MapReduce -----------------------------
(***************************************************************************)
(* The worker threads of a map-reduce job                                  *)
(* (OS_ex3/Resources/MapReduceFramework.cpp): startMapReduceJob creates    *)
(* them one by one, and each runs map_reduce_for_thread:                   *)
(*                                                                         *)
(*   map ; sort ; barrier ; (thread 0: shuffle) ; barrier ; reduce         *)
(*                                                                         *)
(* A step is one access to shared memory together with the thread-local    *)
(* work around it.  JobHandle adds the calls made through the job handle.  *)
(***************************************************************************)
EXTENDS Barrier, Sequences, SequencesExt

CONSTANT Emits  \* Emits[i + 1]: the keys emit2 is given while input i is mapped

ASSUME EmitsAssumption == Emits \in Seq(Seq(Int))

Main == 0              \* contexts[0], the thread with is_main_thread
Inputs == Len(Emits)   \* inputVec.size()

UNDEFINED == 0
MAP == 1
SHUFFLE == 2
REDUCE == 3
Stages == UNDEFINED .. REDUCE

VARIABLES
    job,       \* the counters and the stage that all JobContexts point to
    wpc,       \* where each thread is in map_reduce_for_thread
    my,        \* my_input_vec_index in the map phase, x in reduce()
    pos,       \* next key to emit; in emit3, where push_back will write
    vec,       \* intermediateVec of each thread
    groups,    \* shuffled_vectors
    output,    \* outputVec
    outMutex   \* the holder of output_vec_mutex

dataVars == <<vec, groups, output, outMutex>>
workerVars == <<barrierVars, job, wpc, my, pos, dataVars>>

WorkerPc == {"none", "start", "stage", "test", "fetch", "map", "sort", "barrier1",
             "toShuffle", "shuffle", "barrier2",
             "reduceTest", "reduceFetch", "reduce", "push", "reduced", "done"}

(* The pair emitted as the j-th of input i, told apart from equal keys.    *)
Pair(i, j) == [key |-> Emits[i + 1][j], id |-> <<i, j>>]

AllPairs == UNION {{Pair(i, j) : j \in DOMAIN Emits[i + 1]} : i \in 0 .. Inputs - 1}

MapReduceInit ==
    /\ BarrierInit
    /\ job = [stage |-> UNDEFINED, maxForMap |-> 0, inputCounter |-> 0,
              interCounter |-> 0, mapFinished |-> 0, maxForShuffle |-> 0,
              shuffleFinished |-> 0, reduceFinished |-> 0]
    /\ wpc = [t \in Threads |-> "none"]
    /\ my = [t \in Threads |-> 0]
    /\ pos = [t \in Threads |-> 0]
    /\ vec = [t \in Threads |-> <<>>]
    /\ groups = <<>> /\ output = <<>> /\ outMutex = NoThread

Goto(t, from, to) == wpc[t] = from /\ wpc' = [wpc EXCEPT ![t] = to]

-----------------------------------------------------------------------------
(* startMapReduceJob: threads are created in order, and a new thread runs  *)
(* before the later ones exist.                                            *)
Create(t) ==
    /\ Goto(t, "none", "start")
    /\ \A u \in Threads : u < t => wpc[u] # "none"
    /\ UNCHANGED <<barrierVars, job, dataVars, my, pos>>

(* Stage 1, map.  Every thread stores the same maximum and the stage.      *)
StoreMax(t) ==
    /\ Goto(t, "start", "stage")
    /\ job' = [job EXCEPT !.maxForMap = Inputs]
    /\ UNCHANGED <<barrierVars, dataVars, my, pos>>

StoreMapStage(t) ==
    /\ Goto(t, "stage", "test")
    /\ job' = [job EXCEPT !.stage = MAP]
    /\ UNCHANGED <<barrierVars, dataVars, my, pos>>

(* The test of the loop and the fetch_add are two accesses of the counter, *)
(* so the index that was fetched is tested again.                          *)
MapTest(t) ==
    /\ Goto(t, "test", IF job.inputCounter < Inputs THEN "fetch" ELSE "sort")
    /\ UNCHANGED <<barrierVars, job, dataVars, my, pos>>

(* Mutant of MapFetch: a load in place of the fetch_add.                   *)
MapFetchNoAdd(t) ==
    /\ Goto(t, "fetch", IF job.inputCounter >= Inputs THEN "sort" ELSE "map")
    /\ my' = [my EXCEPT ![t] = job.inputCounter]
    /\ pos' = [pos EXCEPT ![t] = 1]
    /\ UNCHANGED <<barrierVars, job, dataVars>>

MapFetch(t) ==
    /\ Goto(t, "fetch", IF job.inputCounter >= Inputs THEN "sort" ELSE "map")
    /\ my' = [my EXCEPT ![t] = job.inputCounter]
    /\ job' = [job EXCEPT !.inputCounter = @ + 1]
    /\ pos' = [pos EXCEPT ![t] = 1]
    /\ UNCHANGED <<barrierVars, dataVars>>

(* emit2, called by client.map: the vector is the thread's own.            *)
emit2(t) ==
    /\ wpc[t] = "map" /\ pos[t] \in DOMAIN Emits[my[t] + 1]
    /\ vec' = [vec EXCEPT ![t] = Append(@, Pair(my[t], pos[t]))]
    /\ job' = [job EXCEPT !.maxForShuffle = @ + 1]
    /\ pos' = [pos EXCEPT ![t] = @ + 1]
    /\ UNCHANGED <<barrierVars, wpc, my, groups, output, outMutex>>

MapDone(t) ==
    /\ Goto(t, "map", "test")
    /\ pos[t] \notin DOMAIN Emits[my[t] + 1]
    /\ job' = [job EXCEPT !.mapFinished = @ + 1]
    /\ UNCHANGED <<barrierVars, dataVars, my, pos>>

(* operator< of the K2 of every client, which compares the keys.           *)
KeyLess(k, l) == k < l
k2_equals(k, l) == ~KeyLess(k, l) /\ ~KeyLess(l, k)

(* Stage 1.5.  std::sort is not stable: pairs with equal keys may come out *)
(* in any order.                                                           *)
SortedVersions(v) ==
    {s \in SetToSeqs(ToSet(v)) : \A i, j \in DOMAIN s : i < j => ~KeyLess(s[j].key, s[i].key)}

Sort(t) ==
    /\ Goto(t, "sort", "barrier1")
    /\ \E s \in SortedVersions(vec[t]) : vec' = [vec EXCEPT ![t] = s]
    /\ UNCHANGED <<barrierVars, job, my, pos, groups, output, outMutex>>

(* The two calls of barrier().                                             *)
AtBarrier(t) ==
    /\ wpc[t] \in {"barrier1", "barrier2"}
    /\ Lock(t) \/ Wait(t) \/ Broadcast(t) \/ Wake(t)
    /\ UNCHANGED <<job, dataVars, wpc, my, pos>>

(* Mutants of LeaveBarrier: the second barrier is missing; every thread    *)
(* takes itself for the main thread.                                       *)
LeaveBarrierOnce(t) ==
    /\ Goto(t, "barrier1", IF t = Main THEN "toShuffle" ELSE "reduceTest")
    /\ Unlock(t)
    /\ UNCHANGED <<job, dataVars, my, pos>>

LeaveBarrierAsMain(t) ==
    /\ \/ Goto(t, "barrier1", "toShuffle")
       \/ Goto(t, "barrier2", "reduceTest")
    /\ Unlock(t)
    /\ UNCHANGED <<job, dataVars, my, pos>>

LeaveBarrier(t) ==
    /\ \/ Goto(t, "barrier1", IF t = Main THEN "toShuffle" ELSE "barrier2")
       \/ Goto(t, "barrier2", "reduceTest")
    /\ Unlock(t)
    /\ UNCHANGED <<job, dataVars, my, pos>>

(* Stage 2, by contexts[0] alone.                                          *)
BeginShuffle(t) ==
    /\ Goto(t, "toShuffle", "shuffle")
    /\ job' = [job EXCEPT !.stage = SHUFFLE]
    /\ UNCHANGED <<barrierVars, dataVars, my, pos>>

Backs == {Last(vec[t]).key : t \in {u \in Threads : vec[u] # <<>>}}

get_current_largest_element == CHOOSE k \in Backs : \A l \in Backs : ~KeyLess(k, l)

(* How many pairs the loop leaves in v when it pops equal keys off its end.*)
Kept(v, k) ==
    Min({n \in 0 .. Len(v) : \A i \in n + 1 .. Len(v) : k2_equals(v[i].key, k)})

(* Mutant of get_shuffle_vector: the loop over the contexts ends one early.*)
get_shuffle_vectorShort(k) ==
    FlattenSeq([i \in 1 .. N - 1 |->
        LET v == vec[i - 1] IN Reverse(SubSeq(v, Kept(v, k) + 1, Len(v)))])

get_shuffle_vector(k) ==
    FlattenSeq([i \in 1 .. N |->
        LET v == vec[i - 1] IN Reverse(SubSeq(v, Kept(v, k) + 1, Len(v)))])

(* One turn of the loop of shuffle().                                      *)
ShuffleGroup(t) ==
    /\ wpc[t] = "shuffle" /\ Backs # {}
    /\ LET k == get_current_largest_element
       IN  /\ groups' = Append(groups, get_shuffle_vector(k))
           /\ vec' = [u \in Threads |-> SubSeq(vec[u], 1, Kept(vec[u], k))]
    /\ job' = [job EXCEPT !.shuffleFinished = @ + 1]
    /\ UNCHANGED <<barrierVars, wpc, my, pos, output, outMutex>>

(* Mutant of EndShuffle: the stage is not advanced.                        *)
EndShuffleSilently(t) ==
    /\ Goto(t, "shuffle", "barrier2")
    /\ Backs = {}
    /\ UNCHANGED <<barrierVars, job, dataVars, my, pos>>

EndShuffle(t) ==
    /\ Goto(t, "shuffle", "barrier2")
    /\ Backs = {}
    /\ job' = [job EXCEPT !.stage = REDUCE]
    /\ UNCHANGED <<barrierVars, dataVars, my, pos>>

(* Stage 3, reduce().                                                      *)
ReduceTest(t) ==
    /\ Goto(t, "reduceTest", IF job.interCounter < Len(groups) THEN "reduceFetch" ELSE "done")
    /\ UNCHANGED <<barrierVars, job, dataVars, my, pos>>

ReduceFetch(t) ==
    /\ Goto(t, "reduceFetch", IF job.interCounter >= Len(groups) THEN "done" ELSE "reduce")
    /\ my' = [my EXCEPT ![t] = job.interCounter]
    /\ job' = [job EXCEPT !.interCounter = @ + 1]
    /\ UNCHANGED <<barrierVars, dataVars, pos>>

(* Mutant of emit3Lock: output_vec_mutex is not taken.                     *)
emit3NoLock(t) ==
    /\ Goto(t, "reduce", "push")
    /\ outMutex' = t
    /\ pos' = [pos EXCEPT ![t] = Len(output) + 1]
    /\ UNCHANGED <<barrierVars, job, my, vec, groups, output>>

(* client.reduce calls emit3 once, with the key of the group and, like the *)
(* sample clients, a value computed from all of its pairs.                 *)
emit3Lock(t) ==
    /\ Goto(t, "reduce", "push")
    /\ outMutex = NoThread
    /\ outMutex' = t
    /\ pos' = [pos EXCEPT ![t] = Len(output) + 1]
    /\ UNCHANGED <<barrierVars, job, my, vec, groups, output>>

Reduced(g) == [key |-> Head(g).key, size |-> Len(g)]

(* push_back writes at the end it read when it began.                      *)
emit3Push(t) ==
    /\ Goto(t, "push", "reduced")
    /\ output' = Append(SubSeq(output, 1, pos[t] - 1), Reduced(groups[my[t] + 1]))
    /\ outMutex' = NoThread
    /\ UNCHANGED <<barrierVars, job, my, pos, vec, groups>>

ReduceDone(t) ==
    /\ Goto(t, "reduced", "reduceTest")
    /\ job' = [job EXCEPT !.reduceFinished = @ + Len(groups[my[t] + 1])]
    /\ UNCHANGED <<barrierVars, dataVars, my, pos>>

-----------------------------------------------------------------------------
MapStep(t) == StoreMax(t) \/ StoreMapStage(t) \/ MapTest(t) \/ MapFetch(t)
              \/ emit2(t) \/ MapDone(t) \/ Sort(t)
ShuffleStep(t) == BeginShuffle(t) \/ ShuffleGroup(t) \/ EndShuffle(t)
ReduceStep(t) == ReduceTest(t) \/ ReduceFetch(t) \/ emit3Lock(t) \/ emit3Push(t)
                 \/ ReduceDone(t)

map_reduce_for_thread(t) ==
    MapStep(t) \/ AtBarrier(t) \/ LeaveBarrier(t) \/ ShuffleStep(t) \/ ReduceStep(t)

WorkerNext == \E t \in Threads : Create(t) \/ map_reduce_for_thread(t)

-----------------------------------------------------------------------------
AllDone == \A t \in Threads : wpc[t] = "done"

Returned == AllDone /\ UNCHANGED workerVars

MapReduceSpec == MapReduceInit /\ [][WorkerNext \/ Returned]_workerVars

-----------------------------------------------------------------------------

MapReduceTypeOK ==
    /\ BarrierTypeOK
    /\ job \in [stage : Stages, maxForMap : Nat, inputCounter : Nat, interCounter : Nat,
               mapFinished : Nat, maxForShuffle : Nat, shuffleFinished : Nat,
               reduceFinished : Nat]
    /\ wpc \in [Threads -> WorkerPc]
    /\ my \in [Threads -> Nat]
    /\ pos \in [Threads -> Nat]
    /\ DOMAIN vec = Threads
    /\ outMutex \in Threads \cup {NoThread}

(* While thread 0 pops pairs from every thread's vector, each other thread *)
(* has sorted its vector and is between the two barriers: nobody emits,    *)
(* sorts or reduces, and every context exists (lines 180-189, 239-246).    *)
Shuffling == wpc[Main] \in {"toShuffle", "shuffle"}

ShuffleExclusive ==
    Shuffling => \A t \in Threads \ {Main} : wpc[t] \in {"barrier1", "barrier2"}

(* No input is mapped, and no group reduced, by two threads at a time.     *)
Reducing == {"reduce", "push", "reduced"}

DistinctWork ==
    \A t, u \in Threads :
        /\ t # u /\ my[t] = my[u]
        => ~ (wpc[t] = "map" /\ wpc[u] = "map") /\ ~ (wpc[t] \in Reducing /\ wpc[u] \in Reducing)

(* Every emitted pair is in exactly one place, a thread's vector or a      *)
(* group, and once the shuffle begins all the pairs of all inputs are      *)
(* there: no input is skipped or mapped twice, the sort and the shuffle    *)
(* neither lose nor duplicate a pair (lines 165-178, 218-249).             *)
PairsConserved ==
    LET all == FlattenSeq([i \in 1 .. N |-> vec[i - 1]] \o groups)
    IN  /\ Len(all) = job.maxForShuffle
        /\ IsInjective(all)
        /\ job.stage \in {SHUFFLE, REDUCE} => ToSet(all) = AllPairs

(* When the job is done, the output is that of a sequential map-reduce:    *)
(* one entry for each key, computed from every pair with that key.         *)
Expected ==
    {[key |-> p.key, size |-> Cardinality({q \in AllPairs : q.key = p.key})] : p \in AllPairs}

OutputExact ==
    AllDone => Len(output) = Cardinality(Expected) /\ ToSet(output) = Expected
-----------------------------------------------------------------------------
(* The inductive invariant behind ShuffleExclusive and DistinctWork: how   *)
(* many barriers a thread has passed follows from where it is, it is       *)
(* inside barrier() only at the two calls, and only contexts[0] shuffles.  *)
BarriersPassed(pc) ==
    CASE pc \in {"toShuffle", "shuffle", "barrier2"} -> 1
      [] pc \in {"reduceTest", "reduceFetch", "done"} \cup Reducing -> 2
      [] OTHER -> 0

ControlInv ==
    \A t \in Threads :
        /\ left[t] = BarriersPassed(wpc[t])
        /\ wpc[t] \notin {"barrier1", "barrier2"} => bpc[t] = "out"
        /\ wpc[t] \in {"toShuffle", "shuffle"} => t = Main

(* An index that a thread works on was taken from its counter.             *)
ClaimInv ==
    \A t \in Threads :
        /\ wpc[t] = "map" => my[t] < job.inputCounter
        /\ wpc[t] \in Reducing => my[t] < job.interCounter

WorkerInv == ControlInv /\ ClaimInv /\ DistinctWork
=============================================================================
