-------------------------- MODULE JobHandleProofs --------------------------
(***************************************************************************)
(* For every number of workers, every input and every number of clients:   *)
(* each thread is joined at most once, nobody's wait returns before all    *)
(* threads are done, the job is deleted when nothing is in use, progress   *)
(* never goes back, and who is told of 100% finds the whole output.  Nobody*)
(* is ever stuck, and each step but polling leaves less work to do.        *)
(***************************************************************************)
EXTENDS JobHandle, MapReduceProofs

(* The workers of a job with clients are those of MapReduce.               *)
LEMMA ClientStepsWorkers ==
  ASSUME [JobNext]_vars
  PROVE  [WorkerNext \/ Returned]_workerVars
BY DEF JobNext, Closed, vars

(* So what is proved of the workers holds while clients poll and wait.   *)
THEOREM JobRunsWorkers == JobSpec => MapReduceSpec
<1>1. JobInit => MapReduceInit  BY DEF JobInit, JobInitWith
<1> QED  BY <1>1, ClientStepsWorkers, PTL DEF JobSpec, MapReduceSpec

-----------------------------------------------------------------------------
(* What the proofs need of the types of the clients' variables.            *)
ClientTypeOK ==
    /\ cpc \in [Callers -> CallerPc]
    /\ {stateMutex, waitMutex} \subseteq Callers \cup {NoCaller}
    /\ flag \in BOOLEAN /\ freed \in BOOLEAN
    /\ next \in 0 .. N
    /\ joins \in [Threads -> Nat]

(* The two mutexes are held by the caller that is between lock and unlock. *)
HolderInv ==
    \A c \in Callers :
        /\ stateMutex = c <=> cpc[c] = "state"
        /\ waitMutex = c <=> cpc[c] \in {"join", "closeJoin", "unlock", "closeUnlock"}

(* Until the flag is set, the threads that have been joined are those      *)
(* below the loop index of the one caller that is in the loop.             *)
JoinInv ==
    /\ ~flag /\ waitMutex = NoCaller => \A t \in Threads : joins[t] = 0
    /\ \A c \in Callers :
          cpc[c] \in {"join", "closeJoin"} =>
              /\ ~flag
              /\ \A t \in Threads :
                    IF t < next THEN joins[t] = 1 /\ wpc[t] = "done" ELSE joins[t] = 0
    /\ flag => AllDone /\ \A t \in Threads : joins[t] = 1

(* Who has waited, or is about to unlock, has seen the flag set.           *)
FlagInv ==
    \A c \in Callers :
        cpc[c] \in {"unlock", "waited", "closeUnlock", "free"} => flag

(* The handle is closed after every other caller is through with it.       *)
CloseInv ==
    /\ \A c \in Callers \ {Closer} :
          /\ cpc[c] \notin {"close", "closeJoin", "closeUnlock", "free"}
          /\ cpc[Closer] \in {"close", "closeJoin", "closeUnlock", "free", "gone"}
                => cpc[c] = "gone"
    /\ freed <=> cpc[Closer] = "gone"
    /\ freed => flag

(* output_vec_mutex is held by a thread that is about to push.             *)
OutInv == outMutex # NoThread => outMutex \in Threads /\ wpc[outMutex] = "push"

HandleInv == HolderInv /\ JoinInv /\ FlagInv /\ CloseInv /\ OutInv

(* A client starts with the handle, or has no part in this job.            *)
Places == {p \in [Callers -> {"ready", "gone"}] : p[Closer] = "ready"}

(* A job that any client may use is one of these.                        *)
LEMMA AllReady == JobInit => \E places \in Places : JobInitWith(places)
<1>1. [c \in Callers |-> "ready"] \in Places  BY CallersAssumption DEF Places
<1> QED  BY <1>1 DEF JobInit

(* Nobody holds a mutex, waits or closes at first.                       *)
LEMMA InitHandle ==
  ASSUME NEW places \in Places, JobInitWith(places)
  PROVE  ClientTypeOK /\ HandleInv
<1> USE NAssumption, CallersAssumption DEF JobInitWith, Places
<1>1. ClientTypeOK
  <2>1. cpc \in [Callers -> CallerPc] /\ joins \in [Threads -> Nat]  BY DEF CallerPc
  <2>2. next \in 0 .. N  OBVIOUS
  <2>3. flag \in BOOLEAN /\ freed \in BOOLEAN  BY Zenon
  <2> QED  BY <2>1, <2>2, <2>3 DEF ClientTypeOK
<1>2. HolderInv /\ JoinInv /\ FlagInv  BY DEF HolderInv, JoinInv, FlagInv
<1>3. CloseInv  BY DEF CloseInv
<1>4. OutInv  BY DEF OutInv, MapReduceInit
<1> QED  BY <1>1, <1>2, <1>3, <1>4 DEF HandleInv

-----------------------------------------------------------------------------
(* A worker never goes on once it is done, and holds output_vec_mutex only *)
(* while it pushes.                                                        *)
LEMMA WorkerHandle ==
  ASSUME ControlTypeOK, OutInv, [WorkerNext \/ Returned]_workerVars
  PROVE  OutInv' /\ \A t \in Threads : wpc[t] = "done" => wpc'[t] = "done"
<1> DEFINE Goal == OutInv' /\ \A t \in Threads : wpc[t] = "done" => wpc'[t] = "done"
<1> USE DEF ControlTypeOK, OutInv
<1>1. CASE UNCHANGED workerVars  BY <1>1 DEF workerVars, dataVars
<1>2. CASE Returned  BY <1>2 DEF Returned, workerVars, dataVars
<1>3. ASSUME NEW t \in Threads, Create(t) \/ map_reduce_for_thread(t)
      PROVE  Goal
  <2> USE DEF Goto, dataVars
  <2>1. CASE Create(t) \/ MapTest(t) \/ Sort(t) \/ ReduceTest(t)
    BY <2>1 DEF Create, MapTest, Sort, ReduceTest
  <2>2. CASE AtBarrier(t) \/ LeaveBarrier(t)
    BY <2>2 DEF AtBarrier, LeaveBarrier
  <2>3. CASE StoreMax(t) \/ StoreMapStage(t) \/ MapDone(t) \/ MapFetch(t)
    BY <2>3 DEF StoreMax, StoreMapStage, MapDone, MapFetch
  <2>4. CASE emit2(t) \/ ShuffleGroup(t)
    BY <2>4 DEF emit2, ShuffleGroup
  <2>5. CASE BeginShuffle(t) \/ EndShuffle(t) \/ ReduceDone(t) \/ ReduceFetch(t)
    BY <2>5 DEF BeginShuffle, EndShuffle, ReduceDone, ReduceFetch
  <2>6. CASE emit3Lock(t)  BY <2>6 DEF emit3Lock
  <2>7. CASE emit3Push(t)
    <3>1. outMutex' = NoThread  BY <2>7 DEF emit3Push
    <3>2. \A u \in Threads : wpc[u] = "done" => wpc'[u] = "done"
      BY <2>7 DEF emit3Push
    <3> QED  BY <3>1, <3>2
  <2> QED  BY <1>3, <2>1, <2>2, <2>3, <2>4, <2>5, <2>6, <2>7
           DEF map_reduce_for_thread, MapStep, ShuffleStep, ReduceStep
<1> QED  BY <1>1, <1>2, <1>3 DEF WorkerNext

(* The steps of the workers leave the clients' invariant true.             *)
LEMMA WorkersKeepHandle ==
  ASSUME ControlTypeOK, ClientTypeOK, HandleInv,
         [WorkerNext \/ Returned]_workerVars, UNCHANGED apiVars
  PROVE  ClientTypeOK' /\ HandleInv'
<1>1. OutInv' /\ \A t \in Threads : wpc[t] = "done" => wpc'[t] = "done"
  BY WorkerHandle DEF HandleInv
<1>2. ClientTypeOK'  BY DEF ClientTypeOK, apiVars
<1>3. HolderInv' /\ FlagInv' /\ CloseInv'
  BY DEF HandleInv, HolderInv, FlagInv, CloseInv, apiVars
<1>4. JoinInv'
  BY <1>1 DEF HandleInv, JoinInv, AllDone, apiVars
<1> QED  BY <1>1, <1>2, <1>3, <1>4 DEF HandleInv

-----------------------------------------------------------------------------
(* A step of a client keeps the types.                                   *)
LEMMA ClientTypeStep ==
  ASSUME ClientTypeOK, NEW c \in Callers,
         getJobState(c) \/ waitForJob(c) \/ Call(c) \/ Free(c)
  PROVE  ClientTypeOK'
<1> USE NAssumption DEF ClientTypeOK, CallerPc, Advance, Threads
<1>1. CASE getJobState(c)  BY <1>1 DEF getJobState, ReadStage, ReadCounters
<1>2. CASE LockWait(c)  BY <1>2 DEF LockWait
<1>3. CASE Join(c)  BY <1>3 DEF Join
<1>4. CASE SetFlag(c) \/ UnlockWait(c)  BY <1>4 DEF SetFlag, UnlockWait
<1>5. CASE Call(c) \/ Free(c)
  BY <1>5 DEF Call, CallWait, Retire, CallClose, Free
<1> QED  BY <1>1, <1>2, <1>3, <1>4, <1>5 DEF waitForJob

(* Each step of a client preserves the invariant.                          *)
LEMMA ClientStep ==
  ASSUME ClientTypeOK, HandleInv, NEW c \in Callers,
         getJobState(c) \/ waitForJob(c) \/ Call(c) \/ Free(c),
         UNCHANGED workerVars
  PROVE  HandleInv'
<1> USE NAssumption, CallersAssumption DEF ClientTypeOK, CallerPc, Advance
<1>0. OutInv'  BY DEF HandleInv, OutInv, workerVars, dataVars
<1>1. AllDone' <=> AllDone  BY DEF AllDone, workerVars
<1>2. wpc' = wpc  BY DEF workerVars
<1>3. CASE ReadStage(c) \/ ReadCounters(c) \/ CallWait(c)
  <2> USE <1>3 DEF ReadStage, ReadCounters, CallWait
  <2>1. HolderInv'  BY DEF HandleInv, HolderInv
  <2>2. JoinInv'  BY <1>1, <1>2 DEF HandleInv, JoinInv
  <2>3. FlagInv'  BY DEF HandleInv, FlagInv
  <2>4. CloseInv'  BY DEF HandleInv, CloseInv
  <2> QED  BY <1>0, <2>1, <2>2, <2>3, <2>4 DEF HandleInv
<1>4. CASE LockWait(c)
  <2> USE <1>4 DEF LockWait
  <2>1. HolderInv'  BY DEF HandleInv, HolderInv
  <2>2. JoinInv'
    <3>1. \A t \in Threads : ~(t < 0)  BY DEF Threads
    <3> QED  BY <1>1, <1>2, <3>1 DEF HandleInv, HolderInv, JoinInv
  <2>3. FlagInv'  BY DEF HandleInv, FlagInv
  <2>4. CloseInv'  BY DEF HandleInv, CloseInv
  <2> QED  BY <1>0, <2>1, <2>2, <2>3, <2>4 DEF HandleInv
<1>5. CASE Join(c)
  <2> USE <1>5 DEF Join
  <2>1. HolderInv'  BY DEF HandleInv, HolderInv
  <2>2. JoinInv'
    <3>1. waitMutex = c /\ ~flag /\ cpc' = cpc  BY DEF HandleInv, HolderInv, JoinInv
    <3>2. \A t \in Threads : IF t < next' THEN joins'[t] = 1 /\ wpc[t] = "done"
                                          ELSE joins'[t] = 0
      BY DEF HandleInv, JoinInv, Threads
    <3> QED  BY <1>2, <3>1, <3>2 DEF JoinInv
  <2>3. FlagInv'  BY DEF HandleInv, FlagInv
  <2>4. CloseInv'  BY DEF HandleInv, CloseInv
  <2> QED  BY <1>0, <2>1, <2>2, <2>3, <2>4 DEF HandleInv
<1>6. CASE SetFlag(c)
  <2> USE <1>6 DEF SetFlag
  <2>1. HolderInv'  BY DEF HandleInv, HolderInv
  <2>2. JoinInv'
    <3>1. \A t \in Threads : joins[t] = 1 /\ wpc[t] = "done"
      BY DEF HandleInv, JoinInv, Threads
    <3>2. waitMutex = c  BY DEF HandleInv, HolderInv
    <3>3. \A d \in Callers : cpc'[d] \notin {"join", "closeJoin"}
      BY <3>2 DEF HandleInv, HolderInv
    <3> QED  BY <1>1, <3>1, <3>3 DEF JoinInv, AllDone
  <2>3. FlagInv'  BY DEF HandleInv, FlagInv
  <2>4. CloseInv'  BY DEF HandleInv, CloseInv
  <2> QED  BY <1>0, <2>1, <2>2, <2>3, <2>4 DEF HandleInv
<1>7. CASE UnlockWait(c)
  <2> USE <1>7 DEF UnlockWait
  <2>1. HolderInv'  BY DEF HandleInv, HolderInv
  <2>2. JoinInv'  BY <1>1, <1>2 DEF HandleInv, JoinInv, FlagInv
  <2>3. FlagInv'  BY DEF HandleInv, FlagInv
  <2>4. CloseInv'  BY DEF HandleInv, CloseInv
  <2> QED  BY <1>0, <2>1, <2>2, <2>3, <2>4 DEF HandleInv
<1>8. CASE Retire(c) \/ CallClose(c) \/ Free(c)
  <2> USE <1>8 DEF Retire, CallClose, Free
  <2>1. HolderInv'  BY DEF HandleInv, HolderInv
  <2>2. JoinInv'  BY <1>1, <1>2 DEF HandleInv, JoinInv
  <2>3. FlagInv'  BY DEF HandleInv, FlagInv
  <2>4. CloseInv'  BY DEF HandleInv, CloseInv, FlagInv
  <2> QED  BY <1>0, <2>1, <2>2, <2>3, <2>4 DEF HandleInv
<1> QED  BY <1>3, <1>4, <1>5, <1>6, <1>7, <1>8 DEF getJobState, waitForJob, Call

(* Every step preserves the invariant.                                     *)
LEMMA HandleStep ==
  ASSUME ControlTypeOK, ClientTypeOK, HandleInv, [JobNext]_vars
  PROVE  ClientTypeOK' /\ HandleInv'
<1>1. CASE (WorkerNext /\ UNCHANGED apiVars) \/ Closed \/ UNCHANGED vars
  BY <1>1, WorkersKeepHandle DEF Closed, vars
<1>2. ASSUME NEW c \in Callers,
             getJobState(c) \/ waitForJob(c) \/ Call(c) \/ Free(c),
             UNCHANGED workerVars
      PROVE  ClientTypeOK' /\ HandleInv'
  BY <1>2, ClientTypeStep, ClientStep
<1> QED  BY <1>1, <1>2 DEF JobNext

-----------------------------------------------------------------------------
(* The inductive invariant of the handle.                                  *)
THEOREM HandleInvariant == JobSpec => [](ClientTypeOK /\ HandleInv)
<1>1. JobInit => ClientTypeOK /\ HandleInv  BY AllReady, InitHandle
<1>2. ControlTypeOK /\ (ClientTypeOK /\ HandleInv) /\ [JobNext]_vars
        => (ClientTypeOK /\ HandleInv)'
  BY HandleStep
<1> QED  BY <1>1, <1>2, JobRunsWorkers, WorkerInvariant, PTL DEF JobSpec

(* However many callers wait or close, pthread_join is called at most once *)
(* for each thread (lines 347-372).                                        *)
THEOREM EachJoinedOnce == JobSpec => []JoinedOnce
<1>1. ClientTypeOK /\ HandleInv => JoinedOnce
  <2> SUFFICES ASSUME ClientTypeOK, HandleInv, NEW t \in Threads
               PROVE  joins[t] <= 1
    BY DEF JoinedOnce
  <2>1. CASE flag  BY <2>1 DEF HandleInv, JoinInv
  <2>2. CASE ~flag /\ waitMutex = NoCaller  BY <2>2 DEF HandleInv, JoinInv
  <2>3. CASE ~flag /\ waitMutex \in Callers
    <3>1. cpc[waitMutex] \in {"join", "closeJoin"}
      BY <2>3 DEF HandleInv, HolderInv, FlagInv
    <3> QED  BY <2>3, <3>1 DEF HandleInv, JoinInv
  <2> QED  BY <2>1, <2>2, <2>3 DEF ClientTypeOK
<1> QED  BY <1>1, HandleInvariant, PTL

(* A caller whose wait has returned, and the one that frees the job, find  *)
(* all threads done (lines 347-372).                                       *)
THEOREM WaitMeansDone == JobSpec => []WaitedMeansDone
<1>1. HandleInv => WaitedMeansDone
  BY DEF HandleInv, FlagInv, JoinInv, WaitedMeansDone
<1> QED  BY <1>1, HandleInvariant, PTL

(* When closeJobHandle deletes the job, no thread runs and nobody holds a  *)
(* mutex or can take one (lines 375-404).                                  *)
THEOREM FreedIsUnused == JobSpec => []FreedUnused
<1>1. BarrierTypeOK /\ BarrierInv /\ (ControlTypeOK /\ WorkerInv)
        /\ (ClientTypeOK /\ HandleInv) => FreedUnused
  <2> SUFFICES ASSUME BarrierTypeOK, BarrierInv, ControlTypeOK, WorkerInv,
                      ClientTypeOK, HandleInv, freed \/ cpc[Closer] = "free"
               PROVE  /\ AllDone /\ mutex = NoThread /\ outMutex = NoThread
                      /\ stateMutex = NoCaller /\ waitMutex = NoCaller
    BY DEF FreedUnused
  <2> USE CallersAssumption
  <2>1. AllDone  BY DEF HandleInv, CloseInv, FlagInv, JoinInv
  <2>2. outMutex = NoThread  BY <2>1 DEF HandleInv, OutInv, AllDone
  <2>3. mutex = NoThread
    <3>1. \A t \in Threads : bpc[t] = "out"
      BY <2>1 DEF WorkerInv, ControlInv, AllDone
    <3> QED  BY <3>1 DEF BarrierTypeOK, BarrierInv, MutexInv, HoldsMutex
  <2>4. \A c \in Callers : cpc[c] \in {"free", "gone"}
    BY DEF HandleInv, CloseInv
  <2> QED  BY <2>1, <2>2, <2>3, <2>4 DEF ClientTypeOK, HandleInv, HolderInv
<1> QED  BY <1>1, HandleInvariant, JobRunsWorkers, WorkerInvariant, JobDrivesBarrier,
            TypeCorrect, Invariant, PTL

-----------------------------------------------------------------------------
(* A thread has stored the maximum before it goes on to the stage.         *)
MaxInv ==
    /\ job.stage # UNDEFINED => job.maxForMap = Inputs
    /\ \A t \in Threads : wpc[t] \notin {"none", "start"} => job.maxForMap = Inputs

Later(j, k) ==
    /\ k.stage >= j.stage
    /\ k.mapFinished >= j.mapFinished
    /\ k.shuffleFinished >= j.shuffleFinished
    /\ k.reduceFinished >= j.reduceFinished

(* The updates of the job that are progress.                               *)
LEMMA LaterJob ==
  ASSUME NEW j \in JobType, NEW n \in Nat
  PROVE  /\ Later(j, j)
         /\ Later(j, [j EXCEPT !.maxForMap = n])
         /\ Later(j, [j EXCEPT !.inputCounter = n])
         /\ Later(j, [j EXCEPT !.maxForShuffle = n])
         /\ Later(j, [j EXCEPT !.interCounter = n])
         /\ Later(j, [j EXCEPT !.mapFinished = j.mapFinished + 1])
         /\ Later(j, [j EXCEPT !.shuffleFinished = j.shuffleFinished + 1])
         /\ Later(j, [j EXCEPT !.reduceFinished = j.reduceFinished + n])
         /\ \A s \in Stages : s >= j.stage => Later(j, [j EXCEPT !.stage = s])
<1> USE DEF JobType, Stages, UNDEFINED, REDUCE, Later
<1>1. /\ Later(j, j)
      /\ Later(j, [j EXCEPT !.maxForMap = n])
      /\ Later(j, [j EXCEPT !.inputCounter = n])
      /\ Later(j, [j EXCEPT !.maxForShuffle = n])
      /\ Later(j, [j EXCEPT !.interCounter = n])
  OBVIOUS
<1>2. /\ Later(j, [j EXCEPT !.mapFinished = j.mapFinished + 1])
      /\ Later(j, [j EXCEPT !.shuffleFinished = j.shuffleFinished + 1])
      /\ Later(j, [j EXCEPT !.reduceFinished = j.reduceFinished + n])
  OBVIOUS
<1>3. \A s \in Stages : s >= j.stage => Later(j, [j EXCEPT !.stage = s])  OBVIOUS
<1> QED  BY <1>1, <1>2, <1>3

(* No step of a worker takes the stage or a counter back.                  *)
LEMMA WorkersProgress ==
  ASSUME ControlTypeOK, WorkerInv, DataInv, MaxInv, [WorkerNext \/ Returned]_workerVars
  PROVE  Later(job, job') /\ MaxInv'
<1>0. /\ job \in JobType /\ wpc \in [Threads -> WorkerPc] /\ Inputs \in Nat
      /\ Main \in Threads /\ PhaseInv /\ ControlInv
  BY NAssumption, InputsType DEF ControlTypeOK, DataInv, DataTypeOK, Main, Threads, WorkerInv
<1> DEFINE unstored == \A u \in Threads : wpc'[u] \notin {"none", "start"}
                                              => wpc[u] \notin {"none", "start"}
<1>1. CASE UNCHANGED workerVars
  <2>1. UNCHANGED <<job, wpc>>  BY <1>1 DEF workerVars
  <2> QED  BY <1>0, <2>1, LaterJob DEF MaxInv
<1>2. CASE Returned
  <2>1. UNCHANGED <<job, wpc>>  BY <1>2 DEF Returned, workerVars
  <2> QED  BY <1>0, <2>1, LaterJob DEF MaxInv
<1>3. ASSUME NEW t \in Threads, Create(t) \/ map_reduce_for_thread(t)
      PROVE  Later(job, job') /\ MaxInv'
  <2>0. /\ job.maxForShuffle + 1 \in Nat /\ job.inputCounter + 1 \in Nat
        /\ job.interCounter + 1 \in Nat
        /\ job.stage \in Stages
    BY <1>0 DEF JobType
  <2>1. CASE UNCHANGED <<job>> /\ unstored  BY <1>0, <2>1, LaterJob DEF MaxInv
  <2>2. CASE Create(t) \/ MapTest(t) \/ ReduceTest(t) \/ AtBarrier(t) \/ LeaveBarrier(t)
    <3>1. unstored
      BY <1>0, <2>2 DEF Create, MapTest, ReduceTest, AtBarrier, LeaveBarrier, Goto
    <3>2. UNCHANGED <<job>>
      BY <2>2 DEF Create, MapTest, ReduceTest, AtBarrier, LeaveBarrier
    <3> QED  BY <2>1, <3>1, <3>2
  <2>3. CASE Sort(t) \/ emit3Lock(t) \/ emit3Push(t)
    <3>1. \/ Goto(t, "sort", "barrier1")
          \/ Goto(t, "reduce", "push")
          \/ Goto(t, "push", "reduced")
      BY <2>3 DEF Sort, emit3Lock, emit3Push
    <3>2. unstored  BY <1>0, <3>1 DEF Goto
    <3>3. UNCHANGED <<job>>  BY <2>3 DEF Sort, emit3Lock, emit3Push
    <3> QED  BY <2>1, <3>2, <3>3
  <2>4. CASE StoreMax(t)
    <3>1. job' = [job EXCEPT !.maxForMap = Inputs]  BY <2>4 DEF StoreMax
    <3>2. Later(job, job')  BY <1>0, <3>1, LaterJob
    <3>3. job'.maxForMap = Inputs  BY <1>0, <3>1 DEF JobType
    <3> QED  BY <3>2, <3>3 DEF MaxInv
  <2>5. CASE StoreMapStage(t)
    <3>1. job' = [job EXCEPT !.stage = MAP] /\ wpc[t] = "stage"
      BY <2>5 DEF StoreMapStage, Goto
    <3>2. job.stage \notin {SHUFFLE, REDUCE}
      BY <1>0, <3>1 DEF PhaseInv, PhaseThread, Unsorted, Mapping
    <3>3. MAP >= job.stage /\ MAP \in Stages
      BY <2>0, <3>2 DEF Stages, UNDEFINED, MAP, SHUFFLE, REDUCE
    <3>4. Later(job, job')
      <4>1. \A s \in Stages : s >= job.stage => Later(job, [job EXCEPT !.stage = s])
        BY <1>0, LaterJob
      <4> QED  BY <3>1, <3>3, <4>1
    <3>5. job'.maxForMap = Inputs
      <4>1. job'.maxForMap = job.maxForMap  BY <1>0, <3>1 DEF JobType
      <4> QED  BY <3>1, <4>1 DEF MaxInv
    <3> QED  BY <3>4, <3>5 DEF MaxInv
  <2>6. CASE BeginShuffle(t) \/ EndShuffle(t)
    <3>1. /\ wpc[t] \in {"toShuffle", "shuffle"}
          /\ \/ job' = [job EXCEPT !.stage = SHUFFLE]
             \/ job' = [job EXCEPT !.stage = REDUCE]
      BY <1>0, <2>6 DEF BeginShuffle, EndShuffle, Goto
    <3>2. t = Main  BY <1>0, <3>1 DEF ControlInv
    <3>3. job.stage # REDUCE  BY <1>0, <3>1, <3>2 DEF PhaseInv, PhaseMain, AfterShuffle, Reducing
    <3>4. /\ SHUFFLE >= job.stage /\ REDUCE >= job.stage
          /\ SHUFFLE \in Stages /\ REDUCE \in Stages
      BY <2>0, <3>3 DEF Stages, UNDEFINED, SHUFFLE, REDUCE
    <3>5. Later(job, job')
      <4>1. \A s \in Stages : s >= job.stage => Later(job, [job EXCEPT !.stage = s])
        BY <1>0, LaterJob
      <4> QED  BY <3>1, <3>4, <4>1
    <3>6. job'.maxForMap = Inputs
      <4>1. job'.maxForMap = job.maxForMap  BY <1>0, <3>1 DEF JobType
      <4> QED  BY <3>1, <4>1 DEF MaxInv
    <3> QED  BY <3>5, <3>6 DEF MaxInv
  <2>7. CASE \/ MapFetch(t) \/ emit2(t) \/ MapDone(t) \/ ShuffleGroup(t)
             \/ ReduceFetch(t) \/ ReduceDone(t)
    <3>1. unstored
      <4>1. CASE MapFetch(t)  BY <1>0, <4>1 DEF MapFetch, Goto
      <4>2. CASE emit2(t) \/ ShuffleGroup(t)
        <5>1. wpc' = wpc  BY <4>2 DEF emit2, ShuffleGroup
        <5> QED  BY <5>1
      <4>3. CASE MapDone(t)  BY <1>0, <4>3 DEF MapDone, Goto
      <4>4. CASE ReduceFetch(t) \/ ReduceDone(t)
        BY <1>0, <4>4 DEF ReduceFetch, ReduceDone, Goto
      <4> QED  BY <2>7, <4>1, <4>2, <4>3, <4>4
    <3>2. \/ job' = [job EXCEPT !.inputCounter = job.inputCounter + 1]
          \/ job' = [job EXCEPT !.maxForShuffle = job.maxForShuffle + 1]
          \/ job' = [job EXCEPT !.mapFinished = job.mapFinished + 1]
          \/ job' = [job EXCEPT !.shuffleFinished = job.shuffleFinished + 1]
          \/ job' = [job EXCEPT !.interCounter = job.interCounter + 1]
          \/ \E n \in Nat : job' = [job EXCEPT !.reduceFinished = job.reduceFinished + n]
      <4>1. CASE ReduceDone(t)
        <5>1. Len(groups[my[t] + 1]) \in Nat
          <6>1. wpc[t] = "reduced"  BY <4>1 DEF ReduceDone, Goto
          <6>2. my[t] < Len(groups)
            BY <6>1 DEF DataInv, ClaimedInv, ClaimedThread, Reducing
          <6>3. my[t] \in Nat /\ groups \in Seq(Seq(AllPairs))
            BY DEF ControlTypeOK, DataInv, DataTypeOK
          <6>4. my[t] + 1 \in 1 .. Len(groups)  BY <6>2, <6>3
          <6> QED  BY <6>3, <6>4
        <5>2. job' = [job EXCEPT !.reduceFinished = job.reduceFinished + Len(groups[my[t] + 1])]
          BY <4>1 DEF ReduceDone
        <5> QED  BY <5>1, <5>2
      <4>2. CASE ~ ReduceDone(t)
        BY <2>7, <4>2 DEF MapFetch, emit2, MapDone, ShuffleGroup, ReduceFetch
      <4> QED  BY <4>1, <4>2
    <3>3. Later(job, job')  BY <1>0, <2>0, <3>2, LaterJob
    <3>4. job'.maxForMap = job.maxForMap /\ job'.stage = job.stage
      BY <1>0, <3>2 DEF JobType
    <3> QED  BY <3>1, <3>3, <3>4 DEF MaxInv
  <2> QED  BY <1>3, <2>2, <2>3, <2>4, <2>5, <2>6, <2>7
           DEF map_reduce_for_thread, MapStep, ShuffleStep, ReduceStep
<1> QED  BY <1>1, <1>2, <1>3 DEF WorkerNext

-----------------------------------------------------------------------------
ReportType == [stage : Stages, num : Nat, den : Nat]

ReportTypeOK == seen \in [Callers -> Stages] /\ report \in [Callers -> ReportType]

(* What a report says of its stage was so when it was made, and the        *)
(* maximum it was made with is the one all reports of the stage use.       *)
UpTo(j, r) ==
    /\ r.stage = UNDEFINED => r.num = 0 /\ r.den = 1
    /\ r.stage = MAP => r.num <= j.mapFinished /\ r.den = Inputs
    /\ r.stage = SHUFFLE => r.num <= j.shuffleFinished /\ r.den = Cardinality(AllPairs)
    /\ r.stage = REDUCE => r.num <= j.reduceFinished /\ r.den = Cardinality(AllPairs)

ReportInv ==
    \A c \in Callers :
        /\ report[c].stage <= seen[c] /\ seen[c] <= job.stage
        /\ UpTo(job, report[c])

ProgressInv == MaxInv /\ ReportTypeOK /\ ReportInv

(* No thread has stored anything, and nobody was told anything.            *)
LEMMA InitProgress ==
  ASSUME NEW places \in Places, JobInitWith(places)
  PROVE  ProgressInv
<1>1. /\ seen = [c \in Callers |-> UNDEFINED]
      /\ report = [c \in Callers |-> Fraction(UNDEFINED, 0, 1)]
      /\ job.stage = UNDEFINED /\ \A t \in Threads : wpc[t] = "none"
  BY DEF JobInitWith, MapReduceInit
<1>2. MaxInv  BY <1>1 DEF MaxInv
<1>3. UNDEFINED \in Stages /\ UNDEFINED <= UNDEFINED  BY DEF Stages, UNDEFINED, REDUCE
<1>4. Fraction(UNDEFINED, 0, 1) \in ReportType  BY <1>3 DEF Fraction, ReportType
<1>5. ReportTypeOK  BY <1>1, <1>3, <1>4 DEF ReportTypeOK
<1>6. UpTo(job, Fraction(UNDEFINED, 0, 1))
  BY DEF UpTo, Fraction, UNDEFINED, MAP, SHUFFLE, REDUCE
<1>7. Fraction(UNDEFINED, 0, 1).stage = UNDEFINED  BY DEF Fraction
<1>8. ReportInv  BY <1>1, <1>3, <1>6, <1>7 DEF ReportInv
<1> QED  BY <1>2, <1>5, <1>8 DEF ProgressInv

(* What getJobState computes for a stage that was reached.                 *)
Counted(s) ==
    CASE s = UNDEFINED -> 0
      [] s = MAP -> job.mapFinished
      [] s = SHUFFLE -> job.shuffleFinished
      [] s = REDUCE -> job.reduceFinished

LEMMA PercentageIs ==
  ASSUME DataInv, MaxInv, NEW s \in Stages, s <= job.stage
  PROVE  /\ Percentage(s) \in ReportType
         /\ Percentage(s).stage = s
         /\ Percentage(s).num = Counted(s)
         /\ UpTo(job, Percentage(s))
<1>0. /\ job.stage \in Stages /\ job.maxForMap \in Nat /\ job.maxForShuffle \in Nat
      /\ job.mapFinished \in Nat /\ job.shuffleFinished \in Nat /\ job.reduceFinished \in Nat
  <2>1. job \in JobType  BY DEF DataInv, DataTypeOK
  <2> QED  BY <2>1 DEF JobType
<1>1. s \in {UNDEFINED, MAP, SHUFFLE, REDUCE}
  BY DEF Stages, UNDEFINED, MAP, SHUFFLE, REDUCE
<1>2. s # UNDEFINED => job.maxForMap = Inputs
  BY <1>0 DEF MaxInv, Stages, UNDEFINED, REDUCE
<1>3. s \in {SHUFFLE, REDUCE} => job.maxForShuffle = Cardinality(AllPairs)
  <2>1. s \in {SHUFFLE, REDUCE} => job.stage \in {SHUFFLE, REDUCE}
    BY <1>0 DEF Stages, UNDEFINED, SHUFFLE, REDUCE
  <2> QED  BY <2>1, AllPlaced DEF DataInv, PlacedInv
<1> USE DEF Percentage, Fraction, ReportType, Counted, UpTo
<1>4. CASE s = UNDEFINED
  BY <1>4 DEF UNDEFINED, MAP, SHUFFLE, REDUCE
<1>5. CASE s = MAP
  BY <1>0, <1>2, <1>5 DEF UNDEFINED, MAP, SHUFFLE, REDUCE
<1>6. CASE s = SHUFFLE
  BY <1>0, <1>3, <1>6 DEF UNDEFINED, MAP, SHUFFLE, REDUCE
<1>7. CASE s = REDUCE
  BY <1>0, <1>3, <1>7 DEF UNDEFINED, MAP, SHUFFLE, REDUCE
<1> QED  BY <1>1, <1>4, <1>5, <1>6, <1>7

(* A report stays true of its stage while the job goes on.                 *)
LEMMA UpToLater ==
  ASSUME NEW j \in JobType, NEW k \in JobType, Later(j, k), NEW r \in ReportType, UpTo(j, r)
  PROVE  UpTo(k, r)
<1>2. /\ j.mapFinished \in Nat /\ j.shuffleFinished \in Nat /\ j.reduceFinished \in Nat
      /\ k.mapFinished \in Nat /\ k.shuffleFinished \in Nat /\ k.reduceFinished \in Nat
  BY DEF JobType
<1>3. r.num \in Nat  BY DEF ReportType
<1> QED  BY <1>2, <1>3 DEF UpTo, Later

(* A later report of the same stage has the same maximum.                  *)
Ahead(new, old) ==
    \/ new.stage > old.stage
    \/ new.stage = old.stage /\ new.den = old.den /\ new.num >= old.num

(* Which is not before, in the sense of the tests.                         *)
LEMMA AheadNotBefore ==
  ASSUME NEW new \in ReportType, NEW old \in ReportType, Ahead(new, old)
  PROVE  NotBefore(new, old)
<1>1. new.num \in Nat /\ new.den \in Nat /\ old.num \in Nat /\ old.den \in Nat
  BY DEF ReportType
<1>2. new.num >= old.num => new.num * old.den >= old.num * old.den
  BY <1>1, TimesMonotone
<1> QED  BY <1>2 DEF Ahead, NotBefore

(* Each call that reads the counters reports no less than the one before;  *)
(* no other step changes a report.                                         *)
LEMMA ProgressStep ==
  ASSUME ControlTypeOK, WorkerInv, DataInv, DataInv', ProgressInv, [JobNext]_vars
  PROVE  ProgressInv' /\ \A c \in Callers : Ahead(report'[c], report[c])
<1>0. /\ MaxInv /\ ReportTypeOK /\ ReportInv
      /\ job \in JobType /\ job' \in JobType
      /\ job.stage \in Stages /\ job'.stage \in Stages
  <2>1. job \in JobType /\ job' \in JobType  BY DEF DataInv, DataTypeOK
  <2> QED  BY <2>1 DEF ProgressInv, DataInv, JobType
<1>1. ASSUME NEW r \in ReportType  PROVE Ahead(r, r)
  <2>1. r.num \in Nat /\ r.den \in Nat  BY DEF ReportType
  <2> QED  BY <2>1 DEF Ahead
<1>2. CASE UNCHANGED apiVars /\ [WorkerNext \/ Returned]_workerVars
  <2>1. Later(job, job') /\ MaxInv'  BY <1>0, <1>2, WorkersProgress
  <2>2. UNCHANGED <<seen, report>>  BY <1>2 DEF apiVars
  <2>3. ReportTypeOK'  BY <1>0, <2>2 DEF ReportTypeOK
  <2>4. ReportInv'
    <3> SUFFICES ASSUME NEW c \in Callers
                 PROVE  /\ report[c].stage <= seen[c] /\ seen[c] <= job'.stage
                        /\ UpTo(job', report[c])
      BY <2>2 DEF ReportInv
    <3>1. report[c] \in ReportType /\ seen[c] \in Stages  BY <1>0 DEF ReportTypeOK
    <3>2. UpTo(job', report[c])  BY <1>0, <2>1, <3>1, UpToLater DEF ReportInv
    <3>3. seen[c] <= job'.stage
      BY <1>0, <2>1, <3>1 DEF ReportInv, Later, Stages, UNDEFINED, REDUCE
    <3> QED  BY <1>0, <3>2, <3>3 DEF ReportInv
  <2>5. \A c \in Callers : Ahead(report'[c], report[c])
    BY <1>0, <1>1, <2>2 DEF ReportTypeOK
  <2> QED  BY <2>1, <2>3, <2>4, <2>5 DEF ProgressInv
<1>3. ASSUME NEW c \in Callers, getJobState(c) \/ waitForJob(c) \/ Call(c) \/ Free(c),
             UNCHANGED workerVars
      PROVE  ProgressInv' /\ \A d \in Callers : Ahead(report'[d], report[d])
  <2>1. UNCHANGED <<job, wpc>>  BY <1>3 DEF workerVars
  <2>2. MaxInv'  BY <1>0, <2>1 DEF MaxInv
  <2>3. \A d \in Callers : report[d] \in ReportType /\ seen[d] \in Stages
    BY <1>0 DEF ReportTypeOK
  <2>5. CASE ReadStage(c)
    <3>1. report' = report /\ seen' = [seen EXCEPT ![c] = job.stage]
      BY <2>5 DEF ReadStage
    <3>2. ReportTypeOK'  BY <1>0, <3>1 DEF ReportTypeOK
    <3>3. ReportInv'
      <4> SUFFICES ASSUME NEW d \in Callers
                   PROVE  /\ report[d].stage <= seen'[d] /\ seen'[d] <= job.stage
                          /\ UpTo(job, report[d])
        BY <2>1, <3>1 DEF ReportInv
      <4>1. report[d].stage <= seen[d] /\ seen[d] <= job.stage /\ UpTo(job, report[d])
        BY <1>0 DEF ReportInv
      <4>2. report[d].stage \in Int /\ seen[d] \in Int /\ job.stage \in Int
        BY <1>0, <2>3 DEF ReportType, Stages, UNDEFINED, REDUCE
      <4>3. seen'[d] = seen[d] \/ seen'[d] = job.stage  BY <1>0, <3>1 DEF ReportTypeOK
      <4> QED  BY <4>1, <4>2, <4>3
    <3>4. \A d \in Callers : Ahead(report'[d], report[d])  BY <1>1, <2>3, <3>1
    <3> QED  BY <2>2, <3>2, <3>3, <3>4 DEF ProgressInv
  <2>6. CASE ReadCounters(c)
    <3> DEFINE s == seen[c]
               new == Percentage(s)
               old == report[c]
    <3>1. seen' = seen /\ report' = [report EXCEPT ![c] = new]
      BY <2>6 DEF ReadCounters
    <3>2. s \in Stages /\ s <= job.stage /\ old.stage <= s /\ UpTo(job, old) /\ old \in ReportType
      BY <1>0, <2>3 DEF ReportInv
    <3>3. /\ new \in ReportType /\ new.stage = s /\ new.num = Counted(s) /\ UpTo(job, new)
      BY <1>0, <3>2, PercentageIs
    <3> HIDE DEF s, new, old
    <3>4. ReportTypeOK'  BY <1>0, <3>1, <3>3 DEF ReportTypeOK
    <3>5. ReportInv'
      <4> SUFFICES ASSUME NEW d \in Callers
                   PROVE  /\ report'[d].stage <= seen[d] /\ seen[d] <= job.stage
                          /\ UpTo(job, report'[d])
        BY <2>1, <3>1 DEF ReportInv
      <4>1. CASE d = c
        <5>1. report'[d] = new  BY <1>0, <3>1, <4>1 DEF ReportTypeOK
        <5>2. new.stage <= seen[d]
          <6>1. s \in Int  BY <3>2 DEF Stages, UNDEFINED, REDUCE
          <6> QED  BY <3>3, <4>1, <6>1 DEF s
        <5> QED  BY <3>2, <3>3, <4>1, <5>1, <5>2 DEF s
      <4>2. CASE d # c
        <5>1. report'[d] = report[d]  BY <1>0, <3>1, <4>2 DEF ReportTypeOK
        <5> QED  BY <1>0, <5>1 DEF ReportInv
      <4> QED  BY <4>1, <4>2
    <3>6. Ahead(new, old)
      <4>0. /\ new.num \in Nat /\ old.num \in Nat /\ old.den \in Nat /\ new.den \in Nat
            /\ s \in Int /\ old.stage \in Int
        BY <3>2, <3>3 DEF ReportType, Stages, UNDEFINED, REDUCE
      <4>1. CASE s > old.stage  BY <3>3, <4>1 DEF Ahead
      <4>2. CASE s = old.stage
        <5>1. s \in {UNDEFINED, MAP, SHUFFLE, REDUCE}
          BY <3>2 DEF Stages, UNDEFINED, MAP, SHUFFLE, REDUCE
        <5>2. new.den = old.den  BY <3>2, <3>3, <4>2, <5>1 DEF UpTo
        <5>3. new.num >= old.num
          <6>1. old.num <= Counted(s)
            BY <3>2, <4>0, <4>2, <5>1 DEF UpTo, Counted, UNDEFINED, MAP, SHUFFLE, REDUCE
          <6> QED  BY <3>3, <4>0, <6>1
        <5> QED  BY <3>3, <4>2, <5>2, <5>3 DEF Ahead
      <4> QED  BY <3>2, <4>0, <4>1, <4>2
    <3>7. \A d \in Callers : Ahead(report'[d], report[d])
      <4> TAKE d \in Callers
      <4>1. CASE d = c
        <5>1. report'[d] = new  BY <1>0, <3>1, <4>1 DEF ReportTypeOK
        <5> QED  BY <3>6, <4>1, <5>1 DEF old
      <4>2. CASE d # c
        <5>1. report'[d] = report[d]  BY <1>0, <3>1, <4>2 DEF ReportTypeOK
        <5> QED  BY <1>1, <2>3, <5>1
      <4> QED  BY <4>1, <4>2
    <3> QED  BY <2>2, <3>4, <3>5, <3>7 DEF ProgressInv
  <2>7. CASE UNCHANGED <<seen, report>>
    <3>1. ReportTypeOK' /\ ReportInv'
      BY <1>0, <2>1, <2>7 DEF ReportTypeOK, ReportInv
    <3>2. \A d \in Callers : Ahead(report'[d], report[d])  BY <1>1, <2>3, <2>7
    <3> QED  BY <2>2, <3>1, <3>2 DEF ProgressInv
  <2> QED
    BY <1>3, <2>5, <2>6, <2>7
    DEF getJobState, waitForJob, Call, LockWait, Join, SetFlag, UnlockWait, CallWait, Retire,
        CallClose, Free
<1>4. CASE Closed \/ UNCHANGED vars  BY <1>2, <1>4 DEF Closed, vars
<1> QED  BY <1>2, <1>3, <1>4 DEF JobNext

(* The inductive invariant of the reports.                                 *)
THEOREM ProgressInvariant == JobSpec => []ProgressInv
<1>1. (ControlTypeOK /\ WorkerInv) /\ DataInv /\ DataInv' /\ ProgressInv /\ [JobNext]_vars
        => ProgressInv'
  BY ProgressStep
<1>2. JobInit => ProgressInv  BY AllReady, InitProgress
<1> QED
  BY <1>1, <1>2, JobRunsWorkers, WorkerInvariant, DataInvariant, PTL DEF JobSpec

(* The whole state of a job and its clients stays well typed.              *)
THEOREM JobTypeCorrect == JobSpec => []JobTypeOK
<1>1. MapReduceTypeOK /\ (ClientTypeOK /\ HandleInv) /\ ProgressInv => JobTypeOK
  BY DEF ClientTypeOK, ProgressInv, ReportTypeOK, ReportType, JobTypeOK
<1> QED
  BY <1>1, JobRunsWorkers, MapReduceTypeCorrect, HandleInvariant, ProgressInvariant, PTL

(* For every number of workers and clients and every input, successive     *)
(* JobStates seen by one caller never go back in stage or percentage.      *)
THEOREM ProgressIsMonotone == JobSpec => ProgressMonotone
<1>1. (ControlTypeOK /\ WorkerInv) /\ DataInv /\ DataInv' /\ ProgressInv /\ [JobNext]_vars
           /\ ProgressInv'
        => [\A c \in Callers : NotBefore(report'[c], report[c])]_vars
  <2> SUFFICES ASSUME ControlTypeOK, WorkerInv, DataInv, DataInv', ProgressInv, ProgressInv',
                      [JobNext]_vars, NEW c \in Callers
               PROVE  NotBefore(report'[c], report[c])
    OBVIOUS
  <2>1. report'[c] \in ReportType /\ report[c] \in ReportType
    BY DEF ProgressInv, ReportTypeOK
  <2> QED  BY <2>1, ProgressStep, AheadNotBefore
<1> QED
  BY <1>1, ProgressInvariant, JobRunsWorkers, WorkerInvariant, DataInvariant, PTL
  DEF JobSpec, ProgressMonotone

-----------------------------------------------------------------------------
(* reduceFinished reaches the number of pairs with the last group only.    *)
LEMMA AllFinished ==
  ASSUME DataInv, job.stage = REDUCE, job.reduceFinished >= Cardinality(AllPairs)
  PROVE  Pushed = 1 .. Len(groups)
<1> DEFINE U == UNION {ToSet(groups[i]) : i \in Finished}
<1>0. DataTypeOK /\ PhaseInv /\ OwnInv /\ PlacedInv /\ GroupInv /\ FinishedInv
  BY DEF DataInv
<1>1. Placed = AllPairs /\ IsFiniteSet(AllPairs)  BY <1>0, AllPlaced DEF PlacedInv
<1>2. Finished \subseteq Pushed /\ Pushed \subseteq 1 .. Len(groups)  BY <1>0, PushedFinite
<1>3. U \subseteq AllPairs  BY <1>1, <1>2 DEF Placed, Grouped
<1>4. job.reduceFinished = Cardinality(U)  BY <1>0 DEF FinishedInv
<1>5. U = AllPairs
  <2> HIDE DEF U
  <2>1. IsFiniteSet(U) /\ Cardinality(U) <= Cardinality(AllPairs)
        /\ (Cardinality(AllPairs) = Cardinality(U) => U = AllPairs)
    BY <1>1, <1>3, FS_Subset
  <2>2. Cardinality(U) \in Nat /\ Cardinality(AllPairs) \in Nat
    BY <1>1, <2>1, FS_CardinalityType
  <2> QED  BY <1>4, <2>1, <2>2
<1>6. ASSUME NEW i \in 1 .. Len(groups)  PROVE i \in Finished
  <2>1. Head(groups[i]) \in ToSet(groups[i]) /\ Head(groups[i]) \in AllPairs
    BY <1>0, GroupResult
  <2>2. PICK k \in Finished : Head(groups[i]) \in ToSet(groups[k])  BY <1>5, <2>1
  <2>3. k \in 1 .. Len(groups)  BY <1>2
  <2>4. i # k => ToSet(groups[i]) \cap ToSet(groups[k]) = {}
    BY <1>0, <2>3 DEF OwnInv, Apart
  <2> QED  BY <2>1, <2>2, <2>4
<1> QED  BY <1>2, <1>6

(* For every number of workers and clients and every input, a caller that  *)
(* is told that REDUCE is at 100% finds the whole output.                  *)
THEOREM HundredIsOutput == JobSpec => []HundredMeansOutput
<1>1. ASSUME DataInv, ProgressInv, NEW c \in Callers, HundredPercent(report[c])
      PROVE  ToSet(output) = Expected
  <2> DEFINE r == report[c]
  <2>0. /\ r.stage = REDUCE /\ r.num = r.den
        /\ r.stage <= seen[c] /\ seen[c] <= job.stage /\ UpTo(job, r)
    BY <1>1 DEF HundredPercent, ProgressInv, ReportInv
  <2>1. job.stage = REDUCE
    <3>1. job.stage \in Stages /\ seen[c] \in Stages
      <4>1. job \in JobType  BY <1>1 DEF DataInv, DataTypeOK
      <4> QED  BY <1>1, <4>1 DEF JobType, ProgressInv, ReportTypeOK
    <3> QED  BY <2>0, <3>1 DEF Stages, UNDEFINED, REDUCE
  <2>2. Cardinality(AllPairs) <= job.reduceFinished  BY <2>0 DEF UpTo
  <2>3. job.reduceFinished \in Nat /\ r.den \in Nat /\ r.den = Cardinality(AllPairs)
    <3>1. job \in JobType /\ r \in ReportType
      BY <1>1 DEF DataInv, DataTypeOK, ProgressInv, ReportTypeOK
    <3> QED  BY <2>0, <3>1 DEF JobType, ReportType, UpTo
  <2>4. job.reduceFinished >= Cardinality(AllPairs)  BY <2>2, <2>3
  <2> QED  BY <1>1, <2>1, <2>4, AllFinished, AllReduced
<1>2. DataInv /\ ProgressInv => HundredMeansOutput  BY <1>1 DEF HundredMeansOutput
<1> QED  BY <1>2, JobRunsWorkers, DataInvariant, ProgressInvariant, PTL

-----------------------------------------------------------------------------
(* Of the threads that are not created, the first can be.                  *)
LEMMA CreatorGoes ==
  ASSUME ControlTypeOK, NEW t \in Threads, wpc[t] = "none"
  PROVE  \E u \in Threads : WorkerCanGo(u)
<1> DEFINE S == {u \in Threads : wpc[u] = "none"}
<1>1. S \in SUBSET Nat /\ S # {}  BY NAssumption DEF Threads
<1>2. PICK u \in S : \A v \in S : u <= v  BY <1>1, LeastElement
<1>3. \A v \in Threads : v < u => wpc[v] # "none"
  <2> SUFFICES ASSUME NEW v \in Threads, v < u, wpc[v] = "none"  PROVE FALSE  OBVIOUS
  <2>1. u <= v /\ u \in Nat /\ v \in Nat  BY <1>1, <1>2
  <2> QED  BY <2>1
<1> QED  BY <1>2, <1>3 DEF WorkerCanGo

(* Who holds the barrier's mutex or output_vec_mutex can go.               *)
LEMMA HoldersGo ==
  ASSUME BarrierTypeOK, BarrierInv, ControlTypeOK, ControlInv, OutInv
  PROVE  /\ mutex # NoThread => \E t \in Threads : WorkerCanGo(t)
         /\ outMutex # NoThread => \E t \in Threads : WorkerCanGo(t)
<1>1. ASSUME mutex # NoThread  PROVE \E t \in Threads : WorkerCanGo(t)
  <2>1. mutex \in Threads /\ bpc[mutex] \in {"in", "leaving"}
    BY <1>1 DEF BarrierTypeOK, BarrierInv, MutexInv, HoldsMutex
  <2>2. wpc[mutex] \in {"barrier1", "barrier2"}  BY <2>1 DEF ControlInv
  <2>3. WorkerCanGo(mutex)  BY <2>1, <2>2 DEF WorkerCanGo
  <2> QED  BY <2>1, <2>3
<1>2. ASSUME outMutex # NoThread  PROVE \E t \in Threads : WorkerCanGo(t)
  <2>1. outMutex \in Threads /\ wpc[outMutex] = "push"  BY <1>2 DEF OutInv
  <2>2. WorkerCanGo(outMutex)  BY <2>1 DEF WorkerCanGo
  <2> QED  BY <2>1, <2>2
<1> QED  BY <1>1, <1>2

(* A thread that waits at a barrier has not been overtaken: no other is    *)
(* done, and at least one has yet to arrive.                               *)
LEMMA WaiterNotAlone ==
  ASSUME BarrierTypeOK, BarrierInv, ControlTypeOK, ControlInv,
         NEW t \in Threads, bpc[t] = "waiting"
  PROVE  /\ \A u \in Threads : wpc[u] # "done"
         /\ \E u \in Threads : bpc[u] # "waiting"
<1>1. ASSUME NEW u \in Threads, wpc[u] = "done"  PROVE FALSE
  <2>1. left[u] = 2 /\ bpc[u] = "out"
    BY <1>1 DEF ControlInv, BarriersPassed, Reducing
  <2>2. Completed(u) = 2  BY <2>1 DEF BarrierInv, CallInv, Completed, BarrierTypeOK
  <2>3. left[t] \in {0, 1}
    BY DEF ControlInv, ControlTypeOK, WorkerPc, BarriersPassed, Reducing
  <2>4. arrived[t] = left[t] + 1  BY DEF BarrierInv, CallInv
  <2>5. Completed(t) = left[t]  BY <2>3, <2>4 DEF Completed
  <2> QED  BY <2>2, <2>3, <2>5 DEF BarrierInv, RoundInv
<1>2. ASSUME \A u \in Threads : bpc[u] = "waiting"  PROVE FALSE
  <2>1. Waiting = Threads  BY <1>2 DEF Waiting
  <2>2. count = N  BY <2>1, ThreadsFinite DEF BarrierInv, CountIsWaiters
  <2> QED  BY <2>2, NAssumption DEF BarrierTypeOK
<1> QED  BY <1>1, <1>2

(* As long as a thread is not done, some thread can go on.                 *)
LEMMA SomeWorkerGoes ==
  ASSUME BarrierTypeOK, BarrierInv, ControlTypeOK, ControlInv, OutInv, ~ AllDone
  PROVE  \E t \in Threads : WorkerCanGo(t)
<1> SUFFICES ASSUME \A t \in Threads : ~ WorkerCanGo(t)  PROVE FALSE  OBVIOUS
<1>1. mutex = NoThread /\ outMutex = NoThread  BY HoldersGo
<1>2. \A t \in Threads : wpc[t] # "none"  BY CreatorGoes
<1>3. \A t \in Threads : wpc[t] = "done" \/ bpc[t] = "waiting"
  <2> SUFFICES ASSUME NEW t \in Threads, wpc[t] # "done", bpc[t] # "waiting"
               PROVE  WorkerCanGo(t)
    OBVIOUS
  <2>1. CASE wpc[t] \in {"barrier1", "barrier2"}
    <3>1. bpc[t] \in {"out", "in", "woken", "leaving"}  BY DEF BarrierTypeOK, BarrierPc
    <3> QED  BY <1>1, <2>1, <3>1 DEF WorkerCanGo
  <2>2. CASE wpc[t] \notin {"barrier1", "barrier2"}
    BY <1>1, <1>2, <2>2 DEF WorkerCanGo
  <2> QED  BY <2>1, <2>2
<1>4. PICK t \in Threads : wpc[t] # "done"  BY DEF AllDone
<1>5. bpc[t] = "waiting"  BY <1>3, <1>4
<1> QED  BY <1>3, <1>5, WaiterNotAlone

(* Once all threads are done, a caller that is inside a call can go on.    *)
LEMMA SomeCallerGoes ==
  ASSUME ClientTypeOK, HandleInv, AllDone, NEW c \in Calling
  PROVE  \E d \in Calling : CallerCanGo(d)
<1>1. ASSUME NEW d \in Callers, cpc[d] \in {"join", "closeJoin", "unlock", "closeUnlock"}
      PROVE  d \in Calling /\ CallerCanGo(d)
  <2>1. next = N \/ wpc[next] = "done"  BY NAssumption DEF ClientTypeOK, AllDone, Threads
  <2> QED  BY <1>1, <2>1 DEF Calling, CallerCanGo
<1>2. CASE waitMutex = NoCaller
  <2>1. c \in Callers /\ (cpc[c] \in {"join", "closeJoin"} => CallerCanGo(c))
    BY <1>1 DEF Calling
  <2> QED  BY <1>2, <2>1 DEF CallerCanGo
<1>3. CASE waitMutex # NoCaller
  <2>1. waitMutex \in Callers  BY <1>3 DEF ClientTypeOK
  <2>2. cpc[waitMutex] \in {"join", "closeJoin", "unlock", "closeUnlock"}
    BY <2>1 DEF HandleInv, HolderInv
  <2> QED  BY <1>1, <2>1, <2>2
<1> QED  BY <1>2, <1>3

(* For every number of threads and callers: nobody is stuck.               *)
THEOREM NobodyIsStuck == JobSpec => []NobodyStuck
<1>1. BarrierTypeOK /\ BarrierInv /\ (ControlTypeOK /\ WorkerInv)
        /\ (ClientTypeOK /\ HandleInv) => NobodyStuck
  BY SomeWorkerGoes, SomeCallerGoes DEF NobodyStuck, WorkerInv, HandleInv
<1> QED  BY <1>1, HandleInvariant, JobRunsWorkers, WorkerInvariant, JobDrivesBarrier,
            TypeCorrect, Invariant, PTL

-----------------------------------------------------------------------------
(* How much work thread t has left: the phases it has yet to go through,   *)
(* the items its loop may still take, its place in that loop or in         *)
(* barrier(), and the keys it has yet to emit.                             *)
Phase(pc) ==
    CASE pc = "none" -> 10
      [] pc = "start" -> 9
      [] pc = "stage" -> 8
      [] pc \in {"test", "fetch", "map"} -> 7
      [] pc = "sort" -> 6
      [] pc = "barrier1" -> 5
      [] pc = "toShuffle" -> 4
      [] pc = "shuffle" -> 3
      [] pc = "barrier2" -> 2
      [] pc = "done" -> 0
      [] OTHER -> 1

Rest(n, k) == IF k < n THEN n - k ELSE 0

Unshuffled == UNION {ToSet(vec[t]) : t \in Threads}

Items(pc) ==
    CASE pc \in {"test", "fetch", "map"} -> Rest(Inputs, job.inputCounter)
      [] pc = "shuffle" -> Cardinality(Unshuffled)
      [] pc \in {"reduceTest", "reduceFetch"} \cup Reducing -> Rest(Len(groups), job.interCounter)
      [] OTHER -> 0

CallPlace(b) ==
    CASE b = "out" -> 4 [] b = "in" -> 3 [] b = "waiting" -> 2 [] b = "woken" -> 1
      [] b = "leaving" -> 0

Place(t) ==
    CASE wpc[t] \in {"barrier1", "barrier2"} -> CallPlace(bpc[t])
      [] wpc[t] = "reduce" -> 4
      [] wpc[t] = "push" -> 3
      [] wpc[t] \in {"map", "reduced"} -> 2
      [] wpc[t] \in {"test", "reduceTest"} -> 1
      [] OTHER -> 0

EmitsLeft(t) == IF wpc[t] = "map" THEN Rest(Len(Emits[my[t] + 1]) + 1, pos[t]) ELSE 0

WorkLeft(t) == <<<<Phase(wpc[t]), Items(wpc[t])>>, <<Place(t), EmitsLeft(t)>>>>

Pairs == Nat \X Nat
NatOrder == OpToRel(<, Nat)
PairOrder == LexPairOrdering(NatOrder, NatOrder, Nat, Nat)
WorkOrder == LexPairOrdering(PairOrder, PairOrder, Pairs, Pairs)
JobOrder == LexProductOrdering(WorkOrder, Pairs \X Pairs, N)

LeftToDo == [i \in 1 .. N |-> WorkLeft(i - 1)]

(* Less to do: the work of some thread, counted from contexts[0] on, goes  *)
(* down, and that of the threads before it stays.                          *)
Shrinks == <<LeftToDo', LeftToDo>> \in JobOrder

(* Every step of the workers leaves less to do: no loop or barrier keeps   *)
(* them busy for ever (MapReduceFramework.cpp:158-216, 222-249).           *)
WindsDown == [][Shrinks]_workerVars

(* The orders are well-founded: nothing can go down in them for ever.      *)
LEMMA WorkOrderFounded ==
  /\ IsWellFoundedOn(PairOrder, Pairs)
  /\ IsWellFoundedOn(WorkOrder, Pairs \X Pairs)
  /\ IsWellFoundedOn(JobOrder, [1 .. N -> Pairs \X Pairs])
<1>1. IsWellFoundedOn(NatOrder, Nat)  BY NatLessThanWellFounded DEF NatOrder
<1>2. IsWellFoundedOn(PairOrder, Pairs)  BY <1>1, WFLexPairOrdering DEF PairOrder, Pairs
<1>3. IsWellFoundedOn(WorkOrder, Pairs \X Pairs)  BY <1>2, WFLexPairOrdering DEF WorkOrder
<1>4. IsWellFoundedOn(JobOrder, [1 .. N -> Pairs \X Pairs])
  <2> DEFINE S == Pairs \X Pairs
  <2>1. IsWellFoundedOn(WorkOrder, S) /\ N \in Nat  BY <1>3, NAssumption
  <2> HIDE DEF S
  <2>2. IsWellFoundedOn(LexProductOrdering(WorkOrder, S, N), [1 .. N -> S])
    BY <2>1, WFLexProductOrdering
  <2> QED  BY <2>2 DEF S, JobOrder
<1> QED  BY <1>2, <1>3, <1>4

LEMMA PairLess ==
  ASSUME NEW a \in Nat, NEW b \in Nat, NEW c \in Nat, NEW d \in Nat
  PROVE  <<<<a, b>>, <<c, d>>>> \in PairOrder <=> a < c \/ (a = c /\ b < d)
BY DEF PairOrder, LexPairOrdering, NatOrder, OpToRel

LEMMA WorkLess ==
  ASSUME NEW p \in Pairs, NEW q \in Pairs, NEW r \in Pairs, NEW s \in Pairs
  PROVE  <<<<p, q>>, <<r, s>>>> \in WorkOrder
            <=> <<p, r>> \in PairOrder \/ (p = r /\ <<q, s>> \in PairOrder)
BY DEF WorkOrder, LexPairOrdering

(* The parts of WorkLeft are numbers.                                      *)
WorkTypeOK ==
    \A t \in Threads :
        Phase(wpc[t]) \in Nat /\ Items(wpc[t]) \in Nat /\ Place(t) \in Nat /\ EmitsLeft(t) \in Nat

LEMMA RestIs ==
  ASSUME NEW n \in Nat, NEW k \in Nat
  PROVE  /\ Rest(n, k) \in Nat
         /\ \A l \in Nat : l >= k => Rest(n, l) <= Rest(n, k)
         /\ k < n => Rest(n, k + 1) < Rest(n, k)
BY DEF Rest

LEMMA UnshuffledFinite ==
  ASSUME PlacedInv
  PROVE  IsFiniteSet(Unshuffled) /\ Cardinality(Unshuffled) \in Nat
<1>1. Unshuffled \in SUBSET Placed  BY DEF Unshuffled, Placed
<1> QED  BY <1>1, FS_Subset, FS_CardinalityType DEF PlacedInv

LEMMA WorkTypes ==
  ASSUME BarrierTypeOK, ControlTypeOK, DataTypeOK, PhaseInv, PlacedInv
  PROVE  WorkTypeOK
<1> SUFFICES ASSUME NEW t \in Threads
             PROVE  /\ Phase(wpc[t]) \in Nat /\ Items(wpc[t]) \in Nat
                    /\ Place(t) \in Nat /\ EmitsLeft(t) \in Nat
  BY DEF WorkTypeOK
<1>1. Phase(wpc[t]) \in Nat  BY DEF Phase
<1>2. Items(wpc[t]) \in Nat
  <2>1. job.inputCounter \in Nat /\ job.interCounter \in Nat /\ Len(groups) \in Nat
    BY DEF DataTypeOK, JobType
  <2>2. Rest(Inputs, job.inputCounter) \in Nat /\ Rest(Len(groups), job.interCounter) \in Nat
    BY <2>1, InputsType, RestIs
  <2> QED  BY <2>2, UnshuffledFinite DEF Items
<1>3. Place(t) \in Nat  BY DEF Place, CallPlace, BarrierTypeOK, BarrierPc
<1>4. EmitsLeft(t) \in Nat
  <2>1. CASE wpc[t] = "map"
    <3>1. my[t] \in 0 .. Inputs - 1 /\ pos[t] \in Nat
      BY <2>1, InputsType DEF PhaseInv, PhaseThread, ControlTypeOK, DataTypeOK
    <3>2. Len(Emits[my[t] + 1]) + 1 \in Nat  BY <3>1, InputsType
    <3> QED  BY <2>1, <3>1, <3>2, RestIs DEF EmitsLeft
  <2> QED  BY <2>1 DEF EmitsLeft
<1> QED  BY <1>1, <1>2, <1>3, <1>4

-----------------------------------------------------------------------------
(* What less work means, part by part.                                     *)
Lower(t) ==
    LET p == Phase(wpc[t])
        i == Items(wpc[t])
    IN  \/ p' < p
        \/ p' = p /\ i' < i
        \/ p' = p /\ i' = i /\ Place(t)' < Place(t)
        \/ p' = p /\ i' = i /\ Place(t)' = Place(t) /\ EmitsLeft(t)' < EmitsLeft(t)

NotHigher(t) ==
    /\ Phase(wpc[t])' = Phase(wpc[t])
    /\ Items(wpc[t])' <= Items(wpc[t])
    /\ Place(t)' <= Place(t)
    /\ EmitsLeft(t)' = EmitsLeft(t)

LEMMA LowerIsLess ==
  ASSUME WorkTypeOK, WorkTypeOK', NEW t \in Threads
  PROVE  /\ Lower(t) => <<WorkLeft(t)', WorkLeft(t)>> \in WorkOrder
         /\ NotHigher(t) =>
               <<WorkLeft(t)', WorkLeft(t)>> \in WorkOrder \/ WorkLeft(t)' = WorkLeft(t)
<1> DEFINE a == Phase(wpc[t])
           b == Items(wpc[t])
           c == Place(t)
           d == EmitsLeft(t)
<1>1. a \in Nat /\ b \in Nat /\ c \in Nat /\ d \in Nat  BY DEF WorkTypeOK
<1>2. a' \in Nat /\ b' \in Nat /\ c' \in Nat /\ d' \in Nat  BY DEF WorkTypeOK
<1>3. /\ Lower(t) <=> \/ a' < a
                      \/ a' = a /\ b' < b
                      \/ a' = a /\ b' = b /\ c' < c
                      \/ a' = a /\ b' = b /\ c' = c /\ d' < d
      /\ NotHigher(t) <=> a' = a /\ b' <= b /\ c' <= c /\ d' = d
      /\ WorkLeft(t) = <<<<a, b>>, <<c, d>>>> /\ WorkLeft(t)' = <<<<a', b'>>, <<c', d'>>>>
  BY DEF Lower, NotHigher, WorkLeft
<1> HIDE DEF a, b, c, d
<1>4. <<WorkLeft(t)', WorkLeft(t)>> \in WorkOrder
         <=> (a' < a \/ (a' = a /\ b' < b))
             \/ (<<a', b'>> = <<a, b>> /\ (c' < c \/ (c' = c /\ d' < d)))
  <2>1. /\ <<a, b>> \in Pairs /\ <<c, d>> \in Pairs
        /\ <<a', b'>> \in Pairs /\ <<c', d'>> \in Pairs
    BY <1>1, <1>2 DEF Pairs
  <2>2. <<<<a', b'>>, <<a, b>>>> \in PairOrder <=> a' < a \/ (a' = a /\ b' < b)
    BY <1>1, <1>2, PairLess
  <2>3. <<<<c', d'>>, <<c, d>>>> \in PairOrder <=> c' < c \/ (c' = c /\ d' < d)
    BY <1>1, <1>2, PairLess
  <2>4. <<WorkLeft(t)', WorkLeft(t)>> \in WorkOrder
           <=> \/ <<<<a', b'>>, <<a, b>>>> \in PairOrder
               \/ <<a', b'>> = <<a, b>> /\ <<<<c', d'>>, <<c, d>>>> \in PairOrder
    BY <1>3, <2>1, WorkLess
  <2> QED  BY <2>2, <2>3, <2>4
<1>5. Lower(t) => <<WorkLeft(t)', WorkLeft(t)>> \in WorkOrder  BY <1>3, <1>4
<1>6. ASSUME NotHigher(t)
      PROVE  <<WorkLeft(t)', WorkLeft(t)>> \in WorkOrder \/ WorkLeft(t)' = WorkLeft(t)
  <2>1. a' = a /\ (b' < b \/ b' = b) /\ (c' < c \/ c' = c) /\ d' = d
    BY <1>1, <1>2, <1>3, <1>6
  <2> QED  BY <1>3, <1>4, <2>1
<1> QED  BY <1>5, <1>6

(* If one thread has less work left and none has more, the job shrinks.    *)
LEMMA OneLowers ==
  ASSUME WorkTypeOK, WorkTypeOK', NEW t \in Threads, Lower(t),
         \A u \in Threads \ {t} : NotHigher(u)
  PROVE  Shrinks
<1> DEFINE less(i) == <<LeftToDo'[i], LeftToDo[i]>> \in WorkOrder
           S == {i \in 1 .. N : less(i)}
<1>1. /\ LeftToDo \in [1 .. N -> Pairs \X Pairs] /\ LeftToDo' \in [1 .. N -> Pairs \X Pairs]
      /\ \A i \in 1 .. N : LeftToDo[i] = WorkLeft(i - 1) /\ LeftToDo'[i] = WorkLeft(i - 1)'
  <2>1. \A u \in Threads : WorkLeft(u) \in Pairs \X Pairs /\ WorkLeft(u)' \in Pairs \X Pairs
    BY DEF WorkTypeOK, WorkLeft, Pairs
  <2>2. \A i \in 1 .. N : i - 1 \in Threads  BY NAssumption DEF Threads
  <2> QED  BY <2>1, <2>2 DEF LeftToDo
<1>2. \A i \in 1 .. N : less(i) \/ LeftToDo'[i] = LeftToDo[i]
  <2> TAKE i \in 1 .. N
  <2>1. i - 1 \in Threads  BY NAssumption DEF Threads
  <2> QED  BY <1>1, <2>1, LowerIsLess
<1>3. t + 1 \in S
  <2>1. t + 1 \in 1 .. N /\ (t + 1) - 1 = t  BY NAssumption DEF Threads
  <2>2. less(t + 1)  BY <1>1, <2>1, LowerIsLess
  <2> QED  BY <2>1, <2>2
<1>4. PICK j \in S : \A i \in S : j <= i
  <2>1. S \in SUBSET Nat /\ S # {}  BY <1>3, NAssumption
  <2> HIDE DEF S
  <2> QED  BY <2>1, LeastElement
<1>5. j \in 1 .. N /\ less(j)  BY <1>4
<1>6. \A i \in 1 .. (j - 1) : LeftToDo'[i] = LeftToDo[i]
  <2> TAKE i \in 1 .. (j - 1)
  <2>1. i \in 1 .. N /\ ~ (j <= i)  BY <1>5, NAssumption
  <2> QED  BY <1>2, <1>4, <2>1
<1> QED  BY <1>1, <1>5, <1>6 DEF Shrinks, JobOrder, LexProductOrdering

-----------------------------------------------------------------------------
(* What a step of thread t leaves of thread u: u is where it was, or has   *)
(* been woken, and the counters have not gone back.                        *)
Untouched(u) ==
    /\ wpc'[u] = wpc[u] /\ my'[u] = my[u] /\ pos'[u] = pos[u]
    /\ bpc'[u] = bpc[u] \/ (bpc[u] = "waiting" /\ bpc'[u] = "woken")
    /\ job'.inputCounter >= job.inputCounter /\ job'.interCounter >= job.interCounter
    /\ wpc[u] \in {"barrier1", "barrier2"} \/ UNCHANGED groups
    /\ wpc[u] = "shuffle" => UNCHANGED vec

LEMMA OthersUntouched ==
  ASSUME BarrierTypeOK, ControlTypeOK, ControlInv, DataTypeOK, ShuffleExclusive,
         NEW t \in Threads, Create(t) \/ map_reduce_for_thread(t), NEW u \in Threads \ {t}
  PROVE  Untouched(u)
<1>0. /\ job \in JobType
      /\ wpc \in [Threads -> WorkerPc] /\ my \in [Threads -> Nat] /\ pos \in [Threads -> Nat]
      /\ bpc \in [Threads -> BarrierPc]
  BY DEF ControlTypeOK, DataTypeOK, BarrierTypeOK
<1>1. wpc[u] = "shuffle" => wpc[t] \in {"barrier1", "barrier2"}
  BY DEF ControlInv, ShuffleExclusive, Shuffling
<1> USE DEF JobType, Goto, dataVars, barrierVars, Untouched
<1>2. CASE Create(t) \/ MapTest(t) \/ ReduceTest(t) \/ emit3Lock(t)
  BY <1>0, <1>2 DEF Create, MapTest, ReduceTest, emit3Lock
<1>3. CASE StoreMax(t) \/ StoreMapStage(t)
  BY <1>0, <1>3 DEF StoreMax, StoreMapStage
<1>13. CASE BeginShuffle(t) \/ EndShuffle(t)
  BY <1>0, <1>13 DEF BeginShuffle, EndShuffle
<1>14. CASE emit3Push(t)
  <2>1. UNCHANGED <<barrierVars, job, my, pos, vec, groups>>
        /\ wpc' = [wpc EXCEPT ![t] = "reduced"]
    BY <1>14 DEF emit3Push
  <2> QED  BY <1>0, <2>1
<1>4. CASE AtBarrier(t)
  BY <1>0, <1>4 DEF AtBarrier, Lock, Wait, Broadcast, Wake
<1>5. CASE LeaveBarrier(t)
  BY <1>0, <1>5 DEF LeaveBarrier, Unlock
<1>6. CASE ReduceFetch(t)
  BY <1>0, <1>6 DEF ReduceFetch
<1>7. CASE ReduceDone(t)
  BY <1>0, <1>7 DEF ReduceDone
<1>8. CASE MapFetch(t)
  BY <1>0, <1>8 DEF MapFetch
<1>9. CASE MapDone(t)
  BY <1>0, <1>9 DEF MapDone
<1>10. CASE emit2(t)
  <2>1. /\ wpc[t] = "map" /\ UNCHANGED <<barrierVars, wpc, my, groups>>
        /\ job' = [job EXCEPT !.maxForShuffle = job.maxForShuffle + 1]
        /\ pos' = [pos EXCEPT ![t] = pos[t] + 1]
    BY <1>10 DEF emit2
  <2> QED  BY <1>0, <1>1, <2>1
<1>11. CASE Sort(t)
  <2>1. wpc[t] = "sort" /\ UNCHANGED <<barrierVars, job, my, pos, groups>>
        /\ wpc' = [wpc EXCEPT ![t] = "barrier1"]
    BY <1>11 DEF Sort
  <2> QED  BY <1>0, <1>1, <2>1
<1>12. CASE ShuffleGroup(t)
  <2>1. wpc[t] = "shuffle" /\ UNCHANGED <<barrierVars, wpc, my, pos>>
        /\ job' = [job EXCEPT !.shuffleFinished = job.shuffleFinished + 1]
    BY <1>12 DEF ShuffleGroup
  <2>2. wpc[u] \in {"barrier1", "barrier2"}
    BY <2>1 DEF ControlInv, ShuffleExclusive, Shuffling
  <2> QED  BY <1>0, <2>1, <2>2
<1> QED  BY <1>2, <1>3, <1>4, <1>5, <1>6, <1>7, <1>8, <1>9, <1>10, <1>11, <1>12, <1>13,
            <1>14
         DEF map_reduce_for_thread, MapStep, ShuffleStep, ReduceStep

LEMMA UntouchedNotHigher ==
  ASSUME BarrierTypeOK, DataTypeOK, DataTypeOK', WorkTypeOK, NEW u \in Threads, Untouched(u)
  PROVE  NotHigher(u)
<1>0. /\ job.inputCounter \in Nat /\ job.interCounter \in Nat /\ Len(groups) \in Nat
      /\ job'.inputCounter \in Nat /\ job'.interCounter \in Nat /\ Inputs \in Nat
  BY InputsType DEF DataTypeOK, JobType
<1>1. Phase(wpc[u])' = Phase(wpc[u])  BY DEF Untouched
<1>2. Items(wpc[u])' <= Items(wpc[u])
  <2>1. Rest(Inputs, job'.inputCounter) <= Rest(Inputs, job.inputCounter)
    BY <1>0, RestIs DEF Untouched
  <2>2. UNCHANGED groups =>
           Rest(Len(groups'), job'.interCounter) <= Rest(Len(groups), job.interCounter)
    BY <1>0, RestIs DEF Untouched
  <2>3. UNCHANGED vec => Unshuffled' = Unshuffled  BY DEF Unshuffled
  <2>4. Items(wpc[u]) \in Nat  BY DEF WorkTypeOK
  <2>5. CASE wpc[u] \in {"test", "fetch", "map"}  BY <2>1, <2>5 DEF Untouched, Items, Reducing
  <2>6. CASE wpc[u] = "shuffle"
    <3>1. Cardinality(Unshuffled') = Cardinality(Unshuffled)  BY <2>3, <2>6 DEF Untouched
    <3>2. Items(wpc[u])' = Items(wpc[u])  BY <2>6, <3>1 DEF Untouched, Items, Reducing
    <3> QED  BY <2>4, <3>2
  <2>7. CASE wpc[u] \in {"reduceTest", "reduceFetch"} \cup Reducing
    BY <2>2, <2>7 DEF Untouched, Items, Reducing
  <2>8. CASE wpc[u] \notin {"test", "fetch", "map", "shuffle", "reduceTest", "reduceFetch"}
                           \cup Reducing
    BY <2>8 DEF Untouched, Items
  <2> QED  BY <2>5, <2>6, <2>7, <2>8
<1>3. Place(u)' <= Place(u)
  <2>1. CallPlace(bpc'[u]) <= CallPlace(bpc[u])
    BY DEF Untouched, CallPlace, BarrierTypeOK, BarrierPc
  <2> QED  BY <2>1 DEF Untouched, Place, WorkTypeOK
<1>4. EmitsLeft(u)' = EmitsLeft(u)  BY DEF Untouched, EmitsLeft
<1> QED  BY <1>1, <1>2, <1>3, <1>4 DEF NotHigher

-----------------------------------------------------------------------------
(* A thread's own step leaves it less work: in the map phase,              *)
LEMMA MapLowers ==
  ASSUME ControlTypeOK, DataTypeOK, PhaseInv, NEW t \in Threads, Create(t) \/ MapStep(t)
  PROVE  Lower(t)
<1>0. /\ job \in JobType /\ job.inputCounter \in Nat /\ Inputs \in Nat
      /\ wpc \in [Threads -> WorkerPc] /\ my \in [Threads -> Nat] /\ pos \in [Threads -> Nat]
  BY InputsType DEF ControlTypeOK, DataTypeOK, JobType
<1>1. ASSUME wpc[t] \in {"test", "fetch", "map"}
      PROVE  Phase(wpc[t]) = 7 /\ Items(wpc[t]) = Rest(Inputs, job.inputCounter)
  BY <1>1 DEF Phase, Items, Reducing
<1>2. ASSUME wpc'[t] \in {"test", "fetch", "map"}
      PROVE  Phase(wpc[t])' = 7 /\ Items(wpc[t])' = Rest(Inputs, job'.inputCounter)
  BY <1>2 DEF Phase, Items, Reducing, Rest, Inputs
<1>3. CASE Create(t) \/ StoreMax(t) \/ StoreMapStage(t)
  <2>1. \/ wpc[t] = "none" /\ wpc'[t] = "start"
        \/ wpc[t] = "start" /\ wpc'[t] = "stage"
        \/ wpc[t] = "stage" /\ wpc'[t] = "test"
    BY <1>0, <1>3 DEF Create, StoreMax, StoreMapStage, Goto
  <2> QED  BY <2>1 DEF Lower, Phase
<1>4. CASE MapTest(t)
  <2>1. wpc[t] = "test" /\ job' = job /\ wpc'[t] \in {"fetch", "sort"}
    BY <1>0, <1>4 DEF MapTest, Goto
  <2>2. CASE wpc'[t] = "sort"  BY <2>1, <2>2 DEF Lower, Phase
  <2>3. CASE wpc'[t] = "fetch"
    <3>1. Place(t)' < Place(t)  BY <2>1, <2>3 DEF Place
    <3> QED  BY <1>1, <1>2, <2>1, <2>3, <3>1 DEF Lower
  <2> QED  BY <2>1, <2>2, <2>3
<1>5. CASE MapFetch(t)
  <2>1. /\ wpc[t] = "fetch" /\ job'.inputCounter = job.inputCounter + 1
        /\ wpc'[t] = IF job.inputCounter >= Inputs THEN "sort" ELSE "map"
    BY <1>0, <1>5 DEF MapFetch, Goto, JobType
  <2>2. CASE wpc'[t] = "sort"  BY <2>1, <2>2 DEF Lower, Phase
  <2>3. CASE wpc'[t] = "map"
    <3>1. Rest(Inputs, job'.inputCounter) < Rest(Inputs, job.inputCounter)
      BY <1>0, <2>1, <2>3 DEF Rest
    <3> QED  BY <1>1, <1>2, <2>1, <2>3, <3>1 DEF Lower
  <2> QED  BY <2>1, <2>2, <2>3
<1>6. CASE emit2(t)
  <2>1. /\ wpc[t] = "map" /\ wpc' = wpc /\ my' = my /\ pos'[t] = pos[t] + 1
        /\ job'.inputCounter = job.inputCounter /\ pos[t] \in DOMAIN Emits[my[t] + 1]
    BY <1>0, <1>6 DEF emit2, JobType
  <2>2. my[t] \in 0 .. Inputs - 1  BY <1>0, <2>1 DEF PhaseInv, PhaseThread
  <2>3. Len(Emits[my[t] + 1]) \in Nat /\ pos[t] \in 1 .. Len(Emits[my[t] + 1])
    <3> DEFINE e == Emits[my[t] + 1]
    <3>1. e \in Seq(Int)  BY <2>2, InputsType
    <3>2. pos[t] \in DOMAIN e  BY <2>1
    <3> HIDE DEF e
    <3>3. Len(e) \in Nat /\ pos[t] \in 1 .. Len(e)  BY <3>1, <3>2
    <3> QED  BY <3>3 DEF e
  <2>4. EmitsLeft(t)' < EmitsLeft(t)
    <3>1. Rest(Len(Emits[my[t] + 1]) + 1, pos[t] + 1) < Rest(Len(Emits[my[t] + 1]) + 1, pos[t])
      BY <2>3 DEF Rest
    <3>2. EmitsLeft(t) = Rest(Len(Emits[my[t] + 1]) + 1, pos[t])  BY <2>1 DEF EmitsLeft
    <3>3. EmitsLeft(t)' = Rest(Len(Emits[my[t] + 1]) + 1, pos[t] + 1)
      BY <2>1 DEF EmitsLeft, Rest
    <3> QED  BY <3>1, <3>2, <3>3
  <2>5. Place(t)' = Place(t)  BY <2>1 DEF Place
  <2> QED  BY <1>1, <1>2, <2>1, <2>4, <2>5 DEF Lower
<1>7. CASE MapDone(t)
  <2>1. wpc[t] = "map" /\ wpc'[t] = "test" /\ job'.inputCounter = job.inputCounter
    BY <1>0, <1>7 DEF MapDone, Goto, JobType
  <2>2. Place(t)' < Place(t)  BY <2>1 DEF Place
  <2> QED  BY <1>1, <1>2, <2>1, <2>2 DEF Lower
<1>8. CASE Sort(t)
  <2>1. wpc[t] = "sort" /\ wpc'[t] = "barrier1"  BY <1>0, <1>8 DEF Sort, Goto
  <2> QED  BY <2>1 DEF Lower, Phase
<1> QED  BY <1>3, <1>4, <1>5, <1>6, <1>7, <1>8 DEF MapStep

(* at the barriers,                                                        *)
LEMMA BarrierLowers ==
  ASSUME BarrierTypeOK, ControlTypeOK, NEW t \in Threads, AtBarrier(t) \/ LeaveBarrier(t)
  PROVE  Lower(t)
<1>1. CASE AtBarrier(t)
  <2>1. wpc[t] \in {"barrier1", "barrier2"} /\ wpc' = wpc  BY <1>1 DEF AtBarrier
  <2>2. \/ bpc[t] = "out" /\ bpc'[t] = "in"
        \/ bpc[t] = "in" /\ bpc'[t] \in {"waiting", "leaving"}
        \/ bpc[t] = "woken" /\ bpc'[t] = "leaving"
    BY <1>1 DEF AtBarrier, Lock, Wait, Broadcast, Wake, BarrierTypeOK
  <2>3. Place(t)' < Place(t)  BY <2>1, <2>2 DEF Place, CallPlace
  <2>4. Phase(wpc[t])' = Phase(wpc[t])  BY <2>1
  <2>5. Items(wpc[t]) = 0 /\ Items(wpc[t])' = 0  BY <2>1 DEF Items, Reducing
  <2> QED  BY <2>3, <2>4, <2>5 DEF Lower
<1>2. CASE LeaveBarrier(t)
  <2>1. \/ wpc[t] = "barrier1" /\ wpc'[t] \in {"toShuffle", "barrier2"}
        \/ wpc[t] = "barrier2" /\ wpc'[t] = "reduceTest"
    BY <1>2 DEF LeaveBarrier, Goto, ControlTypeOK
  <2> QED  BY <2>1 DEF Lower, Phase
<1> QED  BY <1>1, <1>2

(* in the shuffle, which takes at least one pair out of the vectors,       *)
LEMMA ShuffleLowers ==
  ASSUME ControlTypeOK, DataTypeOK, OwnInv, OwnInv', PlacedInv, GroupInv',
         NEW t \in Threads, ShuffleStep(t)
  PROVE  Lower(t)
<1>0. wpc \in [Threads -> WorkerPc]  BY DEF ControlTypeOK
<1>1. CASE BeginShuffle(t) \/ EndShuffle(t)
  <2>1. \/ wpc[t] = "toShuffle" /\ wpc'[t] = "shuffle"
        \/ wpc[t] = "shuffle" /\ wpc'[t] = "barrier2"
    BY <1>0, <1>1 DEF BeginShuffle, EndShuffle, Goto
  <2> QED  BY <2>1 DEF Lower, Phase
<1>2. CASE ShuffleGroup(t)
  <2> DEFINE k == get_current_largest_element
             g == get_shuffle_vector(k)
             P(u) == Popped(u, k)
  <2>1. /\ groups' = Append(groups, g)
        /\ ToSet(g) = UNION {P(u) : u \in Threads}
        /\ g \in Seq(AllPairs)
        /\ \A u \in Threads : ToSet(vec'[u]) \cup P(u) = ToSet(vec[u])
    BY <1>2, ShuffleMoves
  <2> HIDE DEF k, g, P
  <2>2. /\ Len(groups') \in Nat /\ Len(groups') \in 1 .. Len(groups')
        /\ groups'[Len(groups')] = g
    BY <2>1 DEF DataTypeOK
  <2>3. PICK p : p \in ToSet(g)
    <3>1. g # <<>>  BY <2>2 DEF GroupInv
    <3>2. Len(g) \in Nat /\ Len(g) # 0  BY <2>1, <3>1
    <3>3. 1 \in 1 .. Len(g)  BY <3>2
    <3>4. ToSet(g) = {g[i] : i \in 1 .. Len(g)}  BY <2>1, ListElements
    <3> QED  BY <3>3, <3>4
  <2>4. \A u \in Threads : ToSet(vec'[u]) \cap ToSet(g) = {}  BY <2>2 DEF OwnInv
  <2>5. Unshuffled' \subseteq Unshuffled /\ p \in Unshuffled /\ p \notin Unshuffled'
    BY <2>1, <2>3, <2>4 DEF Unshuffled
  <2>6. Cardinality(Unshuffled') < Cardinality(Unshuffled)
    <3>1. IsFiniteSet(Unshuffled) /\ Cardinality(Unshuffled) \in Nat  BY UnshuffledFinite
    <3>2. IsFiniteSet(Unshuffled') /\ Cardinality(Unshuffled') <= Cardinality(Unshuffled)
          /\ Cardinality(Unshuffled) # Cardinality(Unshuffled')
      BY <2>5, <3>1, FS_Subset
    <3>3. Cardinality(Unshuffled') \in Nat  BY <3>2, FS_CardinalityType
    <3> QED  BY <3>1, <3>2, <3>3
  <2>7. wpc[t] = "shuffle" /\ wpc' = wpc  BY <1>2 DEF ShuffleGroup
  <2>8. Phase(wpc[t])' = Phase(wpc[t])  BY <2>7
  <2>9. /\ Items(wpc[t]) = Cardinality(Unshuffled)
        /\ Items(wpc[t])' = Cardinality(Unshuffled')
    BY <2>7 DEF Items, Reducing
  <2> QED  BY <2>6, <2>8, <2>9 DEF Lower
<1> QED  BY <1>1, <1>2 DEF ShuffleStep

(* and in the reduce phase.                                                *)
LEMMA ReduceLowers ==
  ASSUME ControlTypeOK, DataTypeOK, NEW t \in Threads, ReduceStep(t)
  PROVE  Lower(t)
<1>0. /\ job \in JobType /\ job.interCounter \in Nat /\ Len(groups) \in Nat
      /\ wpc \in [Threads -> WorkerPc]
  <2>1. job \in JobType /\ Len(groups) \in Nat  BY DEF DataTypeOK
  <2>2. job.interCounter \in Nat /\ wpc \in [Threads -> WorkerPc]  BY DEF ControlTypeOK
  <2> QED  BY <2>1, <2>2
<1> DEFINE R == {"reduceTest", "reduceFetch", "reduce", "push", "reduced"}
<1>1. ASSUME wpc[t] \in R
      PROVE  Phase(wpc[t]) = 1 /\ Items(wpc[t]) = Rest(Len(groups), job.interCounter)
  BY <1>1 DEF Phase, Items, Reducing
<1>2. ASSUME wpc'[t] \in R, UNCHANGED groups
      PROVE  Phase(wpc[t])' = 1 /\ Items(wpc[t])' = Rest(Len(groups), job'.interCounter)
  BY <1>2 DEF Phase, Items, Reducing, Rest
<1>3. CASE ReduceTest(t)
  <2>1. wpc[t] = "reduceTest" /\ UNCHANGED <<job, groups>> /\ wpc'[t] \in {"reduceFetch", "done"}
    BY <1>0, <1>3 DEF ReduceTest, Goto, dataVars
  <2>2. CASE wpc'[t] = "done"  BY <2>1, <2>2 DEF Lower, Phase
  <2>3. CASE wpc'[t] = "reduceFetch"
    <3>1. Place(t)' < Place(t)  BY <2>1, <2>3 DEF Place
    <3> QED  BY <1>1, <1>2, <2>1, <2>3, <3>1 DEF Lower
  <2> QED  BY <2>1, <2>2, <2>3
<1>4. CASE ReduceFetch(t)
  <2>1. /\ wpc[t] = "reduceFetch" /\ UNCHANGED groups
        /\ job'.interCounter = job.interCounter + 1
        /\ wpc'[t] = IF job.interCounter >= Len(groups) THEN "done" ELSE "reduce"
    BY <1>0, <1>4 DEF ReduceFetch, Goto, JobType, dataVars
  <2>2. CASE wpc'[t] = "done"  BY <2>1, <2>2 DEF Lower, Phase
  <2>3. CASE wpc'[t] = "reduce"
    <3>1. Rest(Len(groups), job'.interCounter) < Rest(Len(groups), job.interCounter)
      BY <1>0, <2>1, <2>3 DEF Rest
    <3> QED  BY <1>1, <1>2, <2>1, <2>3, <3>1 DEF Lower
  <2> QED  BY <2>1, <2>2, <2>3
<1>5. CASE emit3Lock(t) \/ emit3Push(t) \/ ReduceDone(t)
  <2>1. /\ \/ wpc[t] = "reduce" /\ wpc'[t] = "push"
           \/ wpc[t] = "push" /\ wpc'[t] = "reduced"
           \/ wpc[t] = "reduced" /\ wpc'[t] = "reduceTest"
        /\ UNCHANGED groups
    BY <1>0, <1>5 DEF emit3Lock, emit3Push, ReduceDone, Goto, dataVars
  <2>2. job'.interCounter = job.interCounter
    BY <1>0, <1>5 DEF emit3Lock, emit3Push, ReduceDone, JobType
  <2>3. Place(t)' < Place(t)  BY <2>1 DEF Place
  <2> QED  BY <1>1, <1>2, <2>1, <2>2, <2>3 DEF Lower
<1> QED  BY <1>3, <1>4, <1>5 DEF ReduceStep

-----------------------------------------------------------------------------
LEMMA StepShrinks ==
  ASSUME BarrierTypeOK, BarrierInv, ControlTypeOK, WorkerInv, DataInv, DataInv',
         WorkTypeOK, WorkTypeOK', [WorkerNext \/ Returned]_workerVars
  PROVE  [Shrinks]_workerVars
<1>0. /\ ControlInv /\ ShuffleExclusive /\ DataTypeOK /\ DataTypeOK' /\ PhaseInv
      /\ OwnInv /\ OwnInv' /\ PlacedInv /\ GroupInv'
  BY BarriersExclude DEF WorkerInv, DataInv
<1>1. ASSUME NEW t \in Threads, Create(t) \/ map_reduce_for_thread(t)  PROVE Shrinks
  <2>1. Lower(t)
    BY <1>0, <1>1, MapLowers, BarrierLowers, ShuffleLowers, ReduceLowers
    DEF map_reduce_for_thread
  <2>2. \A u \in Threads \ {t} : NotHigher(u)
    BY <1>0, <1>1, OthersUntouched, UntouchedNotHigher
  <2> QED  BY <2>1, <2>2, OneLowers
<1> QED  BY <1>1 DEF WorkerNext, Returned

(* For every number of threads and every input, each step of the workers   *)
(* leaves less to do, in an order in which nothing goes down for ever:     *)
(* there is no loop in which the threads could turn without end            *)
(* (MapReduceFramework.cpp:158-216, 222-249).                              *)
THEOREM WorkWindsDown ==
  IsWellFoundedOn(JobOrder, [1 .. N -> Pairs \X Pairs]) /\ (MapReduceSpec => WindsDown)
<1>1. /\ BarrierTypeOK /\ BarrierInv /\ (ControlTypeOK /\ WorkerInv)
      /\ DataInv /\ DataInv' /\ [WorkerNext \/ Returned]_workerVars
      /\ WorkTypeOK /\ WorkTypeOK'
      => [Shrinks]_workerVars
  BY StepShrinks
<1>2. BarrierTypeOK /\ (ControlTypeOK /\ WorkerInv) /\ DataInv => WorkTypeOK
  BY WorkTypes DEF DataInv
<1>3. MapReduceSpec => WindsDown
  BY <1>1, <1>2, JobDrivesBarrier, TypeCorrect, Invariant, WorkerInvariant, DataInvariant, PTL
  DEF MapReduceSpec, WindsDown
<1> QED  BY <1>3, WorkOrderFounded

-----------------------------------------------------------------------------
(* How much caller c has left of its calls; getJobState leaves that alone. *)
CallPhase(pc) ==
    CASE pc \in {"ready", "state"} -> 9
      [] pc = "wait" -> 8
      [] pc = "join" -> 7
      [] pc = "unlock" -> 6
      [] pc = "waited" -> 5
      [] pc = "close" -> 4
      [] pc = "closeJoin" -> 3
      [] pc = "closeUnlock" -> 2
      [] pc = "free" -> 1
      [] OTHER -> 0

CallLeft(c) ==
    <<CallPhase(cpc[c]), IF cpc[c] \in {"join", "closeJoin"} THEN Rest(N, next) ELSE 0>>

(* A step takes work from the threads, or from the calls of one caller.    *)
WorkersShrink == Shrinks /\ \A c \in Callers : CallLeft(c)' = CallLeft(c)

CallShrinks(c) ==
    /\ <<CallLeft(c)', CallLeft(c)>> \in PairOrder
    /\ \A d \in Callers \ {c} : CallLeft(d)' = CallLeft(d)
    /\ UNCHANGED LeftToDo

(* getJobState itself takes nothing away and adds nothing.                 *)
PollStep ==
    /\ \E c \in Callers : getJobState(c)
    /\ UNCHANGED LeftToDo /\ \A d \in Callers : CallLeft(d)' = CallLeft(d)

(* Every step of the job takes work away or belongs to a getJobState call  *)
(* (MapReduceFramework.cpp:305-404).                                       *)
OnlyPollingGoesOn ==
    [][WorkersShrink \/ (\E c \in Callers : CallShrinks(c)) \/ PollStep]_vars

LEMMA CallLess ==
  ASSUME NEW c, CallPhase(cpc[c]) \in Nat, CallLeft(c)[2] \in Nat,
         CallPhase(cpc[c])' \in Nat, CallLeft(c)[2]' \in Nat,
         \/ CallPhase(cpc[c])' < CallPhase(cpc[c])
         \/ CallPhase(cpc[c])' = CallPhase(cpc[c]) /\ CallLeft(c)[2]' < CallLeft(c)[2]
  PROVE  <<CallLeft(c)', CallLeft(c)>> \in PairOrder
<1> DEFINE a == CallPhase(cpc[c])
           b == CallLeft(c)[2]
<1>1. CallLeft(c) = <<a, b>> /\ CallLeft(c)' = <<a', b'>>  BY DEF CallLeft
<1>2. a \in Nat /\ b \in Nat /\ a' \in Nat /\ b' \in Nat /\ (a' < a \/ (a' = a /\ b' < b))
  OBVIOUS
<1> HIDE DEF a, b
<1> QED  BY <1>1, <1>2, PairLess

CallTypeOK == \A c \in Callers : CallPhase(cpc[c]) \in Nat /\ CallLeft(c)[2] \in Nat

LEMMA CallTypes ==
  ASSUME ClientTypeOK
  PROVE  CallTypeOK
<1>1. Rest(N, next) \in Nat  BY NAssumption, RestIs DEF ClientTypeOK
<1> QED  BY <1>1 DEF CallTypeOK, CallPhase, CallLeft

LEMMA CallsShrink ==
  ASSUME ClientTypeOK, CallTypeOK, CallTypeOK', HolderInv, NEW c \in Callers,
         waitForJob(c) \/ Call(c) \/ Free(c)
  PROVE  /\ <<CallLeft(c)', CallLeft(c)>> \in PairOrder
         /\ \A d \in Callers \ {c} : CallLeft(d)' = CallLeft(d)
<1>0. cpc \in [Callers -> CallerPc] /\ next \in 0 .. N /\ N \in Nat
  BY NAssumption DEF ClientTypeOK
<1>1. \/ CallPhase(cpc[c])' < CallPhase(cpc[c])
      \/ CallPhase(cpc[c])' = CallPhase(cpc[c]) /\ CallLeft(c)[2]' < CallLeft(c)[2]
      => <<CallLeft(c)', CallLeft(c)>> \in PairOrder
  BY CallLess DEF CallTypeOK
<1>2. CASE CallWait(c) \/ Retire(c) \/ CallClose(c) \/ UnlockWait(c) \/ SetFlag(c) \/ Free(c)
  <2>1. next' = next /\ \A d \in Callers \ {c} : cpc'[d] = cpc[d]
    BY <1>0, <1>2 DEF CallWait, Retire, CallClose, UnlockWait, SetFlag, Free, Advance
  <2>2. \/ cpc[c] = "ready" /\ cpc'[c] \in {"wait", "gone", "close"}
        \/ cpc[c] = "waited" /\ cpc'[c] \in {"gone", "close"}
        \/ cpc[c] = "unlock" /\ cpc'[c] = "waited"
        \/ cpc[c] = "closeUnlock" /\ cpc'[c] = "free"
        \/ cpc[c] = "join" /\ cpc'[c] = "unlock"
        \/ cpc[c] = "closeJoin" /\ cpc'[c] = "closeUnlock"
        \/ cpc[c] = "free" /\ cpc'[c] = "gone"
    BY <1>0, <1>2 DEF CallWait, Retire, CallClose, UnlockWait, SetFlag, Free, Advance
  <2>3. CallPhase(cpc[c])' < CallPhase(cpc[c])  BY <2>2 DEF CallPhase
  <2>4. \A d \in Callers \ {c} : CallLeft(d)' = CallLeft(d)  BY <2>1 DEF CallLeft, Rest
  <2> QED  BY <2>3, <2>4, <1>1
<1>3. CASE LockWait(c)
  <2>1. /\ waitMutex = NoCaller /\ \A d \in Callers \ {c} : cpc'[d] = cpc[d]
        /\ \/ cpc[c] = "wait" /\ cpc'[c] \in {"unlock", "join"}
           \/ cpc[c] = "close" /\ cpc'[c] \in {"closeUnlock", "closeJoin"}
    BY <1>0, <1>3 DEF LockWait, Advance
  <2>2. CallPhase(cpc[c])' < CallPhase(cpc[c])  BY <2>1 DEF CallPhase
  <2>3. \A d \in Callers \ {c} : cpc[d] \notin {"join", "closeJoin"}
    BY <2>1, CallersAssumption DEF HolderInv
  <2>4. \A d \in Callers \ {c} : CallLeft(d)' = CallLeft(d)  BY <2>1, <2>3 DEF CallLeft
  <2> QED  BY <2>2, <2>4, <1>1
<1>4. CASE Join(c)
  <2>1. cpc' = cpc /\ cpc[c] \in {"join", "closeJoin"} /\ next \in Threads /\ next' = next + 1
    BY <1>4 DEF Join
  <2>2. Rest(N, next)' < Rest(N, next)  BY <1>0, <2>1 DEF Rest, Threads
  <2>3. CallPhase(cpc[c])' = CallPhase(cpc[c]) /\ CallLeft(c)[2]' < CallLeft(c)[2]
    BY <2>1, <2>2 DEF CallLeft
  <2>4. \A d \in Callers \ {c} : cpc[d] \notin {"join", "closeJoin"}
    BY <2>1 DEF HolderInv
  <2>5. \A d \in Callers \ {c} : CallLeft(d)' = CallLeft(d)  BY <2>1, <2>4 DEF CallLeft
  <2> QED  BY <2>3, <2>5, <1>1
<1> QED  BY <1>2, <1>3, <1>4 DEF waitForJob, Call

LEMMA JobStepShrinks ==
  ASSUME ClientTypeOK, CallTypeOK, CallTypeOK', HolderInv, [Shrinks]_workerVars, [JobNext]_vars
  PROVE  [WorkersShrink \/ (\E c \in Callers : CallShrinks(c)) \/ PollStep]_vars
<1>1. ASSUME WorkerNext /\ UNCHANGED apiVars, vars' # vars  PROVE WorkersShrink
  <2>1. Shrinks  BY <1>1 DEF vars
  <2>2. \A c \in Callers : CallLeft(c)' = CallLeft(c)
    BY <1>1 DEF apiVars, CallLeft, Rest
  <2> QED  BY <2>1, <2>2 DEF WorkersShrink
<1>2. UNCHANGED workerVars => UNCHANGED LeftToDo
  BY DEF workerVars, barrierVars, dataVars, LeftToDo, WorkLeft, Phase, Items, Place,
         CallPlace, EmitsLeft, Rest, Unshuffled, Reducing
<1>3. ASSUME NEW c \in Callers, waitForJob(c) \/ Call(c) \/ Free(c), UNCHANGED workerVars
      PROVE  CallShrinks(c)
  BY <1>2, <1>3, CallsShrink DEF CallShrinks
<1>4. ASSUME NEW c \in Callers, getJobState(c), UNCHANGED workerVars  PROVE PollStep
  <2>1. /\ next' = next /\ \A d \in Callers \ {c} : cpc'[d] = cpc[d]
        /\ cpc[c] \in {"ready", "state"} /\ cpc'[c] \in {"ready", "state"}
    BY <1>4 DEF getJobState, ReadStage, ReadCounters, Advance, ClientTypeOK
  <2>2. CallLeft(c)' = CallLeft(c)  BY <2>1 DEF CallLeft, CallPhase
  <2>3. \A d \in Callers \ {c} : CallLeft(d)' = CallLeft(d)  BY <2>1 DEF CallLeft, Rest
  <2> QED  BY <1>2, <1>4, <2>2, <2>3 DEF PollStep
<1> QED  BY <1>1, <1>3, <1>4 DEF JobNext, Closed

(* However many clients there are, what they do besides polling comes to   *)
(* an end: every other step of the job takes work from the threads or from *)
(* the calls of one client, in orders in which nothing goes down for ever  *)
(* (MapReduceFramework.cpp:347-404).                                       *)
THEOREM JobWindsDown ==
  IsWellFoundedOn(PairOrder, Pairs) /\ (JobSpec => OnlyPollingGoesOn)
<1>1. /\ (ClientTypeOK /\ HandleInv) /\ CallTypeOK /\ CallTypeOK'
      /\ [Shrinks]_workerVars /\ [JobNext]_vars
      => [WorkersShrink \/ (\E c \in Callers : CallShrinks(c)) \/ PollStep]_vars
  BY JobStepShrinks DEF HandleInv
<1>2. ClientTypeOK /\ HandleInv => CallTypeOK  BY CallTypes
<1>3. JobSpec => WindsDown  BY JobRunsWorkers, WorkWindsDown, PTL
<1>4. JobSpec => OnlyPollingGoesOn
  BY <1>1, <1>2, <1>3, HandleInvariant, PTL DEF JobSpec, WindsDown, OnlyPollingGoesOn
<1> QED  BY <1>4, WorkOrderFounded

-----------------------------------------------------------------------------
(* What getJobState tells of a job whose threads are all done is 100% of   *)
(* REDUCE, unless the client emitted no pair: then a loop that polls for   *)
(* 100% never ends (Sample Client/SampleClient.cpp:86).                    *)
DoneTold == AllDone => (HundredPercent(Percentage(job.stage)) <=> AllPairs # {})

LEMMA AllCounted ==
  ASSUME DataInv, AllDone
  PROVE  /\ job.stage = REDUCE /\ IsFiniteSet(AllPairs)
         /\ job.reduceFinished = Cardinality(AllPairs) /\ job.maxForShuffle = Cardinality(AllPairs)
<1>0. DataTypeOK /\ PhaseInv /\ PlacedInv /\ GroupInv /\ ClaimedInv /\ FinishedInv
  BY DEF DataInv
<1>1. Main \in Threads  BY NAssumption DEF Main, Threads
<1>2. job.stage = REDUCE  BY <1>0, <1>1 DEF AllDone, PhaseInv, PhaseThread, AfterShuffle
<1>3. Placed = AllPairs  BY <1>0, <1>2, AllPlaced
<1>4. Grouped = Placed
  <2>1. \A t \in Threads : vec[t] = <<>>  BY <1>0, <1>2 DEF GroupInv
  <2>2. \A t \in Threads : ToSet(vec[t]) = {}  BY <2>1 DEF ToSet
  <2> QED  BY <2>2 DEF Placed
<1>5. Finished = 1 .. Len(groups)
  <2>1. job.interCounter >= Len(groups) /\ job.interCounter \in Nat /\ Len(groups) \in Nat
    BY <1>0, <1>1 DEF AllDone, ClaimedInv, ClaimedThread, DataTypeOK, JobType
  <2>2. \A t \in Threads : wpc[t] \notin Reducing  BY DEF AllDone, Reducing
  <2>3. Claimed = 1 .. Len(groups)  BY <2>1 DEF Claimed
  <2> QED  BY <2>2, <2>3 DEF Finished
<1>6. job.reduceFinished = Cardinality(Grouped)  BY <1>0, <1>5 DEF FinishedInv, Grouped
<1> QED  BY <1>0, <1>2, <1>3, <1>4, <1>6 DEF PlacedInv

(* For every number of threads and clients and every input, when all       *)
(* threads are done getJobState tells 100% exactly if there was a pair to  *)
(* reduce: the loops that poll for it end, but not for an empty job        *)
(* (MapReduceFramework.cpp:305-345).                                       *)
THEOREM DoneIsTold == JobSpec => []DoneTold
<1>1. ASSUME DataInv, AllDone  PROVE HundredPercent(Percentage(job.stage)) <=> AllPairs # {}
  <2> DEFINE n == Cardinality(AllPairs)
  <2>1. /\ job.stage = REDUCE /\ IsFiniteSet(AllPairs)
        /\ job.reduceFinished = n /\ job.maxForShuffle = n
    BY <1>1, AllCounted
  <2>2. n \in Nat /\ (n = 0 <=> AllPairs = {})  BY <2>1, FS_CardinalityType, FS_EmptySet
  <2>3. Percentage(job.stage) = Fraction(REDUCE, n, n)
    BY <2>1 DEF Percentage, UNDEFINED, MAP, SHUFFLE, REDUCE
  <2> HIDE DEF n
  <2> QED  BY <2>2, <2>3 DEF HundredPercent, Fraction
<1>2. DataInv => DoneTold  BY <1>1 DEF DoneTold
<1> QED  BY <1>2, JobRunsWorkers, DataInvariant, PTL
=============================================================================
