------------------------- MODULE TestClientsProofs -------------------------
(***************************************************************************)
(* For every number of workers and of client threads and every input: no   *)
(* test of the repository fails, and when its client goes no thread of the *)
(* job is left and the client owns every pair.                             *)
(***************************************************************************)
EXTENDS TestClients, JobHandleProofs

(* Each step of a test is one of a job, or leaves the job alone.           *)
LEMMA TestStepsJob ==
  ASSUME [TestNext]_testVars
  PROVE  [JobNext]_vars
<1> USE CallersAssumption
<1>1. CASE UNCHANGED testVars \/ Ended
  BY <1>1 DEF testVars, Ended
<1>2. CASE WorkersRun
  BY <1>2 DEF WorkersRun, WorkerWithClient, Keep, JobNext, WorkerNext
<1>3. ASSUME NEW c \in Callers, InCall(c) \/ OtherClient(c)  PROVE JobNext
  BY <1>3 DEF InCall, OtherClient, JobNext, getJobState, Call
<1>4. CASE TestStep /\ UNCHANGED workerVars
  <2>1. \/ UNCHANGED apiVars
        \/ ReadStage(Closer) \/ CallWait(Closer) \/ CallClose(Closer)
    BY <1>4 DEF TestStep, main, waitAndCloseTest, outputTest, progressTest, deadlockTest,
                randbody, Polling, GetState, GetStateAgain, WaitThen, Close, Fail,
                Leave
  <2> QED  BY <1>4, <2>1 DEF JobNext, getJobState, Call, vars
<1> QED  BY <1>1, <1>2, <1>3, <1>4 DEF TestNext, ClientsRun

(* The clients of a test start with the handle or have no part in it.    *)
LEMMA TestStarts == TestInit => \E places \in Places : JobInitWith(places)
<1> SUFFICES ASSUME TestInit PROVE \E places \in Places : JobInitWith(places)
  OBVIOUS
<1> DEFINE p == [c \in Callers |->
                    IF c = Closer \/ test = "waitAndCloseTest" THEN "ready" ELSE "gone"]
<1>1. JobInitWith(p)  BY DEF TestInit
<1>2. p \in Places  BY CallersAssumption DEF Places
<1> QED  BY <1>1, <1>2

(* So what is proved of the workers and of the handle holds in each test.  *)
THEOREM TestsRunJobs == TestSpec => MapReduceSpec
<1>1. TestInit => MapReduceInit  BY DEF TestInit, JobInitWith
<1> QED  BY <1>1, TestStepsJob, ClientStepsWorkers, PTL DEF TestSpec, MapReduceSpec

(* The invariant of the handle holds in each test.                       *)
LEMMA TestHandle == TestSpec => [](ClientTypeOK /\ HandleInv)
<1>1. TestInit => ClientTypeOK /\ HandleInv  BY TestStarts, InitHandle
<1>2. ControlTypeOK /\ (ClientTypeOK /\ HandleInv) /\ [JobNext]_vars
        => (ClientTypeOK /\ HandleInv)'
  BY HandleStep
<1> QED  BY <1>1, <1>2, TestStepsJob, TestsRunJobs, WorkerInvariant, PTL DEF TestSpec

(* The invariant of the reports holds in each test.                      *)
LEMMA TestProgress == TestSpec => []ProgressInv
<1>1. TestInit => ProgressInv  BY TestStarts, InitProgress
<1>2. (ControlTypeOK /\ WorkerInv) /\ DataInv /\ DataInv' /\ ProgressInv /\ [JobNext]_vars
        => ProgressInv'
  BY ProgressStep
<1> QED
  BY <1>1, <1>2, TestStepsJob, TestsRunJobs, WorkerInvariant, DataInvariant, PTL DEF TestSpec

-----------------------------------------------------------------------------
(* The inputs whose mapping has ended.                                     *)
Mapped ==
    {i \in 0 .. Inputs - 1 :
        i < job.inputCounter /\ \A t \in Threads : wpc[t] = "map" => my[t] # i}

(* The counters of the first two stages count what they say.               *)
CountInv ==
    /\ job.mapFinished = Cardinality(Mapped)
    /\ job.shuffleFinished = Len(groups)

(* At first nothing is counted.                                          *)
LEMMA InitCount == MapReduceInit => CountInv
<1> SUFFICES ASSUME MapReduceInit PROVE CountInv  OBVIOUS
<1>1. /\ job.mapFinished = 0 /\ job.shuffleFinished = 0 /\ job.inputCounter = 0
      /\ groups = <<>>
  BY DEF MapReduceInit
<1>2. Mapped = {}
  <2>1. Inputs \in Nat  BY InputsType
  <2> QED  BY <1>1, <2>1 DEF Mapped
<1> QED  BY <1>1, <1>2, FS_EmptySet DEF CountInv

(* The steps that change one of the two counters.                          *)
LEMMA CountKinds ==
  ASSUME job \in JobType, [WorkerNext \/ Returned]_workerVars
  PROVE  \/ job'.mapFinished = job.mapFinished /\ job'.shuffleFinished = job.shuffleFinished
         \/ \E t \in Threads : MapDone(t) \/ ShuffleGroup(t)
<1>1. CASE UNCHANGED workerVars \/ Returned  BY <1>1 DEF workerVars, Returned
<1>2. ASSUME NEW t \in Threads, Create(t) \/ map_reduce_for_thread(t)
      PROVE  \/ job'.mapFinished = job.mapFinished /\ job'.shuffleFinished = job.shuffleFinished
             \/ MapDone(t) \/ ShuffleGroup(t)
  <2> USE DEF JobType
  <2>1. CASE Create(t) \/ MapTest(t) \/ Sort(t) \/ ReduceTest(t) \/ emit3Lock(t) \/ emit3Push(t)
    BY <2>1 DEF Create, MapTest, Sort, ReduceTest, emit3Lock, emit3Push
  <2>2. CASE AtBarrier(t) \/ LeaveBarrier(t)  BY <2>2 DEF AtBarrier, LeaveBarrier
  <2>3. CASE StoreMax(t) \/ StoreMapStage(t)  BY <2>3 DEF StoreMax, StoreMapStage
  <2>4. CASE MapFetch(t) \/ emit2(t)  BY <2>4 DEF MapFetch, emit2
  <2>5. CASE BeginShuffle(t) \/ EndShuffle(t)  BY <2>5 DEF BeginShuffle, EndShuffle
  <2>6. CASE ReduceFetch(t) \/ ReduceDone(t)  BY <2>6 DEF ReduceFetch, ReduceDone
  <2> QED  BY <1>2, <2>1, <2>2, <2>3, <2>4, <2>5, <2>6
           DEF map_reduce_for_thread, MapStep, ShuffleStep, ReduceStep
<1> QED  BY <1>1, <1>2 DEF WorkerNext

(* An input that is left is counted, and was not before.                   *)
LEMMA MappedDone ==
  ASSUME ControlTypeOK, DataTypeOK, ClaimInv, DistinctWork, PhaseInv,
         NEW t \in Threads, MapDone(t)
  PROVE  my[t] \notin Mapped /\ Mapped' = Mapped \cup {my[t]}
<1>1. /\ wpc[t] = "map" /\ wpc'[t] = "test" /\ my' = my
      /\ \A u \in Threads \ {t} : wpc'[u] = wpc[u]
      /\ job'.inputCounter = job.inputCounter
  BY DEF MapDone, Goto, ControlTypeOK, DataTypeOK, JobType
<1>2. my[t] \in 0 .. Inputs - 1 /\ my[t] < job.inputCounter
  BY <1>1, InputsType DEF PhaseInv, PhaseThread, ControlTypeOK, ClaimInv
<1>3. \A u \in Threads \ {t} : wpc[u] = "map" => my[u] # my[t]
  BY <1>1 DEF DistinctWork
<1>4. my[t] \notin Mapped  BY <1>1 DEF Mapped
<1>5. \A i : i \in Mapped' <=> i \in Mapped \/ i = my[t]
  <2>1. my[t] \in Mapped'
    <3>1. \A u \in Threads : wpc'[u] = "map" => my'[u] # my[t]  BY <1>1, <1>3
    <3> QED  BY <1>1, <1>2, <3>1 DEF Mapped
  <2>2. ASSUME NEW i, i # my[t]  PROVE i \in Mapped' <=> i \in Mapped
    <3>1. (\A u \in Threads : wpc'[u] = "map" => my'[u] # i)
            <=> (\A u \in Threads : wpc[u] = "map" => my[u] # i)
      BY <1>1, <2>2
    <3> QED  BY <1>1, <3>1 DEF Mapped
  <2> QED  BY <2>1, <2>2
<1> QED  BY <1>4, <1>5

(* Taking an input is not the end of it.                                   *)
LEMMA MappedFetch ==
  ASSUME ControlTypeOK, DataTypeOK, NEW t \in Threads, MapFetch(t)
  PROVE  Mapped' = Mapped
<1> DEFINE ic == job.inputCounter
<1>1. /\ wpc[t] = "fetch" /\ my'[t] = ic
      /\ wpc'[t] = IF ic >= Inputs THEN "sort" ELSE "map"
      /\ \A u \in Threads \ {t} : wpc'[u] = wpc[u] /\ my'[u] = my[u]
      /\ ic \in Nat /\ job'.inputCounter = ic + 1
  BY DEF MapFetch, Goto, ControlTypeOK, DataTypeOK, JobType
<1> HIDE DEF ic
<1>2. ASSUME NEW i \in 0 .. Inputs - 1
      PROVE  (i < ic + 1 /\ \A u \in Threads : wpc'[u] = "map" => my'[u] # i)
               <=> (i < ic /\ \A u \in Threads : wpc[u] = "map" => my[u] # i)
  <2>1. i \in Nat /\ i < Inputs /\ Inputs \in Nat  BY InputsType
  <2>2. CASE i = ic
    <3>1. wpc'[t] = "map" /\ my'[t] = i  BY <1>1, <2>1, <2>2
    <3> QED  BY <1>1, <2>2, <3>1
  <2>3. CASE i # ic
    <3>1. i < ic + 1 <=> i < ic  BY <1>1, <2>1, <2>3
    <3>2. (\A u \in Threads : wpc'[u] = "map" => my'[u] # i)
            <=> (\A u \in Threads : wpc[u] = "map" => my[u] # i)
      BY <1>1, <2>3
    <3> QED  BY <3>1, <3>2
  <2> QED  BY <2>2, <2>3
<1> QED  BY <1>1, <1>2 DEF Mapped, ic

(* The counters count.                                                     *)
LEMMA CountStep ==
  ASSUME ControlTypeOK, WorkerInv, DataInv, CountInv, [WorkerNext \/ Returned]_workerVars
  PROVE  CountInv'
<1>0. /\ DataTypeOK /\ PhaseInv /\ ClaimInv /\ DistinctWork /\ job \in JobType
      /\ wpc \in [Threads -> WorkerPc]
  BY DEF DataInv, DataTypeOK, WorkerInv, ControlTypeOK
<1>1. ASSUME NEW t \in Threads, MapDone(t)  PROVE CountInv'
  <2>1. my[t] \notin Mapped /\ Mapped' = Mapped \cup {my[t]}  BY <1>0, <1>1, MappedDone
  <2>2. /\ job' = [job EXCEPT !.mapFinished = job.mapFinished + 1] /\ groups' = groups
    BY <1>1 DEF MapDone, dataVars
  <2>3. job'.mapFinished = job.mapFinished + 1 /\ job'.shuffleFinished = job.shuffleFinished
    BY <1>0, <2>2 DEF JobType
  <2>4. IsFiniteSet(Mapped)
    <3>1. IsFiniteSet(0 .. Inputs - 1)
      <4>1. 0 \in Int /\ Inputs - 1 \in Int  BY InputsType
      <4> QED  BY <4>1, FS_Interval
    <3>2. Mapped \subseteq 0 .. Inputs - 1  BY DEF Mapped
    <3> QED  BY <3>1, <3>2, FS_Subset
  <2>5. Cardinality(Mapped') = Cardinality(Mapped) + 1  BY <2>1, <2>4, FS_AddElement
  <2> QED  BY <2>2, <2>3, <2>5 DEF CountInv
<1>2. ASSUME NEW t \in Threads, ShuffleGroup(t)  PROVE CountInv'
  <2>1. /\ job' = [job EXCEPT !.shuffleFinished = job.shuffleFinished + 1]
        /\ wpc' = wpc /\ my' = my
    BY <1>2 DEF ShuffleGroup
  <2>2. /\ job'.mapFinished = job.mapFinished /\ job'.inputCounter = job.inputCounter
        /\ job'.shuffleFinished = job.shuffleFinished + 1
    BY <1>0, <2>1 DEF JobType
  <2>3. Mapped' = Mapped  BY <2>1, <2>2 DEF Mapped
  <2>4. Len(groups') = Len(groups) + 1
    <3>1. PICK g : groups' = Append(groups, g)  BY <1>2 DEF ShuffleGroup
    <3>2. groups \in Seq(Seq(AllPairs))  BY <1>0 DEF DataTypeOK
    <3> QED  BY <3>1, <3>2
  <2> QED  BY <2>2, <2>3, <2>4 DEF CountInv
<1>3. CASE ~ \E t \in Threads : MapDone(t) \/ ShuffleGroup(t)
  <2>1. job'.mapFinished = job.mapFinished /\ job'.shuffleFinished = job.shuffleFinished
    BY <1>0, <1>3, CountKinds
  <2>2. \/ Quiet
        \/ \E t \in Threads : MapFetch(t) \/ emit2(t) \/ Sort(t)
    BY <1>0, <1>3, StepKinds
  <2>3. CASE Quiet
    <3>1. ASSUME NEW i, NEW u \in Threads
          PROVE  (wpc'[u] = "map" => my'[u] # i) <=> (wpc[u] = "map" => my[u] # i)
      BY <2>3 DEF Quiet
    <3>2. Mapped' = Mapped  BY <2>3, <3>1 DEF Quiet, Mapped
    <3> QED  BY <2>1, <2>3, <3>2 DEF Quiet, CountInv
  <2>4. ASSUME NEW t \in Threads, MapFetch(t)  PROVE CountInv'
    <3>1. groups' = groups  BY <2>4 DEF MapFetch, dataVars
    <3> QED  BY <1>0, <2>1, <2>4, <3>1, MappedFetch DEF CountInv
  <2>5. ASSUME NEW t \in Threads, emit2(t) \/ Sort(t)  PROVE CountInv'
    <3>1. groups' = groups /\ my' = my /\ job'.inputCounter = job.inputCounter
      BY <1>0, <2>5 DEF emit2, Sort, JobType
    <3>2. \A u \in Threads : wpc'[u] = "map" <=> wpc[u] = "map"
      BY <1>0, <2>5 DEF emit2, Sort, Goto
    <3>3. Mapped' = Mapped  BY <3>1, <3>2 DEF Mapped
    <3> QED  BY <2>1, <3>1, <3>3 DEF CountInv
  <2> QED  BY <2>2, <2>3, <2>4, <2>5
<1> QED  BY <1>1, <1>2, <1>3

(* The counters count in each test.                                      *)
LEMMA TestCounts == TestSpec => []CountInv
<1>1. TestInit => CountInv  BY InitCount DEF TestInit, JobInitWith
<1>2. (ControlTypeOK /\ WorkerInv) /\ DataInv /\ CountInv /\ [JobNext]_vars => CountInv'
  BY ClientStepsWorkers, CountStep
<1> QED
  BY <1>1, <1>2, TestStepsJob, TestsRunJobs, WorkerInvariant, DataInvariant, PTL DEF TestSpec

-----------------------------------------------------------------------------
(* There are no more groups than pairs.                                    *)
LEMMA GroupsBounded ==
  ASSUME DataInv, job.stage \in {SHUFFLE, REDUCE}
  PROVE  IsFiniteSet(AllPairs) /\ Len(groups) <= Cardinality(AllPairs)
<1> DEFINE n == Len(groups)
           f == [i \in 1 .. n |-> Head(groups[i])]
<1>0. DataTypeOK /\ PhaseInv /\ OwnInv /\ PlacedInv /\ GroupInv  BY DEF DataInv
<1>1. n \in Nat  BY <1>0 DEF DataTypeOK
<1>2. IsFiniteSet(AllPairs)  BY <1>0, AllPlaced DEF PlacedInv
<1>3. \A i \in 1 .. n : f[i] \in ToSet(groups[i]) /\ f[i] \in AllPairs  BY <1>0, GroupResult
<1>4. \A i, j \in 1 .. n : i # j => ToSet(groups[i]) \cap ToSet(groups[j]) = {}
  BY <1>0 DEF OwnInv, Apart
<1>5. f = [i \in 1 .. n |-> f[i]]  OBVIOUS
<1> HIDE DEF f, n
<1>6. f \in Injection(1 .. n, AllPairs)
  <2>1. f \in [1 .. n -> AllPairs]  BY <1>3, <1>5
  <2>2. \A i, j \in 1 .. n : f[i] = f[j] => i = j  BY <1>3, <1>4
  <2> QED  BY <2>1, <2>2 DEF Injection, IsInjective
<1>7. Cardinality(1 .. n) <= Cardinality(AllPairs)  BY <1>2, <1>6, FS_Injection
<1>8. Cardinality(1 .. n) = n
  <2>1. 1 \in Int /\ n \in Int  BY <1>1
  <2>2. Cardinality(1 .. n) = IF 1 > n THEN 0 ELSE n - 1 + 1  BY <2>1, FS_Interval
  <2> QED  BY <1>1, <2>2
<1> QED  BY <1>2, <1>7, <1>8 DEF n

(* No counter exceeds the maximum that its stage is reported with.         *)
LEMMA CountersBounded ==
  ASSUME DataInv, CountInv
  PROVE  /\ job.mapFinished <= Inputs
         /\ job.stage \in {SHUFFLE, REDUCE} => /\ job.shuffleFinished <= Cardinality(AllPairs)
                                               /\ job.reduceFinished <= Cardinality(AllPairs)
<1>1. job.mapFinished <= Inputs
  <2>1. Inputs \in Nat /\ 0 \in Int /\ Inputs - 1 \in Int  BY InputsType
  <2>2. IsFiniteSet(0 .. Inputs - 1)
        /\ Cardinality(0 .. Inputs - 1) = IF 0 > Inputs - 1 THEN 0 ELSE Inputs - 1 - 0 + 1
    BY <2>1, FS_Interval
  <2>3. Mapped \in SUBSET (0 .. Inputs - 1)  BY DEF Mapped
  <2>4. Cardinality(Mapped) <= Cardinality(0 .. Inputs - 1)  BY <2>2, <2>3, FS_Subset
  <2>5. Cardinality(0 .. Inputs - 1) = Inputs  BY <2>1, <2>2
  <2> QED  BY <2>4, <2>5 DEF CountInv
<1>2. ASSUME job.stage \in {SHUFFLE, REDUCE}
      PROVE  /\ job.shuffleFinished <= Cardinality(AllPairs)
             /\ job.reduceFinished <= Cardinality(AllPairs)
  <2>1. IsFiniteSet(AllPairs) /\ Len(groups) <= Cardinality(AllPairs)
    BY <1>2, GroupsBounded
  <2> DEFINE U == UNION {ToSet(groups[i]) : i \in Finished}
  <2>2. job.reduceFinished = Cardinality(U)  BY DEF DataInv, FinishedInv
  <2>3. U \subseteq AllPairs
    <3>1. Placed = AllPairs  BY <1>2, AllPlaced DEF DataInv
    <3>2. Finished \subseteq 1 .. Len(groups)  BY PushedFinite DEF DataInv
    <3> QED  BY <3>1, <3>2 DEF Placed, Grouped
  <2> HIDE DEF U
  <2>4. Cardinality(U) <= Cardinality(AllPairs)  BY <2>1, <2>3, FS_Subset
  <2> QED  BY <2>1, <2>2, <2>4 DEF CountInv
<1> QED  BY <1>1, <1>2

(* Nobody is told more than 100%.                                          *)
LEMMA NeverOver ==
  ASSUME DataInv, CountInv, ProgressInv, NEW c \in Callers
  PROVE  report[c].num <= report[c].den
<1> DEFINE r == report[c]
<1>0. /\ r \in ReportType /\ job \in JobType /\ seen[c] \in Stages
      /\ r.stage <= seen[c] /\ seen[c] <= job.stage /\ UpTo(job, r)
  BY DEF ProgressInv, ReportTypeOK, ReportInv, DataInv, DataTypeOK
<1> HIDE DEF r
<1>1. r.num \in Nat /\ r.den \in Nat /\ r.stage \in Stages /\ job.stage \in Stages
      /\ job.mapFinished \in Nat /\ job.shuffleFinished \in Nat /\ job.reduceFinished \in Nat
  BY <1>0 DEF ReportType, JobType
<1>2. r.stage \in {SHUFFLE, REDUCE} => job.stage \in {SHUFFLE, REDUCE}
  BY <1>0, <1>1 DEF Stages, UNDEFINED, SHUFFLE, REDUCE
<1>3. r.stage \in {UNDEFINED, MAP, SHUFFLE, REDUCE}
  BY <1>1 DEF Stages, UNDEFINED, MAP, SHUFFLE, REDUCE
<1>4. /\ job.mapFinished <= Inputs
      /\ job.stage \in {SHUFFLE, REDUCE} => /\ job.shuffleFinished <= Cardinality(AllPairs)
                                            /\ job.reduceFinished <= Cardinality(AllPairs)
  BY CountersBounded
<1>5. CASE r.stage = UNDEFINED  BY <1>0, <1>5 DEF UpTo, r
<1>6. CASE r.stage = MAP
  <2>1. r.num <= job.mapFinished /\ r.den = Inputs  BY <1>0, <1>6 DEF UpTo
  <2> QED  BY <1>1, <1>4, <2>1 DEF r
<1>7. CASE r.stage = SHUFFLE
  <2>1. r.num <= job.shuffleFinished /\ r.den = Cardinality(AllPairs)  BY <1>0, <1>7 DEF UpTo
  <2> QED  BY <1>1, <1>2, <1>4, <1>7, <2>1 DEF r
<1>8. CASE r.stage = REDUCE
  <2>1. r.num <= job.reduceFinished /\ r.den = Cardinality(AllPairs)  BY <1>0, <1>8 DEF UpTo
  <2> QED  BY <1>1, <1>2, <1>4, <1>8, <2>1 DEF r
<1> QED  BY <1>3, <1>5, <1>6, <1>7, <1>8

-----------------------------------------------------------------------------
(* What a test remembers is no later than what it was told last, and a     *)
(* test that has ended has closed the handle.                              *)
JudgeInv ==
    /\ last \in ReportType /\ Ahead(state, last)
    /\ at # "failed"
    /\ at = "ended" => cpc[Closer] = "gone"

(* A test starts with what it would be told first.                       *)
LEMMA InitJudge == TestInit => JudgeInv
<1> SUFFICES ASSUME TestInit PROVE JudgeInv  OBVIOUS
<1>1. /\ at = "begin" /\ last = Fraction(UNDEFINED, 0, 1)
      /\ report = [c \in Callers |-> Fraction(UNDEFINED, 0, 1)]
  BY DEF TestInit, JobInitWith
<1>2. last \in ReportType
  <2>1. UNDEFINED \in Stages  BY DEF Stages, UNDEFINED, REDUCE
  <2> QED  BY <1>1, <2>1 DEF Fraction, ReportType
<1>3. state = last  BY <1>1, CallersAssumption DEF state
<1>4. Ahead(last, last)  BY <1>2 DEF Ahead, ReportType
<1> QED  BY <1>1, <1>2, <1>3, <1>4 DEF JudgeInv

(* Later than later is later.                                            *)
LEMMA AheadTransitive ==
  ASSUME NEW p \in ReportType, NEW q \in ReportType, NEW r \in ReportType,
         Ahead(p, q), Ahead(q, r)
  PROVE  Ahead(p, r)
<1>1. /\ p.stage \in Int /\ q.stage \in Int /\ r.stage \in Int
      /\ p.num \in Nat /\ q.num \in Nat /\ r.num \in Nat
  BY DEF ReportType, Stages, UNDEFINED, REDUCE
<1> QED  BY <1>1 DEF Ahead

(* What is later is not less, and what is at most 100% is not over it.     *)
LEMMA NotBad ==
  ASSUME last \in ReportType, state \in ReportType, Ahead(state, last),
         state.num <= state.den
  PROVE  ~ Bad
<1>1. /\ state.stage \in Int /\ last.stage \in Int
      /\ state.num \in Nat /\ last.num \in Nat /\ state.den \in Nat /\ last.den \in Nat
  BY DEF ReportType, Stages, UNDEFINED, REDUCE
<1>2. ~ Over100(state)  BY <1>1 DEF Over100
<1>3. last.stage <= state.stage  BY <1>1 DEF Ahead
<1>4. last.stage = state.stage => ~ Less(state, last)
  <2> SUFFICES ASSUME last.stage = state.stage  PROVE ~ Less(state, last)
    OBVIOUS
  <2>1. state.den = last.den /\ state.num >= last.num  BY <1>1 DEF Ahead
  <2>2. state.num * last.den >= last.num * last.den  BY <1>1, <2>1, TimesMonotone
  <2>3. state.num * last.den \in Nat /\ last.num * last.den \in Nat  BY <1>1
  <2> QED  BY <2>1, <2>2, <2>3 DEF Less
<1> QED  BY <1>1, <1>2, <1>3, <1>4 DEF Bad

(* A step of a test's thread: it fails for a reason.                       *)
LEMMA TestMoves ==
  ASSUME TestStep
  PROVE  /\ report' = report /\ (last' = last \/ last' = state)
         /\ at' = "ended" => cpc[Closer] = "gone" /\ cpc' = cpc
         /\ at' = "failed" => Bad \/ (OutputFails /\ cpc[Closer] = "gone")
<1> USE DEF Moves, ReadStage, CallWait, CallClose, apiVars
<1>1. ASSUME NEW done, NEW judged, NEW again \in {"judge", "begin"},
             Polling(done, judged, again)
      PROVE  /\ report' = report /\ (last' = last \/ last' = state)
             /\ at' # "ended" /\ (at' = "failed" => Bad)
  BY <1>1 DEF Polling, GetState, GetStateAgain, Close, Fail
<1>2. CASE main \/ outputTest \/ progressTest \/ deadlockTest \/ randbody
  BY <1>1, <1>2 DEF main, outputTest, progressTest, deadlockTest, randbody
<1>3. CASE waitAndCloseTest
  BY <1>3 DEF waitAndCloseTest, GetState, WaitThen, Close
<1>4. CASE Leave  BY <1>4 DEF Leave
<1> QED  BY <1>2, <1>3, <1>4 DEF TestStep

(* Who is through with the handle makes no call any more.                  *)
LEMMA GoneStays ==
  ASSUME ClientTypeOK, [JobNext]_vars, NEW d \in Callers, cpc[d] = "gone"
  PROVE  cpc'[d] = "gone"
<1> USE DEF Advance, ClientTypeOK
<1>1. CASE UNCHANGED apiVars  BY <1>1 DEF apiVars
<1>2. ASSUME NEW c \in Callers, getJobState(c) \/ waitForJob(c) \/ Call(c) \/ Free(c)
      PROVE  cpc'[d] = "gone"
  <2>1. CASE getJobState(c)  BY <2>1 DEF getJobState, ReadStage, ReadCounters
  <2>2. CASE LockWait(c)  BY <2>2 DEF LockWait
  <2>3. CASE Join(c)  BY <2>3 DEF Join
  <2>4. CASE SetFlag(c) \/ UnlockWait(c)  BY <2>4 DEF SetFlag, UnlockWait
  <2>5. CASE Call(c) \/ Free(c)  BY <2>5 DEF Call, CallWait, Retire, CallClose, Free
  <2> QED  BY <1>2, <2>1, <2>2, <2>3, <2>4, <2>5 DEF waitForJob
<1> QED  BY <1>1, <1>2 DEF JobNext, Closed, vars

(* No step of a test fails.                                                *)
LEMMA JudgeStep ==
  ASSUME ControlTypeOK, WorkerInv, DataInv, DataInv', ClientTypeOK, HandleInv,
         ProgressInv, ProgressInv', CountInv, OutputExact, JudgeInv, [TestNext]_testVars
  PROVE  JudgeInv'
<1> USE CallersAssumption
<1>0. [JobNext]_vars  BY TestStepsJob
<1>1. /\ state \in ReportType /\ state' \in ReportType /\ last \in ReportType
      /\ Ahead(state, last)
  BY DEF ProgressInv, ReportTypeOK, state, JudgeInv
<1>2. Ahead(state', state)  BY <1>0, ProgressStep DEF state
<1>3. CASE UNCHANGED <<at, last>>
  <2>1. Ahead(state', last)  BY <1>1, <1>2, AheadTransitive
  <2>2. at = "ended" => cpc'[Closer] = "gone"  BY <1>0, GoneStays DEF JudgeInv
  <2> QED  BY <1>1, <1>3, <2>1, <2>2 DEF JudgeInv
<1>4. CASE TestStep
  <2>1. /\ report' = report /\ (last' = last \/ last' = state)
        /\ at' = "ended" => cpc[Closer] = "gone" /\ cpc' = cpc
        /\ at' = "failed" => Bad \/ (OutputFails /\ cpc[Closer] = "gone")
    BY <1>4, TestMoves
  <2>2. ~ Bad
    <3>1. state.num <= state.den  BY NeverOver DEF state
    <3> QED  BY <1>1, <3>1, NotBad
  <2>3. cpc[Closer] = "gone" => ~ OutputFails
    BY DEF HandleInv, CloseInv, JoinInv, OutputExact, OutputFails
  <2>4. state' = state /\ Ahead(state, state)  BY <1>1, <2>1 DEF state, Ahead, ReportType
  <2>5. last' \in ReportType /\ Ahead(state', last')  BY <1>1, <2>1, <2>4
  <2> QED  BY <2>1, <2>2, <2>3, <2>5 DEF JudgeInv
<1> QED
  BY <1>3, <1>4
  DEF TestNext, WorkersRun, WorkerWithClient, Keep, ClientsRun, InCall, OtherClient, Ended,
      testVars, clientVars

(* The invariant of the tests' judgement holds in each test.             *)
LEMMA TestJudge == TestSpec => []JudgeInv
<1>1. (ControlTypeOK /\ WorkerInv) /\ DataInv /\ DataInv' /\ (ClientTypeOK /\ HandleInv)
        /\ ProgressInv /\ ProgressInv' /\ CountInv /\ OutputExact /\ JudgeInv
        /\ [TestNext]_testVars
      => JudgeInv'
  BY JudgeStep
<1> QED
  BY <1>1, InitJudge, TestsRunJobs, WorkerInvariant, DataInvariant, OutputIsExact,
     TestHandle, TestProgress, TestCounts, PTL
  DEF TestSpec

(* For every number of workers and clients and every input: progress stays *)
(* between 0 and 100 and never goes back, and the output is right          *)
(* (mattanTests/SampleClient.cpp:280-302, 330-338, 447-464).               *)
THEOREM NoCheckEverFails == TestSpec => []NoCheckFails
<1>1. JudgeInv => NoCheckFails  BY DEF JudgeInv, NoCheckFails
<1> QED  BY <1>1, TestJudge, PTL

-----------------------------------------------------------------------------
KeepTypeOK ==
    /\ resources \in Seq(AllPairs)
    /\ k2Mutex \in Threads \cup {NoThread}
    /\ kpc \in [Threads -> {"lock", "push", "kept"}]
    /\ end \in [Threads -> Nat]

(* The pairs that were kept and are about to be emitted.                   *)
Given == {Pair(my[t], pos[t]) : t \in {u \in Threads : kpc[u] = "kept"}}

(* The client owns each pair that was emitted, and those that are about to *)
(* be, once; who is about to add a pair holds the mutex, and nothing was   *)
(* added since it read where to write.                                     *)
KeepInv ==
    /\ IsInjective(resources)
    /\ ToSet(resources) = Emitted \cup Given
    /\ \A t \in Threads :
          /\ kpc[t] \in {"push", "kept"} => Emitting(t)
          /\ kpc[t] = "push" => k2Mutex = t /\ end[t] = Len(resources)

(* The sample client emits its pairs at once.                              *)
OwnerInv ==
    /\ KeepTypeOK
    /\ IF test = "main" THEN \A t \in Threads : kpc[t] = "kept" ELSE KeepInv

(* The client owns nothing at first.                                     *)
LEMMA InitOwner == TestInit => OwnerInv
<1> SUFFICES ASSUME TestInit PROVE OwnerInv  OBVIOUS
<1>1. /\ resources = <<>> /\ k2Mutex = NoThread
      /\ kpc = [t \in Threads |-> IF test = "main" THEN "kept" ELSE "lock"]
      /\ end = [t \in Threads |-> 0] /\ MapReduceInit
  BY DEF TestInit, JobInitWith
<1>2. KeepTypeOK  BY <1>1 DEF KeepTypeOK
<1>3. ASSUME test # "main"  PROVE KeepInv
  <2>1. \A t \in Threads : kpc[t] = "lock"  BY <1>1, <1>3
  <2>2. ToSet(resources) = {} /\ IsInjective(resources)
    <3>1. Len(resources) = 0 /\ resources \in Seq(AllPairs)  BY <1>1
    <3> QED  BY <3>1, EmptyList
  <2>3. Emitted = {}
    <3>1. job.inputCounter = 0  BY <1>1 DEF MapReduceInit
    <3>2. \A p \in AllPairs : ~ (p.id[1] < 0)  BY PairFields
    <3> QED  BY <3>1, <3>2 DEF Emitted
  <2>4. Given = {}  BY <2>1 DEF Given
  <2> QED  BY <2>1, <2>2, <2>3, <2>4 DEF KeepInv
<1>4. test = "main" => \A t \in Threads : kpc[t] = "kept"  BY <1>1
<1> QED  BY <1>2, <1>3, <1>4 DEF OwnerInv

(* A worker moves itself.                                                  *)
LEMMA OthersStay ==
  ASSUME ControlTypeOK, DataTypeOK, NEW t \in Threads, Create(t) \/ map_reduce_for_thread(t)
  PROVE  \A u \in Threads \ {t} : wpc'[u] = wpc[u] /\ my'[u] = my[u] /\ pos'[u] = pos[u]
<1> USE DEF ControlTypeOK, DataTypeOK, Goto, dataVars
<1>1. CASE Create(t) \/ MapTest(t) \/ ReduceTest(t)
  BY <1>1 DEF Create, MapTest, ReduceTest
<1>2. CASE AtBarrier(t) \/ LeaveBarrier(t)  BY <1>2 DEF AtBarrier, LeaveBarrier
<1>3. CASE StoreMax(t) \/ StoreMapStage(t) \/ MapDone(t)
  BY <1>3 DEF StoreMax, StoreMapStage, MapDone
<1>4. CASE MapFetch(t)  BY <1>4 DEF MapFetch
<1>5. CASE emit2(t) \/ ShuffleGroup(t)  BY <1>5 DEF emit2, ShuffleGroup
<1>6. CASE Sort(t)  BY <1>6 DEF Sort
<1>7. CASE BeginShuffle(t) \/ EndShuffle(t) \/ ReduceFetch(t) \/ ReduceDone(t)
  BY <1>7 DEF BeginShuffle, EndShuffle, ReduceFetch, ReduceDone
<1>8. CASE emit3Lock(t) \/ emit3Push(t)  BY <1>8 DEF emit3Lock, emit3Push
<1> QED  BY <1>1, <1>2, <1>3, <1>4, <1>5, <1>6, <1>7, <1>8
         DEF map_reduce_for_thread, MapStep, ShuffleStep, ReduceStep

(* Inside map, the next pair is emitted; the only way to emit one.         *)
LEMMA EmittingEmits ==
  ASSUME NEW t \in Threads, Create(t) \/ map_reduce_for_thread(t)
  PROVE  Emitting(t) <=> emit2(t)
<1> USE DEF Emitting, Goto
<1>1. emit2(t) => Emitting(t)  BY DEF emit2
<1>2. ASSUME Emitting(t)  PROVE emit2(t)
  <2>1. ~ (Create(t) \/ MapTest(t) \/ Sort(t) \/ ReduceTest(t) \/ StoreMax(t) \/ StoreMapStage(t))
    BY <1>2 DEF Create, MapTest, Sort, ReduceTest, StoreMax, StoreMapStage
  <2>2. ~ (AtBarrier(t) \/ LeaveBarrier(t) \/ MapDone(t) \/ MapFetch(t))
    BY <1>2 DEF AtBarrier, LeaveBarrier, MapDone, MapFetch
  <2>3. ~ (BeginShuffle(t) \/ ShuffleGroup(t) \/ EndShuffle(t))
    BY <1>2 DEF BeginShuffle, ShuffleGroup, EndShuffle
  <2>4. ~ (ReduceFetch(t) \/ ReduceDone(t) \/ emit3Lock(t) \/ emit3Push(t))
    BY <1>2 DEF ReduceFetch, ReduceDone, emit3Lock, emit3Push
  <2> QED  BY <2>1, <2>2, <2>3, <2>4 DEF map_reduce_for_thread, MapStep, ShuffleStep, ReduceStep
<1> QED  BY <1>1, <1>2

(* No other step of a worker emits a pair.                               *)
LEMMA EmittedSame ==
  ASSUME ControlTypeOK, DataTypeOK, PhaseInv, NEW t \in Threads,
         Create(t) \/ map_reduce_for_thread(t), ~ Emitting(t)
  PROVE  Emitted' = Emitted
<1>1. [WorkerNext \/ Returned]_workerVars  BY DEF WorkerNext
<1>2. CASE Quiet
  <2>1. MapAlone  BY <1>2 DEF Quiet, MapAlone
  <2> QED  BY <2>1, EmittedAlone
<1>3. ASSUME NEW u \in Threads, MapFetch(u) \/ MapDone(u)  PROVE Emitted' = Emitted
  BY <1>3, EmittedFetch, EmittedDone
<1>4. ASSUME NEW u \in Threads, emit2(u)  PROVE FALSE
  <2>1. u # t  BY <1>4, EmittingEmits
  <2>2. pos'[u] = pos[u]  BY <2>1, OthersStay
  <2>3. pos[u] \in Nat /\ pos'[u] = pos[u] + 1  BY <1>4 DEF emit2, DataTypeOK
  <2> QED  BY <2>2, <2>3
<1>5. ASSUME NEW u \in Threads, Sort(u) \/ ShuffleGroup(u)  PROVE Emitted' = Emitted
  <2>1. job'.inputCounter = job.inputCounter
    BY <1>5 DEF Sort, ShuffleGroup, DataTypeOK, JobType
  <2>2. MapAlone  BY <1>5, <2>1 DEF Sort, ShuffleGroup, Goto, MapAlone, ControlTypeOK
  <2> QED  BY <2>2, EmittedAlone
<1> QED  BY <1>1, <1>2, <1>3, <1>4, <1>5, StepKinds

(* A pair that is about to be kept is not owned yet.                       *)
LEMMA KeptIsNew ==
  ASSUME ControlTypeOK, WorkerInv, DataInv, KeepInv, NEW t \in Threads, kpc[t] = "push"
  PROVE  LET p == Pair(my[t], pos[t])
         IN  p \in AllPairs /\ p \notin ToSet(resources)
<1> DEFINE p == Pair(my[t], pos[t])
<1>0. DataTypeOK /\ PhaseInv /\ PlacedInv /\ DistinctWork  BY DEF DataInv, WorkerInv
<1>1. ASSUME NEW u \in Threads, Emitting(u)
      PROVE  /\ Pair(my[u], pos[u]) \in AllPairs
             /\ Pair(my[u], pos[u]).id[1] = my[u] /\ Pair(my[u], pos[u]).id[2] = pos[u]
             /\ wpc[u] = "map"
  <2>1. wpc[u] = "map" /\ pos[u] \in DOMAIN Emits[my[u] + 1]  BY <1>1 DEF Emitting
  <2>2. my[u] \in 0 .. Inputs - 1
    BY <1>0, <2>1, InputsType DEF PhaseInv, PhaseThread, ControlTypeOK
  <2>3. pos[u] \in 1 .. Len(Emits[my[u] + 1])  BY <2>1, <2>2, InputsType
  <2> QED  BY <2>1, <2>2, <2>3, PairFields
<1>2. Emitting(t)  BY DEF KeepInv
<1>3. p \in AllPairs /\ p.id[1] = my[t] /\ p.id[2] = pos[t] /\ wpc[t] = "map"
  BY <1>1, <1>2
<1> HIDE DEF p
<1>4. p \notin Emitted
  <2>1. pos[t] \in Nat  BY <1>0 DEF DataTypeOK
  <2>2. ~ (p.id[2] < pos[t])  BY <1>3, <2>1
  <2> QED  BY <1>3, <2>2 DEF Emitted
<1>5. p \notin Given
  <2> SUFFICES ASSUME NEW u \in Threads, kpc[u] = "kept", p = Pair(my[u], pos[u])
               PROVE  FALSE
    BY DEF Given
  <2>1. Emitting(u)  BY DEF KeepInv
  <2>2. my[u] = my[t] /\ wpc[u] = "map"  BY <1>1, <1>3, <2>1
  <2>3. u # t  OBVIOUS
  <2> QED  BY <1>0, <1>3, <2>2, <2>3 DEF DistinctWork
<1> QED  BY <1>3, <1>4, <1>5 DEF KeepInv, p

(* The steps of the client's map: it takes the mutex, and adds the pair.   *)
LEMMA KeepStep ==
  ASSUME ControlTypeOK, WorkerInv, DataInv, OwnerInv, NEW t \in Threads, Keep(t)
  PROVE  OwnerInv'
<1>1. UNCHANGED <<wpc, my, pos, job, test>>  BY DEF Keep, vars, workerVars
<1>2. Emitted' = Emitted /\ \A u \in Threads : Emitting(u)' <=> Emitting(u)
  BY <1>1 DEF Emitted, Emitting
<1>3. \A u \in Threads : u # NoThread  BY DEF Threads, NoThread
<1>4. kpc[t] \in {"lock", "push"}  BY DEF Keep, KeepLock, KeepPush
<1>5. KeepTypeOK /\ KeepInv /\ test # "main"  BY <1>4 DEF OwnerInv
<1>6. CASE KeepLock(t)
  <2>1. /\ Emitting(t) /\ kpc[t] = "lock" /\ k2Mutex = NoThread /\ k2Mutex' = t
        /\ end' = [end EXCEPT ![t] = Len(resources)]
        /\ kpc' = [kpc EXCEPT ![t] = "push"] /\ resources' = resources
    BY <1>6 DEF KeepLock
  <2>2. KeepTypeOK'  BY <1>5, <2>1 DEF KeepTypeOK
  <2>3. {u \in Threads : kpc'[u] = "kept"} = {u \in Threads : kpc[u] = "kept"}
    BY <1>5, <2>1 DEF KeepTypeOK
  <2>4. Given' = Given  BY <1>1, <2>3 DEF Given
  <2>5. \A u \in Threads : kpc[u] # "push"  BY <1>3, <1>5, <2>1 DEF KeepInv
  <2>6. \A u \in Threads :
           /\ kpc'[u] \in {"push", "kept"} => Emitting(u)'
           /\ kpc'[u] = "push" => k2Mutex' = u /\ end'[u] = Len(resources')
    BY <1>2, <1>5, <2>1, <2>5 DEF KeepInv, KeepTypeOK
  <2>7. KeepInv'  BY <1>2, <1>5, <2>1, <2>4, <2>6 DEF KeepInv
  <2> QED  BY <1>1, <1>5, <2>2, <2>7 DEF OwnerInv
<1>7. CASE KeepPush(t)
  <2> DEFINE p == Pair(my[t], pos[t])
  <2>1. /\ kpc[t] = "push" /\ k2Mutex' = NoThread
        /\ resources' = Append(SubSeq(resources, 1, end[t]), p)
        /\ kpc' = [kpc EXCEPT ![t] = "kept"] /\ end' = [end EXCEPT ![t] = 0]
    BY <1>7 DEF KeepPush
  <2>2. p \in AllPairs /\ p \notin ToSet(resources)  BY <1>5, <2>1, KeptIsNew
  <2>3. k2Mutex = t /\ end[t] = Len(resources)  BY <1>5, <2>1 DEF KeepInv
  <2>4. resources' = Append(resources, p)
    <3>1. SubSeq(resources, 1, Len(resources)) = resources  BY <1>5 DEF KeepTypeOK
    <3> QED  BY <2>1, <2>3, <3>1
  <2>5. Given' = Given \cup {p}
    <3>1. {u \in Threads : kpc'[u] = "kept"} = {u \in Threads : kpc[u] = "kept"} \cup {t}
      BY <1>5, <2>1 DEF KeepTypeOK
    <3> QED  BY <1>1, <3>1 DEF Given
  <2> HIDE DEF p
  <2>6. /\ resources' \in Seq(AllPairs) /\ IsInjective(resources')
        /\ ToSet(resources') = ToSet(resources) \cup {p}
    BY <1>5, <2>2, <2>4, InjectiveAppend, AppendElements DEF KeepTypeOK, KeepInv
  <2>7. KeepTypeOK'  BY <1>5, <2>1, <2>6 DEF KeepTypeOK
  <2>8. \A u \in Threads : kpc'[u] # "push"  BY <1>5, <2>1, <2>3 DEF KeepInv, KeepTypeOK
  <2>9. \A u \in Threads : kpc'[u] \in {"push", "kept"} => Emitting(u)'
    BY <1>2, <1>5, <2>1 DEF KeepInv, KeepTypeOK
  <2>10. ToSet(resources') = Emitted' \cup Given'
    BY <1>2, <1>5, <2>5, <2>6 DEF KeepInv
  <2>11. KeepInv'  BY <2>6, <2>8, <2>9, <2>10 DEF KeepInv
  <2> QED  BY <1>1, <1>5, <2>7, <2>11 DEF OwnerInv
<1> QED  BY <1>6, <1>7 DEF Keep

(* A worker emits what was kept, and nothing else.                         *)
LEMMA WorkerKeeps ==
  ASSUME ControlTypeOK, WorkerInv, DataInv, OwnerInv, NEW t \in Threads, WorkerWithClient(t)
  PROVE  OwnerInv'
<1>0. /\ DataTypeOK /\ PhaseInv /\ PlacedInv /\ ClaimInv /\ DistinctWork /\ KeepTypeOK
      /\ UNCHANGED <<resources, k2Mutex, end, test>>
      /\ Create(t) \/ map_reduce_for_thread(t)
  BY DEF DataInv, WorkerInv, OwnerInv, WorkerWithClient
<1>1. KeepTypeOK'  BY <1>0 DEF KeepTypeOK, WorkerWithClient
<1>2. CASE test = "main"
  <2>1. \A u \in Threads : kpc'[u] = "kept"
    BY <1>0, <1>2 DEF OwnerInv, KeepTypeOK, WorkerWithClient
  <2> QED  BY <1>0, <1>1, <1>2, <2>1 DEF OwnerInv
<1>3. CASE test # "main" /\ Emitting(t)
  <2> DEFINE p == Pair(my[t], pos[t])
  <2>1. KeepInv  BY <1>3 DEF OwnerInv
  <2>2. kpc[t] = "kept" /\ kpc' = [kpc EXCEPT ![t] = "lock"]
    BY <1>3 DEF WorkerWithClient
  <2>3. emit2(t)  BY <1>0, <1>3, EmittingEmits
  <2>4. Emitted' = Emitted \cup {p}  BY <1>0, <2>3, EmittedEmit
  <2>5. \A u \in Threads \ {t} : wpc'[u] = wpc[u] /\ my'[u] = my[u] /\ pos'[u] = pos[u]
    BY <1>0, OthersStay
  <2>6. {u \in Threads : kpc'[u] = "kept"} = {u \in Threads : kpc[u] = "kept"} \ {t}
    BY <1>0, <2>2 DEF KeepTypeOK
  <2>7. Given = Given' \cup {p}
    <3>1. Given' = {Pair(my'[u], pos'[u]) : u \in {v \in Threads : kpc[v] = "kept"} \ {t}}
      BY <2>6 DEF Given
    <3>2. Given' = {Pair(my[u], pos[u]) : u \in {v \in Threads : kpc[v] = "kept"} \ {t}}
      BY <2>5, <3>1
    <3> QED  BY <2>2, <3>2 DEF Given
  <2>8. ToSet(resources') = Emitted' \cup Given'  BY <1>0, <2>1, <2>4, <2>7 DEF KeepInv
  <2>9. ASSUME NEW u \in Threads
        PROVE  /\ kpc'[u] \in {"push", "kept"} => Emitting(u)'
               /\ kpc'[u] = "push" => k2Mutex' = u /\ end'[u] = Len(resources')
    <3>1. CASE u = t  BY <1>0, <2>2, <3>1 DEF KeepTypeOK
    <3>2. CASE u # t
      BY <1>0, <2>1, <2>2, <2>5, <3>2 DEF KeepInv, KeepTypeOK, Emitting
    <3> QED  BY <3>1, <3>2
  <2>10. KeepInv'  BY <1>0, <2>1, <2>8, <2>9 DEF KeepInv
  <2> QED  BY <1>0, <1>1, <1>3, <2>10 DEF OwnerInv
<1>4. CASE test # "main" /\ ~ Emitting(t)
  <2>1. KeepInv /\ kpc' = kpc  BY <1>4 DEF OwnerInv, WorkerWithClient
  <2>2. kpc[t] = "lock"  BY <1>0, <1>4, <2>1 DEF KeepInv, KeepTypeOK
  <2>3. Emitted' = Emitted  BY <1>0, <1>4, EmittedSame
  <2>4. \A u \in Threads \ {t} : wpc'[u] = wpc[u] /\ my'[u] = my[u] /\ pos'[u] = pos[u]
    BY <1>0, OthersStay
  <2>5. Given' = Given
    <3>1. \A u \in {v \in Threads : kpc[v] = "kept"} : my'[u] = my[u] /\ pos'[u] = pos[u]
      BY <2>2, <2>4
    <3> QED  BY <2>1, <3>1 DEF Given
  <2>6. \A u \in Threads : kpc[u] \in {"push", "kept"} => Emitting(u)'
    BY <2>1, <2>2, <2>4 DEF KeepInv, Emitting
  <2>7. KeepInv'  BY <1>0, <2>1, <2>3, <2>5, <2>6 DEF KeepInv
  <2> QED  BY <1>0, <1>1, <1>4, <2>7 DEF OwnerInv
<1> QED  BY <1>2, <1>3, <1>4

(* No step makes the client lose a pair or own it twice.                 *)
LEMMA OwnerStep ==
  ASSUME ControlTypeOK, WorkerInv, DataInv, OwnerInv, [TestNext]_testVars
  PROVE  OwnerInv'
<1>1. CASE WorkersRun  BY <1>1, KeepStep, WorkerKeeps DEF WorkersRun
<1>2. CASE UNCHANGED <<workerVars, test, keepVars>>
  <2>1. UNCHANGED <<job, wpc, my, pos, test, resources, k2Mutex, kpc, end>>
    BY <1>2 DEF workerVars, keepVars
  <2>2. Emitted' = Emitted /\ Given' = Given /\ \A t \in Threads : Emitting(t)' <=> Emitting(t)
    BY <2>1 DEF Emitted, Given, Emitting
  <2>3. KeepInv => KeepInv'  BY <2>1, <2>2 DEF KeepInv
  <2> QED  BY <2>1, <2>3 DEF OwnerInv, KeepTypeOK
<1>3. CASE ClientsRun
  <2>1. TestStep => UNCHANGED <<test, keepVars>>
    BY DEF TestStep, main, waitAndCloseTest, outputTest, progressTest, deadlockTest,
           randbody, Polling, GetState, GetStateAgain, WaitThen, Close, Fail,
           Leave, Moves
  <2> QED  BY <1>2, <1>3, <2>1 DEF ClientsRun, InCall, OtherClient, clientVars, keepVars
<1>4. CASE Ended \/ UNCHANGED testVars
  BY <1>2, <1>4 DEF Ended, testVars, vars, clientVars, keepVars
<1> QED  BY <1>1, <1>3, <1>4 DEF TestNext

(* For every number of workers and clients and every input: when a test    *)
(* has ended the job is freed, no thread of it runs, and the client owns   *)
(* each pair once (mattanTests/SampleClient.cpp:86-92, 445, 469).          *)
THEOREM ResourcesAreKept == TestSpec => []ResourcesKept
<1>1. ASSUME DataInv, HandleInv, JudgeInv, OwnerInv, at = "ended"
      PROVE  /\ AllDone /\ freed
             /\ test # "main" =>
                   Len(resources) = Cardinality(AllPairs) /\ ToSet(resources) = AllPairs
  <2>1. AllDone /\ freed  BY <1>1 DEF JudgeInv, HandleInv, CloseInv, JoinInv
  <2>2. ASSUME test # "main"
        PROVE  Len(resources) = Cardinality(AllPairs) /\ ToSet(resources) = AllPairs
    <3>1. KeepInv /\ KeepTypeOK  BY <1>1, <2>2 DEF OwnerInv
    <3>2. \A t \in Threads : ~ Emitting(t)  BY <2>1 DEF AllDone, Emitting
    <3>3. Given = {}  BY <3>1, <3>2 DEF KeepInv, Given
    <3>4. Emitted = AllPairs
      <4>1. Main \in Threads  BY NAssumption DEF Main, Threads
      <4>2. job.stage = REDUCE
        BY <1>1, <2>1, <4>1 DEF AllDone, DataInv, PhaseInv, PhaseMain, AfterShuffle
      <4> QED  BY <1>1, <4>2, AllPlaced DEF DataInv, PlacedInv
    <3>5. ToSet(resources) = AllPairs  BY <3>1, <3>3, <3>4 DEF KeepInv
    <3>6. Cardinality(ToSet(resources)) = Len(resources)
      BY <3>1, InjectiveLength DEF KeepInv, KeepTypeOK
    <3> QED  BY <3>5, <3>6
  <2> QED  BY <2>1, <2>2
<1>2. DataInv /\ (ClientTypeOK /\ HandleInv) /\ JudgeInv /\ OwnerInv => ResourcesKept
  BY <1>1 DEF ResourcesKept
<1>3. (ControlTypeOK /\ WorkerInv) /\ DataInv /\ OwnerInv /\ [TestNext]_testVars => OwnerInv'
  BY OwnerStep
<1> QED
  BY <1>2, <1>3, InitOwner, TestJudge, TestsRunJobs, WorkerInvariant, DataInvariant,
     TestHandle, PTL
  DEF TestSpec
=============================================================================
