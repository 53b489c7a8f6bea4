----------------------------- MODULE JobHandle -----------------------------
(***************************************************************************)
(* A map-reduce job together with the client threads that use its handle:  *)
(* getJobState, waitForJob and closeJobHandle of                           *)
(* OS_ex3/Resources/MapReduceFramework.cpp run concurrently with the       *)
(* workers of MapReduce.                                                   *)
(***************************************************************************)
EXTENDS MapReduce

CONSTANTS
    Callers,   \* client threads that were given the handle
    Pollers,   \* those that call getJobState
    Closer,    \* the one that closes it
    NoCaller

ASSUME CallersAssumption ==
    Closer \in Callers /\ Pollers \subseteq Callers /\ NoCaller \notin Callers

VARIABLES
    cpc,       \* which call each caller is in, and where
    seen,      \* cur_state, the stage a getJobState call has read
    report,    \* the JobState its last getJobState call returned
    stateMutex,\* the holder of job_state_mutex
    waitMutex, \* the holder of wait_for_job_mutex
    flag,      \* contexts[0]->flag: the threads have been joined
    next,      \* the loop index of waitForJob
    joins,     \* history: pthread_join calls that returned, per thread
    freed      \* closeJobHandle has deleted the contexts

apiVars == <<cpc, seen, report, stateMutex, waitMutex, flag, next, joins, freed>>
vars == <<workerVars, apiVars>>

CallerPc == {"ready", "state", "wait", "join", "unlock", "waited",
             "close", "closeJoin", "closeUnlock", "free", "gone"}

(* A percentage is kept as the fraction num / den.                         *)
Fraction(s, a, b) == [stage |-> s, num |-> a, den |-> b]

JobInitWith(places) ==
    /\ MapReduceInit
    /\ cpc = places
    /\ seen = [c \in Callers |-> UNDEFINED]
    /\ report = [c \in Callers |-> Fraction(UNDEFINED, 0, 1)]
    /\ stateMutex = NoCaller /\ waitMutex = NoCaller
    /\ flag = FALSE /\ next = 0
    /\ joins = [t \in Threads |-> 0]
    /\ freed = FALSE

JobInit == JobInitWith([c \in Callers |-> "ready"])

(* startMapReduceJob returns the handle when all threads are created.      *)
Started == \A t \in Threads : wpc[t] # "none"

Advance(c, from, to) == cpc[c] = from /\ cpc' = [cpc EXCEPT ![c] = to]

-----------------------------------------------------------------------------
(* getJobState reads the stage, and later the counters of that stage; the  *)
(* workers write both without taking job_state_mutex.                      *)
ReadStage(c) ==
    /\ Started /\ c \in Pollers
    /\ Advance(c, "ready", "state")
    /\ stateMutex = NoCaller
    /\ stateMutex' = c
    /\ seen' = [seen EXCEPT ![c] = job.stage]
    /\ UNCHANGED <<report, waitMutex, flag, next, joins, freed>>

(* Mutant of Percentage: what was handed out to a thread counts as done.   *)
PercentageOfClaims(s) ==
    CASE s = UNDEFINED -> Fraction(s, 0, 1)
      [] s = MAP -> Fraction(s, job.inputCounter, job.maxForMap)
      [] s = SHUFFLE -> Fraction(s, job.shuffleFinished, job.maxForShuffle)
      [] s = REDUCE -> Fraction(s, job.interCounter, job.maxForShuffle)

(* Line 314 compares the pointer max_for_map with 0, never the value.      *)
Percentage(s) ==
    CASE s = UNDEFINED -> Fraction(s, 0, 1)
      [] s = MAP -> Fraction(s, job.mapFinished, job.maxForMap)
      [] s = SHUFFLE -> Fraction(s, job.shuffleFinished, job.maxForShuffle)
      [] s = REDUCE -> Fraction(s, job.reduceFinished, job.maxForShuffle)

ReadCounters(c) ==
    /\ Advance(c, "state", "ready")
    /\ report' = [report EXCEPT ![c] = Percentage(seen[c])]
    /\ stateMutex' = NoCaller
    /\ UNCHANGED <<seen, waitMutex, flag, next, joins, freed>>

(* waitForJob, called directly or by closeJobHandle (AfterWait).           *)
CallWait(c) ==
    /\ Started
    /\ Advance(c, "ready", "wait")
    /\ UNCHANGED <<seen, report, stateMutex, waitMutex, flag, next, joins, freed>>

(* Mutants of LockWait: the flag is not tested; the loop starts at 1; a    *)
(* call that finds the flag set returns at once, with the mutex.           *)
LockWaitNoFlag(c) ==
    /\ waitMutex = NoCaller
    /\ waitMutex' = c
    /\ next' = 0
    /\ Advance(c, "wait", "join") \/ Advance(c, "close", "closeJoin")
    /\ UNCHANGED <<seen, report, stateMutex, flag, joins, freed>>

LockWaitFromOne(c) ==
    /\ waitMutex = NoCaller
    /\ waitMutex' = c
    /\ next' = 1
    /\ \/ Advance(c, "wait", IF flag THEN "unlock" ELSE "join")
       \/ Advance(c, "close", IF flag THEN "closeUnlock" ELSE "closeJoin")
    /\ UNCHANGED <<seen, report, stateMutex, flag, joins, freed>>

LockWaitReturns(c) ==
    /\ waitMutex = NoCaller
    /\ waitMutex' = c
    /\ next' = 0
    /\ \/ Advance(c, "wait", IF flag THEN "waited" ELSE "join")
       \/ Advance(c, "close", IF flag THEN "free" ELSE "closeJoin")
    /\ UNCHANGED <<seen, report, stateMutex, flag, joins, freed>>

LockWait(c) ==
    /\ waitMutex = NoCaller
    /\ waitMutex' = c
    /\ next' = 0
    /\ \/ Advance(c, "wait", IF flag THEN "unlock" ELSE "join")
       \/ Advance(c, "close", IF flag THEN "closeUnlock" ELSE "closeJoin")
    /\ UNCHANGED <<seen, report, stateMutex, flag, joins, freed>>

Join(c) ==
    /\ cpc[c] \in {"join", "closeJoin"}
    /\ next \in Threads /\ wpc[next] = "done"
    /\ joins' = [joins EXCEPT ![next] = @ + 1]
    /\ next' = next + 1
    /\ UNCHANGED <<cpc, seen, report, stateMutex, waitMutex, flag, freed>>

SetFlag(c) ==
    /\ next = N
    /\ \/ Advance(c, "join", "unlock")
       \/ Advance(c, "closeJoin", "closeUnlock")
    /\ flag' = TRUE
    /\ UNCHANGED <<seen, report, stateMutex, waitMutex, next, joins, freed>>

UnlockWait(c) ==
    /\ \/ Advance(c, "unlock", "waited")
       \/ Advance(c, "closeUnlock", "free")
    /\ waitMutex' = NoCaller
    /\ UNCHANGED <<seen, report, stateMutex, flag, next, joins, freed>>

(* A caller that is through with the handle; only then may it be closed.   *)
Retire(c) ==
    /\ c # Closer
    /\ Advance(c, "ready", "gone") \/ Advance(c, "waited", "gone")
    /\ UNCHANGED <<seen, report, stateMutex, waitMutex, flag, next, joins, freed>>

CallClose(c) ==
    /\ Started
    /\ c = Closer /\ \A d \in Callers \ {c} : cpc[d] = "gone"
    /\ Advance(c, "ready", "close") \/ Advance(c, "waited", "close")
    /\ UNCHANGED <<seen, report, stateMutex, waitMutex, flag, next, joins, freed>>

(* The deletes of closeJobHandle.                                          *)
Free(c) ==
    /\ Advance(c, "free", "gone")
    /\ freed' = TRUE
    /\ UNCHANGED <<seen, report, stateMutex, waitMutex, flag, next, joins>>

-----------------------------------------------------------------------------
getJobState(c) == ReadStage(c) \/ ReadCounters(c)
waitForJob(c) == LockWait(c) \/ Join(c) \/ SetFlag(c) \/ UnlockWait(c)
Call(c) == CallWait(c) \/ Retire(c) \/ CallClose(c)

Closed == freed /\ AllDone /\ UNCHANGED vars

JobNext ==
    \/ WorkerNext /\ UNCHANGED apiVars
    \/ \E c \in Callers :
          (getJobState(c) \/ waitForJob(c) \/ Call(c) \/ Free(c)) /\ UNCHANGED workerVars
    \/ Closed

(* The workers as a whole run whenever they can, and so do the callers     *)
(* that are inside waitForJob or closeJobHandle.  This is less than a fair *)
(* scheduler gives each thread.  Nothing obliges a client to make a call.  *)
JobFairness ==
    /\ WF_vars(WorkerNext /\ UNCHANGED apiVars)
    /\ WF_vars(\E c \in Callers : (waitForJob(c) \/ Free(c)) /\ UNCHANGED workerVars)

JobSpec == JobInit /\ [][JobNext]_vars /\ JobFairness

-----------------------------------------------------------------------------
JobTypeOK ==
    /\ MapReduceTypeOK
    /\ cpc \in [Callers -> CallerPc]
    /\ seen \in [Callers -> Stages]
    /\ report \in [Callers -> [stage : Stages, num : Nat, den : Nat]]
    /\ {stateMutex, waitMutex} \subseteq Callers \cup {NoCaller}
    /\ flag \in BOOLEAN /\ freed \in BOOLEAN
    /\ next \in 0 .. N
    /\ joins \in [Threads -> Nat]

(* Successive JobStates seen by one caller never go back in stage, nor in  *)
(* percentage within a stage (mattanTests/SampleClient.cpp:333-337),       *)
(* though stage and counters are read at different times.                  *)
NotBefore(new, old) ==
    \/ new.stage > old.stage
    \/ new.stage = old.stage /\ new.num * old.den >= old.num * new.den

ProgressMonotone == [][\A c \in Callers : NotBefore(report'[c], report[c])]_vars

(* A caller that was told that REDUCE is at 100% can rely on the whole     *)
(* output being there, without waiting: that is how the sample client and  *)
(* the tests detect the end of a job (Sample Client/SampleClient.cpp:86).  *)
HundredPercent(r) == r.stage = REDUCE /\ r.num = r.den /\ r.den > 0

HundredMeansOutput ==
    \A c \in Callers : HundredPercent(report[c]) => ToSet(output) = Expected

(* However many callers wait or close, each thread is joined at most once, *)
(* and nobody's wait returns before all threads are done                   *)
(* (lines 347-372; mattanTests/SampleClient.cpp:128).                      *)
JoinedOnce == \A t \in Threads : joins[t] <= 1

WaitedMeansDone ==
    \A c \in Callers : cpc[c] \in {"waited", "closeUnlock", "free"} => AllDone

(* The contexts, mutexes and the barrier are deleted when no thread can    *)
(* touch them any more (lines 375-404).                                    *)
FreedUnused ==
    freed \/ cpc[Closer] = "free" =>
        /\ AllDone
        /\ mutex = NoThread /\ outMutex = NoThread
        /\ stateMutex = NoCaller /\ waitMutex = NoCaller

(* Who can take a step: the guards of a worker's steps, and of those of a  *)
(* caller that is inside a call.                                           *)
WorkerCanGo(t) ==
    CASE wpc[t] = "none" -> \A u \in Threads : u < t => wpc[u] # "none"
      [] wpc[t] \in {"barrier1", "barrier2"} ->
             bpc[t] \in {"in", "leaving"} \/ (bpc[t] \in {"out", "woken"} /\ mutex = NoThread)
      [] wpc[t] = "reduce" -> outMutex = NoThread
      [] OTHER -> wpc[t] # "done"

Calling == {c \in Callers : cpc[c] \notin {"ready", "waited", "gone"}}

CallerCanGo(c) ==
    CASE cpc[c] \in {"wait", "close"} -> waitMutex = NoCaller
      [] cpc[c] \in {"join", "closeJoin"} -> next = N \/ wpc[next] = "done"
      [] OTHER -> TRUE

(* As long as a thread is not done, some thread can go on: the barrier,    *)
(* the mutexes and the creation one by one never leave each thread waiting *)
(* for another (Barrier.cpp:26-48, MapReduceFramework.cpp:145, 290-301).   *)
(* Once all are done, some caller that is inside a call can: the holder of *)
(* wait_for_job_mutex releases it (lines 347-372).                         *)
NobodyStuck ==
    /\ AllDone \/ \E t \in Threads : WorkerCanGo(t)
    /\ AllDone /\ Calling # {} => \E c \in Calling : CallerCanGo(c)

(* Every job runs to completion with its whole output, whatever the        *)
(* clients do, and every waitForJob and closeJobHandle call returns: a     *)
(* caller joins all threads while it holds wait_for_job_mutex, and the     *)
(* others wait for it (lines 347-372).                                     *)
JobCompletes ==
    []<>/\ AllDone /\ ToSet(output) = Expected
        /\ \A c \in Callers : cpc[c] \in {"ready", "state", "waited", "gone"}
=============================================================================
