---------------------------- MODULE TestClients ----------------------------
(***************************************************************************)
(* The clients of the repository, run against the job of JobHandle: main() *)
(* of Sample Client/SampleClient.cpp and the tests of                      *)
(* mattanTests/SampleClient.cpp.  A behaviour is the body of one test with *)
(* one job; Closer is the thread that runs it.  In waitAndCloseTest the    *)
(* other Callers are further threads of the client, which wait for the     *)
(* same job.  Of randomTest there is only its body, randbody: the test     *)
(* itself (SampleClient.cpp:482-493) wants the process to be killed by     *)
(* signal 24, the limit of CPU time, and says of itself DIDNT PASS; both   *)
(* are about the time of many repetitions, which is not modelled.          *)
(***************************************************************************)
EXTENDS JobHandle

CONSTANT Tests  \* the programs to run

AllTests == {"main", "waitAndCloseTest", "outputTest", "progressTest",
             "deadlockTest", "randbody"}

ASSUME TestsAssumption == Tests \subseteq AllTests /\ Pollers = {Closer}

VARIABLES
    test,       \* the program of this behaviour
    at,         \* what its thread does when the call it is in returns
    last,       \* last_state
    resources,  \* resourcesK2 and resourcesV2: the pairs, as they were added
    k2Mutex,    \* the holder of k2ResourcesMutex
    kpc,        \* where each worker is in the body of CounterClient::map
    end         \* where its emplace_back will write

clientVars == <<test, at, last, resources, k2Mutex, kpc, end>>
keepVars == <<resources, k2Mutex, kpc, end>>
testVars == <<vars, clientVars>>

state == report[Closer]

TestInit ==
    /\ test \in Tests /\ at = "begin"
    /\ JobInitWith([c \in Callers |->
           IF c = Closer \/ test = "waitAndCloseTest" THEN "ready" ELSE "gone"])
    /\ last = Fraction(UNDEFINED, 0, 1)
    /\ resources = <<>> /\ k2Mutex = NoThread
    /\ kpc = [t \in Threads |-> IF test = "main" THEN "kept" ELSE "lock"]
    /\ end = [t \in Threads |-> 0]

-----------------------------------------------------------------------------
(* CounterClient::map of the tests keeps each pair in two vectors of the   *)
(* client, under a mutex, before it emits it; that of the sample client    *)
(* emits it at once.                                                       *)
Emitting(t) == wpc[t] = "map" /\ pos[t] \in DOMAIN Emits[my[t] + 1]

(* Mutant of KeepLock: k2ResourcesMutex is not taken.                      *)
KeepNoLock(t) ==
    /\ Emitting(t) /\ kpc[t] = "lock"
    /\ k2Mutex' = t
    /\ end' = [end EXCEPT ![t] = Len(resources)]
    /\ kpc' = [kpc EXCEPT ![t] = "push"]
    /\ UNCHANGED resources

KeepLock(t) ==
    /\ Emitting(t) /\ kpc[t] = "lock"
    /\ k2Mutex = NoThread
    /\ k2Mutex' = t
    /\ end' = [end EXCEPT ![t] = Len(resources)]
    /\ kpc' = [kpc EXCEPT ![t] = "push"]
    /\ UNCHANGED resources

KeepPush(t) ==
    /\ kpc[t] = "push"
    /\ resources' = Append(SubSeq(resources, 1, end[t]), Pair(my[t], pos[t]))
    /\ k2Mutex' = NoThread
    /\ kpc' = [kpc EXCEPT ![t] = "kept"]
    /\ end' = [end EXCEPT ![t] = 0]

Keep(t) == (KeepLock(t) \/ KeepPush(t)) /\ UNCHANGED <<vars, test, at, last>>

WorkerWithClient(t) ==
    /\ Create(t) \/ map_reduce_for_thread(t)
    /\ IF Emitting(t)
       THEN /\ kpc[t] = "kept"
            /\ kpc' = [kpc EXCEPT ![t] = IF test = "main" THEN "kept" ELSE "lock"]
       ELSE UNCHANGED kpc
    /\ UNCHANGED <<apiVars, test, at, last, resources, k2Mutex, end>>

-----------------------------------------------------------------------------
(* Comparisons of percentages; 0 / 0 is not equal to, less than or greater *)
(* than anything.                                                          *)
IsHundred(r) == r.den > 0 /\ r.num = r.den
Over100(r) == r.den > 0 /\ r.num > r.den
Less(r, s) == r.den > 0 /\ s.den > 0 /\ r.num * s.den < s.num * r.den

(* The three complaints of progressTest and randbody.                      *)
Bad ==
    \/ Over100(state)
    \/ last.stage = state.stage /\ Less(state, last)
    \/ last.stage > state.stage

(* The test's thread makes a call, or judges what the last one returned.   *)
Moves(from, to) == at = from /\ at' = to /\ UNCHANGED <<test, keepVars>>
Idle == cpc[Closer] \in {"ready", "waited"}
GetState(from, to) == Moves(from, to) /\ ReadStage(Closer) /\ UNCHANGED last
GetStateAgain(to, judged) ==
    /\ Moves("judge", to) /\ ReadStage(Closer)
    /\ last' = IF judged THEN state ELSE last
WaitThen(from, to) == Moves(from, to) /\ CallWait(Closer) /\ UNCHANGED last
Close(from) == Moves(from, "closing") /\ CallClose(Closer) /\ UNCHANGED last
Fail == Moves("judge", "failed") /\ Idle /\ UNCHANGED <<apiVars, last>>

(* getJobState(&state); while (!done) { ...; last_state = state;           *)
(* getJobState(&state); } closeJobHandle(job).                             *)
(* What a test that does not judge makes of last_state is only printed.    *)
Polling(done, judged, again) ==
    \/ GetState("begin", "judge")
    \/ ~done /\ ~(judged /\ Bad) /\ GetStateAgain(again, judged)
    \/ ~done /\ judged /\ Bad /\ Fail
    \/ done /\ Close("judge")

AtReduce100 == state.stage = REDUCE /\ IsHundred(state)

main == Polling(AtReduce100, FALSE, "judge")

waitAndCloseTest ==
    \/ GetState("begin", "wait")
    \/ WaitThen("wait", "close")
    \/ Close("close")

outputTest == Polling(AtReduce100, FALSE, "judge")
progressTest == Polling(AtReduce100, TRUE, "judge")
deadlockTest == Polling(AtReduce100, FALSE, "judge")

(* The turn of one of the jobs in the loop over the jobs, which share no   *)
(* state but k2ResourcesMutex: it is closed when the stage is REDUCE and   *)
(* the state before was 100% of any stage.                                 *)
randbody == Polling(state.stage = REDUCE /\ IsHundred(last), TRUE, "begin")

(* outputTest compares what it finds in outputVec with the counts of a     *)
(* sequential program.                                                     *)
OutputFails == Len(output) # Cardinality(Expected) \/ ToSet(output) # Expected

(* The test returns; the client, its inputVec and its outputVec go.        *)
Leave ==
    /\ cpc[Closer] = "gone"
    /\ Moves("closing", IF test = "outputTest" /\ OutputFails THEN "failed" ELSE "ended")
    /\ UNCHANGED <<apiVars, last>>

TestStep ==
    \/ test = "main" /\ main
    \/ test = "waitAndCloseTest" /\ waitAndCloseTest
    \/ test = "outputTest" /\ outputTest
    \/ test = "progressTest" /\ progressTest
    \/ test = "deadlockTest" /\ deadlockTest
    \/ test = "randbody" /\ randbody
    \/ Leave

(* Inside a call of the API.                                               *)
InCall(c) ==
    (ReadCounters(c) \/ waitForJob(c) \/ Free(c)) /\ UNCHANGED <<workerVars, clientVars>>

OtherClient(c) ==
    /\ \/ test = "waitAndCloseTest" /\ CallWait(c)
       \/ Retire(c)
    /\ UNCHANGED <<workerVars, clientVars>>

Ended == at = "ended" /\ UNCHANGED testVars

WorkersRun == \E t \in Threads : WorkerWithClient(t) \/ Keep(t)

ClientsRun ==
    \/ TestStep /\ UNCHANGED workerVars
    \/ \E c \in Callers : InCall(c)
    \/ \E c \in Callers \ {Closer} : OtherClient(c)

TestNext == WorkersRun \/ ClientsRun \/ Ended

(* The worker threads as a whole, and the clients as a whole, run whenever *)
(* they can.  Fairness to each thread, which a scheduler gives, is not     *)
(* needed: only polling goes on for ever.                                  *)
TestSpec ==
    /\ TestInit
    /\ [][TestNext]_testVars
    /\ WF_testVars(WorkersRun)
    /\ WF_testVars(ClientsRun)

-----------------------------------------------------------------------------
(* No FAIL() of a test is reached and no comparison of its output fails:   *)
(* progress stays between 0 and 100, neither stage nor percentage goes     *)
(* back between two calls, and the output is that of a sequential program  *)
(* (mattanTests/SampleClient.cpp:280-302, 330-338, 447-464).  It says      *)
(* nothing of how the process of randomTest ends.                          *)
NoCheckFails == at # "failed"

(* When the client goes, no thread of the job is left to use its vectors,  *)
(* not even in randbody, which may close a job that has barely begun to    *)
(* reduce; and they own every pair it gave to the framework, each once:    *)
(* none leaks and none is deleted twice                                    *)
(* (mattanTests/SampleClient.cpp:86-92, 445, 469).                         *)
ResourcesKept ==
    at = "ended" =>
        /\ AllDone /\ freed
        /\ test # "main" =>
              Len(resources) = Cardinality(AllPairs) /\ ToSet(resources) = AllPairs

(* The body of every test comes to an end: polling loops are told 100%,    *)
(* and waits and closes return.  For randbody this is the end of one of    *)
(* its 2000 repetitions.                                                   *)
TestsEnd == <>(at = "ended")
=============================================================================
