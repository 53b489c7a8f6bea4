# OS_HUJI: verification project

TLA+ models of the operating-systems exercises in this repository, checked with
TLC and, where that is possible, proved with TLAPS. Paths below are relative to
the repository's root; "lines" are lines of the file named last.

## 1. The system

The repository holds four exercises with their demos, clients and tests, built without optimisation
(`-g` in every Makefile), so a plain store or load happens where the source has it.

| Component | Source | State | Operations | Status |
|---|---|---|---|---|
| Barrier | `OS_ex3/Resources/Barrier.cpp` (and a copy that differs in its messages in `Barrier/`) | mutex, condition variable, `count` | `barrier()` | `Barrier`, `AbstractBarrier`, `BarrierProofs` |
| Map-reduce workers | `OS_ex3/Resources/MapReduceFramework.cpp` 85-302 | the counters of a `JobContext`, the stage, one vector of pairs per thread, `shuffled_vectors`, `outputVec` | `startMapReduceJob`, `map_reduce_for_thread`, `emit2`, `emit3`, `shuffle`, `reduce` | `MapReduce`, `MapReduceProofs` |
| Job handle | same file, 304-404 | `flag`, `wait_for_job_mutex`, `job_state_mutex`, the memory itself | `getJobState`, `waitForJob`, `closeJobHandle` | `JobHandle`, `JobHandleProofs` |
| User-level threads | `os_ex2/resources/uthreads.cpp`, `Thread.h` | `all_threads_list`, `ready_threads_list`, `wake_up_quantum_to_sleeping_threads`, `running_tid`, saved contexts, the signal mask | the `uthread_*` calls, the SIGVTALRM handler | `UThreads`, `RoundRobin`, `UThreadsProofs` |
| Virtual memory | `os_ex4/VirtualMemory.cpp` | page tables in RAM | `VMread`, `VMwrite` with page faults | `VirtualMemory`, `FlatMemory`, `VirtualMemoryProofs` |
| Physical memory | `os_ex4/PhysicalMemory.cpp` | `RAM`, `swapFile` | `PMread`, `PMwrite`, `PMevict`, `PMrestore` | `PhysicalMemory` |
| osm timing library | `OS/osm.cpp` | two readings of the clock | `osm_operation_time`, `osm_function_time`, `osm_syscall_time` | `Osm` |
| Demos | `Barrier/barrierdemo.cpp`, `Atomic/*.cpp`, `os_ex2/resources/demo_*.c` | counters, packed fields, two contexts, a flag, a signal's disposition | their threads and handlers | `BarrierDemo`, `AtomicDemo`, `SignalDemo`, run by `Demos`; `DemosProofs` |
| Clients and tests | `Sample Client/SampleClient.cpp`, `mattanTests/SampleClient.cpp`, `os_ex4/SimpleTest.cpp`, `os_ex4/yaara_test` | `last_state`, the client's vectors, `k2ResourcesMutex` | the tests | `TestClients`, `TestClientsProofs`, `VMTests`; `OS_ex3/tests` only by what they have in common |
| Build files | `CMakeLists.txt`, `cmake-build-debug`, text inputs, plots | - | - | not modelled |

How they interact. The workers of a job call the barrier twice, share atomic
counters, and thread 0 reads and pops the other threads' vectors between the two
barriers. The clients of a job poll the counters while the workers change them,
join the workers, and free everything. The threads library is one process: its
calls, its signal handler and the user's code share the globals, and what keeps
them apart is the signal mask. The test programs poll, wait and close while the
workers call back into their `map`. The virtual memory keeps its page
tables in the same frames as the pages, and has no state but them.

What is hard: the second round of the barrier while the first is being left; the
shuffle that has no lock; counters read at other times than the stage they belong
to; memory freed while it might be in use; a timer that may expire between any
two instructions at which SIGVTALRM is open; sleeping threads that are kept in a
map of pointers; a page fault that collects empty tables and evicts pages in the
middle of building a path of tables that are empty themselves. `PROJECT.json`
lists these hazards line by line.

## 2. Modules

    AbstractBarrier <--refines-- BarrierDemo --extends--> Barrier <--extends-- MapReduce <-- JobHandle <-- TestClients
    BarrierProofs --extends--> Barrier;   MapReduceProofs --extends--> MapReduce, BarrierProofs, DataLemmas;   JobHandleProofs --extends--> JobHandle, MapReduceProofs
    TestClientsProofs --extends--> TestClients, JobHandleProofs
    Demos --extends--> BarrierDemo, AtomicDemo, SignalDemo, Osm
    RoundRobin <--refines-- UThreads
    FlatMemory <--refines-- VirtualMemory --extends--> PhysicalMemory;   VMTests --extends--> VirtualMemory
    DemosProofs --extends--> Demos, DataLemmas;   UThreadsProofs --extends--> UThreads, DataLemmas;   VirtualMemoryProofs --extends--> VMTests, DataLemmas

**Barrier** is a component without a closed program: `Lock`, `Wait`, `Broadcast`,
`Wake`, `Unlock` are the steps of one `barrier()` call. `bpc` is the program
counter of each thread in it; `arrived` and `left` are history variables that
count calls. A woken thread must take the mutex again (`Wake`), which is when the
fast threads of the next round may overtake it. POSIX also lets a wait return without
a broadcast, which the `if` at `Barrier.cpp:33` does not stand; `Wake` leaves that out.

**BarrierDemo** closes it as `barrierdemo.cpp` does: each thread calls the barrier
`Rounds` times, with the copy of the barrier that lies beside it. **AbstractBarrier** says what "a multiple use barrier"
(`Barrier.h:5`) promises: enter, and leave when all have entered as often.

**AtomicDemo** has one action per access to a shared counter: an atomic increment is
one, `bad_counter++` is a load and a store. The word of `atomicdemo_multivar.cpp` is
an integer, its fields are slices of it, and adding to a field is adding to the word,
so a carry would be seen. **SignalDemo** has the bookmarks of `demo_jmp.c` (whose stack
and where to go on), the flag of `demo_itimer.c` with a handler that may run between
any two steps of the loop, and the SIGINT of `demo_singInt_handler.c`: its main()
leaves `sa_flags` uninitialised, so SA_RESETHAND and SA_NODEFER may each be set.
**Osm** has a clock that ticks at any moment; a step is one turn of the unrolled loop
or one reading of the clock, which may fail. **Demos** runs one of these programs per
behaviour.

**MapReduce** runs N workers on top of `Barrier` (same variables, same actions).
One action is one access to memory that other threads access, with the local
work around it: the loop tests (`MapTest`, `ReduceTest`) are apart from the
`fetch_add` that follows them (`MapFetch`, `ReduceFetch`), and `push_back` to
`outputVec` reads where to write (`emit3Lock`) before it writes (`emit3Push`).
`vec`, `groups` and `output` are the three kinds of vectors, of pairs that carry
a key and the place where they were emitted, so that a lost or duplicated pair is
seen. `std::sort` is not stable: `Sort` picks any sorted order. The constant
`Emits` is the client: which keys the mapping of each input emits. `reduce` of the
client emits one pair per group, as the sample clients do.

**JobHandle** adds `Callers`, of which `Pollers` call `getJobState` and one
`Closer` closes the handle once the others are through with it (the contract of any
handle). `getJobState` is two steps, since the stage is read before the counters
and neither is written under `job_state_mutex`. A percentage is a fraction; the
C++ value is 100.0 exactly when numerator and denominator are equal and not 0,
for counts below 2^24. `pthread_join(threads[i])` is enabled when thread i is
done; `joins` counts the joins.

**TestClients** replaces the arbitrary callers by the programs of the repository: the
sample client's `main`, `waitAndCloseTest` (with further threads that wait for the
same job), `outputTest`, `progressTest`, `deadlockTest` and `randbody`, the body of
`randomTest`. Each is the sequence of API calls its source makes, with its judgement of the states it is told
(`Bad`), and the `map` of the test client, which keeps its pairs in two vectors
under a mutex before it emits them (`KeepLock`, `KeepPush`). The loops that repeat a
test thousands of times are one repetition, and `randbody` has one of its 20 jobs, which share
nothing but the client's mutex. `randomTest` itself (`mattanTests/SampleClient.cpp:482-493`) is not a
program here: it asserts that its process is killed by signal 24, the limit of CPU time, and a
comment marks it `DIDNT PASS`. Whether 2000 repetitions take that long is no
question for this model; that a repetition ends without a failed check is.

**UThreads** keeps the library's globals in one record `k`, so that
`wake_threads`, `handle_new_quantum` and `run_new_thread` are functions from
records to records, composed as in the source. A context is a record: whose stack
it is, where it will go on, and the local variable that is live there. The
handler and the calls that mask the signal are one step; the switch inside
`uthread_block` and `uthread_sleep`, which runs with the signal open (396-397,
532-533), is one step for each function it calls: `sigsetjmp`, `wake_threads`, the count, the
pop of `handle_new_quantum`, `run_new_thread`, `siglongjmp`. An interruption in the middle of one
of these, where a copy of a list or a local variable would be used after the handler
changed what it came from, is not modelled. A read through a
dangling or null pointer, the front of an empty deque and an index past the
array lead to a state whose `status` names the fault, where the model stops. A
`Thread` object is identified with its slot; `dirty` says that memory with a set
sleep flag was freed, and a later spawn may or may not get that memory (memory that no thread
has used yet is taken to be zero). A thread that ends itself deletes its `Thread`, and with it
the stack it runs on (`Thread.h:62`), at line 345, and runs 346-351 on that stack. Those lines are part of
`TerminateSelf`: nothing else runs before the jump, unless the timer expires there
(`switchSignal`), and so nothing overwrites the stack, provided the allocator leaves freed
memory readable and its contents in place where frames lie. `NoDangling` says that no other code
ever runs on a freed stack. `wakes[d]`
holds the threads to wake d quantums from now, which is what `total_quantum` is
compared with. Of the quantum counters the difference of `total_quantum` and the sum
of all `thread_quantum`s is kept, modulo 3: each switch changes both by one, in
different functions.

Some behaviours break so much that nothing else could be checked with them. They
are the `Situations` that the constant `Allowed` switches on; each one is an
ordinary sequence of calls or a moment at which the timer expires:

| Situation | Code | What it breaks |
|---|---|---|
| `errors` | error returns at 286, 296, 443, 497, 520, and the return at 405, come without `unblock_signals` | the caller runs on with SIGVTALRM blocked; blocking another thread has no effect, although `uthreads.h:62` says it does |
| `outOfRange` | `tid > MAX_THREAD_NUM` at 321, 374, 433, 487 | reads past the array: the fault `outOfBounds` |
| `mainSleep` | 522-526 print the error and go on | the main thread sleeps |
| `killSleeper` | 353-358 leave the thread in the wake-up map | memory is used after it was freed (run `KillSleeper`); a new thread may inherit the sleep flag, which the constructor does not set (91-103, read at 137) |
| `exitAmongSleepers` | 347 counts a quantum without `wake_threads` | a sleeper that was due sleeps for ever (run `LostSleeper`) |
| `quantumsRace` | 499-500 read the slot after unblocking | null pointer: the fault `nullSlot` |
| `switchSignal` | 396-397, 532-533, 350-351 switch with the signal open | a context is saved in the wrong thread (run `LostContext`) |

**RoundRobin** is the scheduler that `uthreads.h` describes, without signals,
contexts or memory: a running thread, a queue, blocked and sleeping threads. It says
what a step may do, not that quantums end; `ReadyRuns` and `SleeperWakes` say that.

**PhysicalMemory** is RAM, the swap file and `ok`, which a failed assertion clears
and at which the model stops. **VirtualMemory** makes each call one step, since the
library is sequential, and keeps the order inside: `gets_physical_address` folds
`Descend` over the levels, and each missing table or page runs `page_not_found`,
which reads the whole tree as `look_for_empty_table` does. `TreeWords` is the set of
words that this recursion reads, with the page number, father and place in the
order of the search; the words of pages are among them, as in the code, so data
counts for `max_used_frame`. `Stale` holds what the uninitialised `frame_path`
(line 73) may contain: nothing that names a frame in the run `VirtualMemory`, a
frame number in `StalePath`. **FlatMemory** is an array of words; the refinement
mapping `Contents` follows the tables, looks in the swap file, or gives 0.
**VMTests** adds the programs: `yaara` makes the calls of `YaaraTest.cpp` and compares
the whole RAM with the tables of its worked example, `simple` writes to twice as many
pages as there are frames and reads them back, and `any` calls as it likes. The calls of
the tests stay within the addresses and words that the constants name (`ScriptsAssumption`).

The MC modules hold the inputs (`MCMapReduce`, `MCJobHandle`, `MCTestClients`). Definitions whose
comment starts with "Mutant of" belong to no specification: each is what a
plausible bug would make of the definition below it, and `PROJECT.json` pairs it
with a property that must then fail.

## 3. Runs

| Run | Question | Bounds, and why they are enough | Result |
|---|---|---|---|
| `Demos` | do the small programs do what they are there to show? | barrier: 4 threads, 3 rounds: a thread can be a round ahead of two slow ones that are in different places, and the counter is reset twice before the last round (the proofs remove the bound). atomics: 3 threads of 2 turns; 4 threads of 4 turns with periods 2 and 4 and fields of 4 bits: the top bit is set, and no field can overflow, as in the source (1000 turns, 10, 100, 16 and 15 bits). jmp: loops of 3 and 5 steps. SIGINT: 3 nested handlers. osm: 0 to 15 iterations, on both sides of two turns of 7, and a second of 3 ticks, so that it passes while the loop runs | holds |
| `MapReduce` | is the output that of a sequential map-reduce? | 3 workers, 3 inputs with 5 pairs: a worker may get none, one or several inputs, equal keys occur within one vector and across vectors | holds |
| `JobHandle` | are progress, waiting and freeing right under concurrent clients, is nobody ever stuck, and does everything that is asked for happen? | 2 workers, 2 inputs, 3 clients that wait, of which one polls and another closes: a client waits while one joins and another has joined; deadlock is checked as well, but a client that polls hides one of the others, which `NobodyStuck` does not let it | holds |
| `TestClients` | do the checks of the sample client and of the tests' bodies pass, and do they end, under every interleaving? | 2 workers, the same inputs, all six programs, a second client thread where the test only waits | holds |
| `UThreads` | do the scheduler's structures agree, are quantums counted once, is it fair, is it round-robin? | failing calls and ids out of range included (`errors`, `outOfRange`), the other situations not; 3 threads, sleeps of 1 or 2 quantums: two sleepers with the same or different wake-ups and a slot that is reused | holds |
| `Misuse` | does `running_tid` name the thread that runs, and does a jump to a thread lead there, even in the situations above? | all situations, 2 threads | holds |
| `VirtualMemory` | is it a flat memory, in well-formed tables, and do the tests pass? | `yaara_test/YaaraConstants.h`: 8 frames of 2 words, 4 levels, 16 pages. `any` uses 3 pages of which two share a table: they would need 11 frames besides the root, which leaves 7; its words are 5, which looks like a frame that is still free, so that frame 6 is taken and 5 is lost, and 9, which looks like a frame beyond RAM, so that pages are evicted although frames are free; the tests write 0 and 3, which look like frames in use; 32 is an invalid address. `Stride` is 1 where SimpleTest has 5, since 5 * 15 is beyond 16 pages | holds |
| `NoPairsPoll` | does the polling loop end if nothing is emitted? | 2 workers | violated: 0/0 at `MapReduceFramework.cpp:336` is never 100 |
| `KillSleeper` | is a terminated sleeper forgotten? | 2 threads | violated: `uthreads.cpp:357` |
| `LostSleeper` | does every sleeper keep its wake-up? | 3 threads | violated: `uthreads.cpp:347` |
| `LostContext` | is a context saved where it belongs? | 2 threads | violated: `uthreads.cpp:107` |
| `StalePath` | do the assertions hold whatever `frame_path` starts with? | the same, one stale frame number | violated: `VirtualMemory.cpp:204` |

`MaxReady` bounds the ready list only where it could grow: with `switchSignal` a
thread can be put in it twice. `MaxSleep` bounds what threads ask for.

More divergences were read off the code. `VirtualMemory.cpp:175` subtracts unsigned
numbers, so the "cyclic distance" is `NUM_PAGES + p - restored` and the page with the
largest number is evicted, not the farthest one that lines 298-300 describe;
`CyclicDistance` models it, `EvictsLargest` states it, and the run `VirtualMemory`
shows that it is what every eviction does. The worked example of YaaraTest evicts
the same pages either way. The search for a frame takes the words of pages for frame
numbers (188-197): a written word larger than the frames in use makes it skip the frames up to
that word, or evict although frames are free (263-270). A frame that was skipped lies below
the largest number the search meets, so it is never taken again. The contents stay right; RAM
becomes smaller. `LostToWords` says that this is the only way a frame is lost, and the run
`VirtualMemory` has words of both kinds. Line 314 of `MapReduceFramework.cpp` compares the pointer `max_for_map` with 0,
so an empty job reports 0/0 in the map stage, where lines 315-316 want 0
(`Percentage` models the code). When a thread ends itself, `uthreads.cpp:347-351`
switches without the `reset_timer` of line 117: the next thread gets what is left of
the quantum; the model's timer may expire at any moment, so nothing checked here
depends on it. `randbody` closes a job when the state *before* the last one was 100%
of any stage (`SampleClient.cpp:445`), hence possibly before the output is complete;
`closeJobHandle` waits, so `ResourcesKept` holds all the same.

### Fairness

* `DemosSpec`: weak fairness of each thread of `barrierdemo`, of the processor in
  `demo_jmp` and of main() in `demo_itimer`. A kernel thread that can run does run,
  and a mutex that is free is granted to a requester; the number of lock operations is
  bounded, so weak fairness of the thread (not of each lock) suffices. The clock need
  not tick, and no signal need come.
* `JobFairness`: the workers as a whole run whenever one of them can, and so do the
  callers that are inside `waitForJob` or `closeJobHandle`. This is less than a
  scheduler gives each thread, and enough, since only polling can go on for ever.
  Nothing obliges a client to make a call. `TestSpec` is the same, but a test does
  make its next call.
* `Spec` of `UThreads`: strong fairness of `scheduler \/ move_to_next_thread`.
  `reset_timer` arms the timer at each switch and a pending signal is delivered
  when it is unblocked, so a thread that computes is preempted in the end;
  library calls, which mask the signal for a while, do not prevent that. A call that
  fails may leave it masked (`errors`), and a thread that then runs on for ever stops the
  others; `ReadyRuns` and `SleeperWakes` therefore assume `SignalReturns`, that the signal is
  unblocked again and again.
* `AbstractBarrier`: weak fairness of leaving, which `BarrierDemo` implements.

## 4. Proofs

`tlapm` checks seven modules of theorems and one of lemmas about sets and lists (`DataLemmas`), for every value of the constants that the
named assumptions of the modules allow (`NAssumption`, `EmitsAssumption`,
`CallersAssumption`, `UThreadsAssumption`, `MemoryAssumption`, `TreeAssumption`,
`ScriptsAssumption`, ...).
Where a theorem assumes more, its statement says so and this section says why.

**Barrier, map-reduce, job handle, clients.**

* `TypeCorrect`, `Invariant`, `Safety`. `BarrierSafety` is not inductive: whether a
  leaver is entitled to leave depends on `count`. `BarrierInv` adds that the mutex
  is held exactly by the thread between `Lock`/`Wake` and `Wait`/`Unlock`
  (`MutexInv`), that a thread in a call has entered once more than it has left
  (`CallInv`), that all threads have completed the same number of rounds, a
  waiting one having entered one more (`RoundInv`), and that `count` is the number of
  waiting threads (`CountIsWaiters`). `Broadcast` is the step that matters:
  N - 1 threads wait, so all but the caller do, and the round is complete.
* `Implements`: initial states and steps of the barrier are those of
  `AbstractBarrier` or leave it unchanged. (Its liveness part is
  model-checked.)
* `JobDrivesBarrier`: a job is a user of the barrier, so all of the above holds in
  `MapReduce`.
* `WorkerInvariant`, and from it `ShuffleIsExclusive` and `WorkIsDistinct`. How many
  barriers a thread has passed follows from its program counter (`ControlInv`); with
  `BarrierSafety` and `RoundInv` this puts every other thread between the two barriers
  while thread 0 shuffles. Claimed indices lie below the counters they were taken
  from (`ClaimInv`), hence are distinct.
* `DataInvariant`, and from it `PairsAreConserved` and `OutputIsExact`, for every
  `Emits`. `PairsConserved` is about concatenated lists and says nothing of which list a
  pair is in. `DataInv` says where each pair is: no list repeats a pair and no two share
  one (`OwnInv`), the pairs in all lists are those that the inputs have emitted so far,
  as the threads' program counters tell (`PlacedInv` with `Emitted`); the vectors are
  sorted once their thread has passed `Sort` (`SortedInv`), hence popping the largest key
  from the backs collects every pair with that key, and a group is complete when the
  next one is begun (`GroupInv`). `Pushed` and `Finished` are the groups that were
  claimed and are past the push, and past the count: `output` has one pair for each
  pushed one (`OutputInv`, which needs `output_vec_mutex` and the pending write), and
  `reduceFinished` is the number of pairs of the finished ones (`FinishedInv`). When all
  threads are done every group is pushed, and the groups are the keys.
* `JobRunsWorkers`: the clients' steps leave the workers' variables alone, so a job with
  clients satisfies `MapReduceSpec` and the theorems above hold in it.
* `HandleInvariant`, and from it `EachJoinedOnce`, `WaitMeansDone` and `FreedIsUnused`.
  That no thread is joined twice is not inductive: it depends on who is in the loop of
  joins and how far it is. `HandleInv` says that a mutex is held by the caller
  between its lock and its unlock (`HolderInv`), that while the flag is clear the joined
  threads are those below the loop index of the one caller in the loop, and all of
  them once it is set (`JoinInv`), that whoever unlocks has seen the flag (`FlagInv`),
  that the closer comes after all other callers (`CloseInv`, the guard of `CallClose`: the
  client's obligation), and that a finished worker does not hold `output_vec_mutex`
  (`OutInv`). `FreedIsUnused` also uses `BarrierInv`: finished threads are not in the barrier.
* `ProgressInvariant`, and from it `JobTypeCorrect`, `ProgressIsMonotone` and
  `HundredIsOutput`. A report may be computed when the job has left the stage it is
  about. `ProgressInv` says that a client's stages are in the order of its calls and at
  most the job's, that the number of a report is at most what the counter of its stage is
  now, and that its maximum is the one every report of that stage has (`ReportInv`):
  `maxForMap` is stored before the stage is (`MaxInv`), and `maxForShuffle` has
  its last value at the first barrier (`PlacedInv`). With counters that only grow
  (`WorkersProgress`) the percentages are in order. 100% of REDUCE means that the finished
  groups hold all pairs (`FinishedInv`), so no group is unfinished (`AllFinished`; groups are not empty),
  and each has its pair in the output.
* `NobodyIsStuck`: `NobodyStuck` names the guards of each thread's and each caller's step
  (`WorkerCanGo`, `CallerCanGo`) and says that not all of them are false at once, before the
  threads are done and after. The holder of a mutex can go on (`HoldersGo`); the
  first thread that was not created is created next (`CreatorGoes`); and it cannot be that
  each thread is done or waits in the barrier (`WaiterNotAlone`): a thread that is done has
  completed two rounds, which `RoundInv` gives to nobody while another waits in the second,
  and if all waited, `count` would be N, which `Broadcast` does not let it become.
* `WorkWindsDown` and `JobWindsDown` say that the steps are finitely many. The work a thread
  has left is a tuple (`WorkLeft`): the phases before it, the items its loop may still
  claim, its place in the loop or in `barrier()`, the keys it has yet to emit. A step lowers
  the tuple of the thread that takes it (`MapLowers`, `BarrierLowers`, `ShuffleLowers`,
  `ReduceLowers`) and raises no other (`OthersUntouched`): a claim and a broadcast lower some,
  and groups are added only while all others are in a barrier. So each step goes down in the
  lexicographic order over the threads, which is well-founded. With clients, every step but those of
  `getJobState` takes from this or from what one caller has left of its calls. Together
  with `NobodyIsStuck` this is why `JobCompletes` holds; what remains is that a fair
  scheduler takes a step that is possible.
* `DoneIsTold`: when all threads are done, `getJobState` tells 100% exactly if a pair was
  emitted. It is the safety half of `TestsEnd`, and says for which clients the run
  `NoPairsPoll` is the rule: those that emit nothing.
* `TestsRunJobs`: each step of a test is a step of a job or leaves it alone
  (`TestStepsJob`), and the clients of a test start with the handle or have no part in it
  (`Places`), so the invariants above hold in every test. `NoCheckEverFails` adds
  `JudgeInv`: `last_state` is not ahead of what the test was told last (`Ahead`), and `CountInv`:
  `mapFinished` and `shuffleFinished` count the inputs that were mapped and the groups, of which
  there are at most as many as inputs and pairs (`CountersBounded`), so nobody is told
  more than 100%. `ResourcesAreKept` adds `KeepInv`: the client's vectors hold the emitted
  pairs and those about to be emitted, none twice, and who is about to add one holds
  `k2ResourcesMutex` and has read the end that is still the end. Without the pairs about
  to be emitted this is not inductive, since they are kept before the framework has them.

**Demos.** `DemoDrivesBarrier`; `JumpsAlternate` from `JumpInv` (the thread that waits
has its own bookmark, set when its period was complete); `WarnsFirst` from `IntInv` (a
disposition that was reset had been delivered once); `TimesExactly` from `OsmInv` (a
reading is the clock, and the clock shows the first reading and the time since), which
includes the borrow of a second in the difference of two readings; `AtomicIsExact` from
`FooInv`: the atomic counter is the number of increments made, and a value that was
loaded is at most the number of stores, while nothing is 0 after the first store.
`FieldsAreExact` from `WordInv`: the word is the three counts, each shifted to its
place (`WordGrows`: as long as the counts fit, an addition to the word is an addition to one
count), and `FieldValues` takes them out again. It uses `FieldsAssumption`, that the fields are wide
enough, which the program's 400 in 16 bits and 40 in 14 are; the 15th of the middle bits
is also the lower one of the last field, clear as no odd thread or two have added to it.

**User-level threads.** `TypeCorrect` and `CallerCorrect` hold for every `Allowed`,
hence in all the situations above: `CallerInv` says that a context that was saved
belongs to its thread, or is about to jump to it. The second half of that is `ContextsCorrect`
(`ContextsLeadBack`), again for every `Allowed`: it is what remains true when the timer
expires inside a switch. That a saved context is the thread's own code (`ContextsIntact`) is not, and is
the property that the run `LostContext` refutes. The other theorems assume `Rules`:
that `mainSleep`, `killSleeper`, `exitAmongSleepers` and `switchSignal` are not allowed.
Each of the four breaks the schedule (the last three are the runs `KillSleeper`,
`LostSleeper` and `LostContext`; a sleeping main thread may leave the ready list empty).
Three of them a program can avoid; that the timer spares the switch is luck, and these
theorems describe the runs that have it. `errors`, `outOfRange` and `quantumsRace` remain allowed. `ScheduleInv` follows a
switch phase by phase: `Scheduled` while thread code runs, `Leaving` when the running thread is
about to leave, `Woken` after `wake_threads`, `Counted` after the quantum was counted,
when every wake-up is one quantum nearer, `Popped` after the old thread left the head of
the list, and `run_new_thread` makes it `Scheduled` again. None of these says the same of
the list, which is why `ReadyListExact`, whose guard exempts the middle of a switch, is
not inductive. From it: `ReadyListCorrect`, `SleeperHasAlarmCorrect`, `QuantumsCorrect`, and
`NoDanglingCorrect`: of the faults of the model only `outOfBounds` and `nullSlot` can be
reached, both by one call and from any schedule.

`RoundRobinImplemented` assumes the same `Rules`: each step is a step of `RoundRobin` or
changes nothing of it (safety only: `RoundRobin` states no fairness). The mapping counts a
switch as done when it begins: in the middle of one, `Turn`, `Queue`, `Blocked` and
`Asleep` are read off `Settled`, the state in which it will end. So the step that begins a
switch is the one that ends the quantum of `RoundRobin` (`SchedulerAbstract` for the timer,
`BlockSelfAbstract`, `SleepAbstract` and `TerminateSelfAbstract` for the calls; all use
`SwitchEffect`, what a whole switch does to the list and the map, and `QuantumEnds`), and the
phases that follow change nothing of it (`SwitchAbstract`). The code sets an alarm for
a quantum; `RoundRobin` counts the quantums left: the alarms of this quantum are
those of the sleepers with one left (`DueHaveOneLeft`), and all the others lose one
(`SleepersCountDown`). `RoundRobin` leaves open in which order those who are due and the old thread
join the queue; the order of the code is one of them (`ListIsOrder`).

`TurnsInOrder` is derived from it: a step of the library ends a turn (`TurnPasses`: the first in
the queue runs, all others move up, each sleeper has one quantum less or joins) or keeps
it (`TurnKept`: the order stays, except for a thread that a call takes out). The steps of
`RoundRobin` do so (`OvertakingStep`), so those of the library do. It is the reason why
`ReadyRuns` and `SleeperWakes` hold; what is not proved is that turns end, which is the
fairness of the timer.

**Virtual memory.** Between calls, and at each level of the loop of
`gets_physical_address`, the frames can be labelled with a depth and a number such that
every word of a table refers to a frame one deeper with the number its place gives it,
every frame of the tree is referred to, and no page of RAM is in the swap file (`Tree`).
The labelling is not a variable of the model: `VMInv` says that there is one
(`Settled`). `TreeWordsExact` shows that the search of `look_for_empty_table`
goes over the words of that tree and no other, each once. The steps:

* `Unlink` and `Link`: what happens to a tree when a leaf is taken out, by reusing an
  empty table (`ReuseFound`) or by evicting a page (`EvictFound`), and when a frame
  joins it (`EnterFrame`). `UnusedFound`: the frame after `max_used_frame` is not in it.
* `Roomy`: why one of the three always applies. Once the first call has ended the tree
  has more frames than a path is long (`Grown`), so beside the path there is always an
  empty table or a page (`AllOnPath`, `PathCardinality`); during the first call the tree is
  the path itself, made of the first frames (`FirstCall`), and `NumFrames > Depth` is enough.
* `Held` is what the memory holds for an address, in RAM, in the swap file, or 0; no step of
  the loop changes it (`UnlinkHeld`, `LinkHeld`).
* `SwappedLast`: what a call has evicted so far has larger numbers than what was in RAM
  before and is not in the swap file, since the "cyclic distance" that the code computes
  grows with the page number (`CyclicDistanceValue`).

These steps, and hence the theorems, are about programs whose calls are `Harmless`: none finds
in its uninitialised `frame_path` (`VirtualMemory.cpp:73`) the number of a frame that is a
table at that moment. `HarmlessSpec` is `Spec` with such calls only. The code does not see to
it, and without it the assertions do fail (run `StalePath`); other garbage, the numbers
of pages and of free frames included, does no harm, because `Path` allows the entries past the
current depth to be anything but a table off the path (`HidesTable`). For every size of page,
RAM and address and all words: `VMTypeCorrect`, `AssertionsCorrect`, `TreeCorrect`,
`OneCopyCorrect`, `EvictsLargestCorrect`, `LostToWordsCorrect`, and `FlatMemoryImplemented`, the
refinement of `FlatMemory`.

`LostToWordsCorrect` follows a call level by level. `Searched`: the largest number met so far is a
frame of the tree or a word that was in a page of RAM when the call began, and a frame that was
passed over since then was passed over for such a word (`Excused`, `PassedFor`). A new frame
follows that largest number (`SearchedJoined`), and the frames in use are all smaller than one
that is lost, so it is a word that lost it.

The tests are programs that use this memory (`TestsUseMemory`), so all of the above holds
while they run, under the same condition. `ScriptInv` says that after each call `Contents` of every address is the last
word that the test has written there: `FlatMemoryImplemented`, read along a program. Hence
`TestsReadBack`, for every size of memory, and `SimpleTestCorrect`: the addresses of
SimpleTest are distinct for every stride (`SimpleAddresses`), so its second half reads
what its first half wrote. `YaaraTest` also compares the RAM, frame by frame, with the tables of
its worked example. It is one behaviour with fixed constants, which the run goes through
completely; `SimpleTestCorrect` leaves it out.

**Induction over data.** The library's induction theorems take predicates, which the
provers cannot instantiate. `DataLemmas` states induction over sets instead
(`NatSetInduction`, `UpToInduction`) and derives that recursive functions exist
(`RecursionExists`), so loops over the levels of the tree or over a list of sleepers can
be reasoned about. For that, powers are recursive functions in `VirtualMemory`
(`Powers`) and `AtomicDemo` (`Bit`), and the swap file is written with function constructors: the provers know
neither `^` nor `@@`.

**Model-checked only.** Liveness under fairness (`ReadyRuns`, `SleeperWakes`, `JobCompletes`,
`TestsEnd`, `ExpiryReported`, and that a barrier is left, in `ImplementsAbstractBarrier`, whose
safety is the theorem `Implements`): the provers have no rule for ENABLED, so the step from
"some thread can go" (`NobodyIsStuck`) and "each step leaves less" (`WorkWindsDown`,
`JobWindsDown`, `TurnsInOrder`) to "it ends" is TLC's. The contents of RAM that
YaaraTest compares (`TestsPass` for that program).

## 5. Plan

1. (done) `Barrier`, `MapReduce`, `JobHandle`, `UThreads`, `VirtualMemory`, their
   abstract specifications, and the proofs of the barrier and the workers.
2. (done) The demos, `osm`, the clients and tests, the quantum counters, the choice of
   the page to evict.
3. (done) Proofs of `JobHandle` (`JoinedOnce`, `WaitedMeansDone`, `FreedUnused`), for
   every number of workers and clients.
4. (done) Proofs of `UThreads`, of the demos and of `VirtualMemory` with its refinement of
   `FlatMemory`.
5. (done) Proofs of what jobs compute and report (`PairsConserved`, `OutputExact`,
   `HundredMeansOutput`, `ProgressMonotone`) and of the clients (`NoCheckFails`,
   `ResourcesKept`).
6. (done) The steps of `UThreads` as steps of `RoundRobin`, from `ScheduleInv`.
7. (done) The fields of the shared word of `atomicdemo_multivar`.
8. (done) What the two test programs read, from `FlatMemoryImplemented`.
9. (done) What the liveness properties rest on: nobody is stuck, work winds down, nobody is
   overtaken.

### Not modelled

* Failed allocations and system calls, after which a program prints a message and
  exits (`osm` and the SIGINT demo, which go on, are modelled).
* The build trees that are committed with the exercises: the six files
  `CMakeCCompilerId.c` and `CMakeCXXCompilerId.cpp` that CMake generates, more than
  half of the lines that look like implementation, only let the preprocessor name the
  compiler. They have no state and no behaviour.
* `OS_ex3/tests`: `test1.cpp` to `test4.cpp` differ from `waitAndCloseTest` in their
  inputs (thousands of words), not in the calls they make. `OS/graphs_for_OS_Ex1_V2.py`
  draws plots.
* A wait on the condition variable that returns without a broadcast (`Wake` in
  `Barrier`); the main thread asleep (`mainSleep`), except in the run `Misuse`.
* The death of `randomTest`'s process by the limit of CPU time, on which that test insists; its body
  is modelled.
* An interruption in the middle of `wake_threads`, of the pop in `handle_new_quantum` or of
  `run_new_thread`, when a switch is open to the signal.
* `timer` and the real time of a quantum; the numbers of bytes on a stack; the 32-bit
  variant of `translate_address`.
