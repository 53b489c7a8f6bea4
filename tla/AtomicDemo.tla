----------------------------- MODULE AtomicDemo -----------------------------
(***************************************************************************)
(* The programs of OS_ex3/Resources/Atomic.  In atomicdemo.cpp each thread *)
(* increments an atomic counter and a plain one; in                        *)
(* atomicdemo_multivar.cpp the threads count in three fields of one word.  *)
(***************************************************************************)
EXTENDS Integers, FiniteSets

CONSTANTS
    Level,       \* MT_LEVEL of atomicdemo.cpp (5)
    Turns,       \* how often each of its threads increments (1000)
    MultiLevel,  \* MT_LEVEL of atomicdemo_multivar.cpp (4)
    Small, Large,\* the periods of its increments (10 and 100), ...
    MultiTurns,  \* ... the iterations of its loop (1000), ...
    LowBits, MidBits  \* ... and the widths of its fields (16 and 15)

ASSUME AtomicAssumption ==
    /\ {Level, Turns, MultiLevel, MultiTurns} \subseteq Nat \ {0}
    /\ {Small, Large, LowBits, MidBits} \subseteq Nat \ {0}

VARIABLES
    atomic_counter, bad_counter,
    fooAt,    \* for each thread of atomicdemo: its loop index, next access, ...
    loaded,   \* ... and the value of bad_counter it has loaded
    word,     \* the atomic_counter of atomicdemo_multivar
    countAt   \* for each of its threads: its loop index and next access

atomicVars == <<atomic_counter, bad_counter, fooAt, loaded>>
wordVars == <<word, countAt>>

FooThreads == 0 .. Level - 1
CountThreads == 0 .. MultiLevel - 1

At(i, place) == [i |-> i, place |-> place]

AtomicInit ==
    /\ atomic_counter = 0 /\ bad_counter = 0
    /\ fooAt = [t \in FooThreads |-> At(0, "atomic")]
    /\ loaded = [t \in FooThreads |-> 0]
    /\ word = 0
    /\ countAt = [t \in CountThreads |-> At(0, "small")]

-----------------------------------------------------------------------------
(* foo(): adding to the atomic counter is one access, to the other two.    *)
AtomicIncrement(t) ==
    /\ fooAt[t].place = "atomic" /\ fooAt[t].i < Turns
    /\ atomic_counter' = atomic_counter + 1
    /\ fooAt' = [fooAt EXCEPT ![t].place = "load"]
    /\ UNCHANGED <<bad_counter, loaded>>

Load(t) ==
    /\ fooAt[t].place = "load"
    /\ loaded' = [loaded EXCEPT ![t] = bad_counter]
    /\ fooAt' = [fooAt EXCEPT ![t].place = "store"]
    /\ UNCHANGED <<atomic_counter, bad_counter>>

Store(t) ==
    /\ fooAt[t].place = "store"
    /\ bad_counter' = loaded[t] + 1
    /\ fooAt' = [fooAt EXCEPT ![t] = At(@.i + 1, "atomic")]
    /\ UNCHANGED <<atomic_counter, loaded>>

FooNext == \E t \in FooThreads : AtomicIncrement(t) \/ Load(t) \/ Store(t)

(* main() joins every thread before it prints the counters.                *)
FooJoined == \A t \in FooThreads : fooAt[t] = At(Turns, "atomic")

-----------------------------------------------------------------------------
(* count(): three kinds of atomic additions to an unsigned word that ends  *)
(* two bits above TopBit.                                                  *)
TopBit == LowBits + MidBits - 1

(* 1 << n.                                                                 *)
Bit[n \in 0 .. TopBit + 2] == IF n = 0 THEN 1 ELSE 2 * Bit[n - 1]

Add(n) == word' = (word + n) % Bit[TopBit + 2]
Goes(t, i, place) == countAt' = [countAt EXCEPT ![t] = At(i, place)]

CountSmall(t) ==
    LET i == countAt[t].i
    IN  /\ countAt[t].place = "small" /\ i < MultiTurns
        /\ Add(IF i % Small = 0 THEN 1 ELSE 0)
        /\ Goes(t, i, "large")

(* Mutant of CountLarge: the shift is one short.                           *)
CountLargeShort(t) ==
    LET i == countAt[t].i
    IN  /\ countAt[t].place = "large"
        /\ Add(IF i % Large = 0 THEN Bit[LowBits - 1] ELSE 0)
        /\ Goes(t, i + 1, "small")

CountLarge(t) ==
    LET i == countAt[t].i
    IN  /\ countAt[t].place = "large"
        /\ Add(IF i % Large = 0 THEN Bit[LowBits] ELSE 0)
        /\ Goes(t, i + 1, "small")

CountTop(t) ==
    /\ countAt[t] = At(MultiTurns, "small")
    /\ Add((t % 2) * Bit[TopBit])
    /\ Goes(t, MultiTurns, "done")

CountNext == \E t \in CountThreads : CountSmall(t) \/ CountLarge(t) \/ CountTop(t)

CountJoined == \A t \in CountThreads : countAt[t].place = "done"

(* What main() prints: the three fields, of LowBits, MidBits and 2 bits.   *)
(* The last two share the bit TopBit.                                      *)
LowField == word % Bit[LowBits]
MidField == (word \div Bit[LowBits]) % Bit[MidBits]
TopField == word \div Bit[TopBit]

-----------------------------------------------------------------------------
Multiples(n) == Cardinality({i \in 0 .. MultiTurns - 1 : i % n = 0})
OddThreads == {t \in CountThreads : t % 2 = 1}

(* The fields are wide enough for the counts.  (In the program 400 is less *)
(* than 1 << 16, 40 is less than 1 << 14, and two of the threads are odd.) *)
ASSUME FieldsAssumption ==
    /\ MultiLevel * Multiples(Small) < Bit[LowBits]
    /\ MultiLevel * Multiples(Large) < Bit[MidBits - 1]
    /\ Cardinality(OddThreads) \in {0, 2}

(* The atomic counter ends with every increment; the plain one has lost    *)
(* any number of them, but keeps at least two, the last of a thread and    *)
(* one it was based on, as soon as threads increment twice                 *)
(* (atomicdemo.cpp:17-23, 47-48).                                          *)
TotalsExact ==
    FooJoined =>
        /\ atomic_counter = Level * Turns
        /\ bad_counter \in (IF Turns >= 2 THEN 2 ELSE Turns) .. Level * Turns

(* Each field of the word ends with its own count, as if the threads had   *)
(* counted in three variables: no addition carries into the next field,    *)
(* and the bit that two fields share is clear when the odd threads are an  *)
(* even number (atomicdemo_multivar.cpp:19-26, 51-53).                     *)
FieldsExact ==
    CountJoined =>
        /\ LowField = MultiLevel * Multiples(Small)
        /\ MidField = MultiLevel * Multiples(Large)
        /\ TopField = Cardinality(OddThreads)

(* What both programs print is exact.                                      *)
CountersExact == TotalsExact /\ FieldsExact
=============================================================================
