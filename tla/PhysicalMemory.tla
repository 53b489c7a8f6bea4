--------------------------- MODULE PhysicalMemory ---------------------------
(***************************************************************************)
(* os_ex4/PhysicalMemory.cpp: RAM and the swap file.  The four functions   *)
(* are operators on a record m of the two, in which ok says that no        *)
(* assertion has failed.  A failed assertion ends the program, so what the *)
(* operators do once ok is FALSE is of no account.                         *)
(***************************************************************************)
EXTENDS Integers

CONSTANTS
    PageSize,   \* PAGE_SIZE: words of a page, a frame and a table
    NumFrames,  \* NUM_FRAMES
    NumPages    \* NUM_PAGES

ASSUME MemoryAssumption ==
    /\ PageSize \in Nat \ {0, 1}
    /\ NumFrames \in Nat \ {0}
    /\ NumPages \in Nat \ {0}

Offsets == 0 .. PageSize - 1
RamSize == NumFrames * PageSize
RamAddresses == 0 .. RamSize - 1
Pages == 0 .. NumPages - 1

(* RAM is a vector of zeros from its first use; the swap file is empty.    *)
EmptyMemory ==
    [ram |-> [a \in RamAddresses |-> 0], swap |-> <<>>, ok |-> TRUE]

FrameAddresses(frame) ==
    {a \in frame * PageSize .. (frame + 1) * PageSize - 1 : a < RamSize}

FrameContents(m, frame) == [i \in Offsets |-> m.ram[frame * PageSize + i]]

PMread(m, a) == IF a \in RamAddresses THEN m.ram[a] ELSE 0

PMwrite(m, a, word) ==
    IF a \in RamAddresses THEN [m EXCEPT !.ram[a] = word]
    ELSE [m EXCEPT !.ok = FALSE]

PMevict(m, frame, page) ==
    IF frame < NumFrames /\ page \in Pages \ DOMAIN m.swap
    THEN [m EXCEPT !.swap = [p \in {page} \cup DOMAIN m.swap |->
                               IF p = page THEN FrameContents(m, frame) ELSE @[p]]]
    ELSE [m EXCEPT !.ok = FALSE]

Restored(m, frame, page) ==
    [a \in RamAddresses |->
       IF a \in FrameAddresses(frame) THEN m.swap[page][a % PageSize] ELSE m.ram[a]]

(* Mutant of PMrestore: the page stays in the swap file.                   *)
PMrestoreKeeps(m, frame, page) ==
    IF frame >= NumFrames THEN [m EXCEPT !.ok = FALSE]
    ELSE IF page \notin DOMAIN m.swap THEN m
    ELSE [m EXCEPT !.ram = Restored(m, frame, page)]

(* A page that is not in the swap file is referenced for the first time.   *)
PMrestore(m, frame, page) ==
    IF frame >= NumFrames THEN [m EXCEPT !.ok = FALSE]
    ELSE IF page \notin DOMAIN m.swap THEN m
    ELSE [m EXCEPT !.ram = Restored(m, frame, page),
                   !.swap = [p \in DOMAIN m.swap \ {page} |-> m.swap[p]]]
=============================================================================
