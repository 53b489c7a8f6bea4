---------------------------- MODULE VirtualMemory ----------------------------
(***************************************************************************)
(* os_ex4/VirtualMemory.cpp: an address space in a tree of page tables     *)
(* that lives in the physical memory with the pages.  Frame 0 is the root; *)
(* a table word holds the frame of a table or page one level down, or 0.   *)
(* The library is sequential: one call is one step.                        *)
(***************************************************************************)
EXTENDS PhysicalMemory, FiniteSets, FiniteSetsExt, Sequences

CONSTANTS
    Depth,    \* TABLES_DEPTH
    Called,   \* the virtual addresses that the program uses
    Data,     \* the words that it writes
    Stale     \* frame numbers that may be found in uninitialised memory

VirtualAddresses == 0 .. NumPages * PageSize - 1

(* A base to the power of 0, 1, ... Depth + 1.                             *)
Powers(base) ==
    LET power[n \in 0 .. Depth + 1] == IF n = 0 THEN 1 ELSE base * power[n - 1]
    IN  [n \in 0 .. Depth + 1 |-> power[n]]

PagePower == Powers(PageSize)
OrderWeight == Powers(PageSize + 1)

(* A whole path fits in RAM.                                               *)
ASSUME TreeAssumption ==
    /\ Depth \in Nat \ {0}
    /\ NumPages = PagePower[Depth]
    /\ NumFrames > Depth
    /\ Called \subseteq Nat
    /\ Data \subseteq Nat
    /\ Stale \subseteq 1 .. NumFrames - 1

VARIABLES
    mem,     \* the physical memory
    answer   \* what the last call returned, and the word it read

vars == <<mem, answer>>

Levels == 0 .. Depth - 1
NoFrame == NumFrames

VMTypeOK ==
    /\ DOMAIN mem = {"ram", "swap", "ok"}
    /\ mem.ram \in [RamAddresses -> Data \cup 0 .. NumFrames - 1]
    /\ DOMAIN mem.swap \subseteq Pages
    /\ \A p \in DOMAIN mem.swap : mem.swap[p] \in [Offsets -> Data \cup {0}]
    /\ mem.ok \in BOOLEAN
    /\ answer \in {<<>>, <<0>>, <<1>>} \cup {<<1, w>> : w \in Data \cup {0}}

-----------------------------------------------------------------------------
Page(a) == a \div PageSize

(* The index at each level and, at Depth, the offset in the page.          *)
split_virtual_address(a) ==
    [d \in 0 .. Depth |-> (a \div PagePower[Depth - d]) % PageSize]

invalid_address(a) == a \notin VirtualAddresses

is_frame_empty(m, frame) == \A a \in FrameAddresses(frame) : m.ram[a] = 0

fill_frame_with_root_value(m, frame) ==
    [m EXCEPT !.ram = [a \in RamAddresses |->
                         IF a \in FrameAddresses(frame) THEN 0 ELSE @[a]]]

-----------------------------------------------------------------------------
(* The words that look_for_empty_table reads: where each is, the depth of  *)
(* its table, that table's number p among those of its depth, the address  *)
(* of the word that refers to the table, and the word's place in the order *)
(* of the search.  At depth Depth the "tables" are pages, read as well.    *)
TableWords(frame, depth, p, father, order) ==
    {[addr |-> a, depth |-> depth, p |-> p, father |-> father,
      order |-> order + ((a % PageSize) + 1) * OrderWeight[Depth - depth]] :
        a \in FrameAddresses(frame)}

Below(m, w) ==
    IF m.ram[w.addr] = 0 THEN {}
    ELSE TableWords(m.ram[w.addr], w.depth + 1,
                    w.p * PageSize + (w.addr % PageSize), w.addr, w.order)

TreeWords(m) ==
    LET upTo[d \in 0 .. Depth] ==
          IF d = 0 THEN TableWords(0, 0, 0, 0, 0)
          ELSE LET above == upTo[d - 1]
               IN  above \cup UNION {Below(m, w) : w \in {v \in above : v.depth = d - 1}}
    IN  upTo[Depth]

First(words) == CHOOSE w \in words : \A v \in words : w.order <= v.order

(* Mutant of Reusable: a table of the path that is being built may be      *)
(* taken, since it is empty as well.                                       *)
ReusableOnPath(m, words, frame_path) ==
    {w \in words :
        /\ w.depth < Depth - 1
        /\ m.ram[w.addr] # 0
        /\ is_frame_empty(m, m.ram[w.addr])}

(* The words that refer to an empty table outside frame_path.              *)
Reusable(m, words, frame_path) ==
    {w \in words :
        /\ w.depth < Depth - 1
        /\ m.ram[w.addr] # 0
        /\ is_frame_empty(m, m.ram[w.addr])
        /\ \A d \in Levels : frame_path[d] # m.ram[w.addr]}

(* PMread asserts that it is given an address in RAM.                      *)
ReadsOutside(m, words) ==
    \E w \in words : w.depth < Depth /\ m.ram[w.addr] >= NumFrames

(* The arithmetic is that of uint64_t.  A modulus beyond 2 * NumPages      *)
(* orders the pages as 2^64 does.                                          *)
Minus(x, y) == (x - y) % (4 * NumPages)

(* Mutant of CyclicDistance: what the comment at lines 298-300 says.       *)
CyclicDistanceOfComment(p, page_to_restore) ==
    LET abs == Max({page_to_restore - p, p - page_to_restore})
    IN  Min({NumPages - abs, abs})

(* Mutant of CyclicDistance: the distance is not cyclic.                   *)
CyclicDistancePlain(p, page_to_restore) ==
    Max({page_to_restore - p, p - page_to_restore})

CyclicDistance(p, page_to_restore) ==
    LET there == Minus(page_to_restore, p)
        abs == IF there > 0 THEN there ELSE Minus(p, page_to_restore)
        round == Minus(NumPages, abs)
    IN  IF round > 0 THEN round ELSE abs

(* The first page at the largest distance.  With no page in RAM the        *)
(* caller's variables keep their initial value 0.                          *)
Victim(words, page_to_restore) ==
    LET pages == {w \in words : w.depth = Depth}
        Far(w) == CyclicDistance(w.p, page_to_restore)
        farthest == {w \in pages : \A v \in pages : Far(w) >= Far(v)}
    IN  IF pages = {} THEN [addr |-> 0, p |-> 0, father |-> 0]
        ELSE First(farthest)

(* Each of the three ways to a frame gives the memory, the frame and       *)
(* max_used_frame, which sums up the words that were read, data included.  *)
MaxUsed(m, max, words) == Max({max} \cup {m.ram[w.addr] : w \in words})

Reuse(m, max, w) ==
    [m |-> PMwrite(m, w.addr, 0), frame |-> m.ram[w.addr], max |-> max]

(* Mutant of TakeUnused: one frame is left out.                            *)
TakeAfterNext(m, max) ==
    [m |-> fill_frame_with_root_value(m, max + 2), frame |-> max + 2, max |-> max]

TakeUnused(m, max) ==
    [m |-> fill_frame_with_root_value(m, max + 1), frame |-> max + 1, max |-> max]

(* Mutant of Evict: the father goes on referring to the frame.             *)
EvictLinked(m, max, victim) ==
    LET frame == victim.addr \div PageSize
    IN  [m |-> fill_frame_with_root_value(PMevict(m, frame, victim.p), frame),
         frame |-> frame, max |-> max]

Evict(m, max, victim) ==
    LET frame == victim.addr \div PageSize
        unlinked == PMwrite(m, victim.father, 0)
    IN  [m |-> fill_frame_with_root_value(
                 PMevict(unlinked, frame, victim.p), frame),
         frame |-> frame, max |-> max]

page_not_found(m, frame_path, max, page_to_restore) ==
    LET words == TreeWords(m)
        reusable == Reusable(m, words, frame_path)
        first == First(reusable)
        read == {w \in words : reusable # {} => w.order <= first.order}
        used == MaxUsed(m, max, read)
    IN  IF ReadsOutside(m, read)
        THEN [m |-> [m EXCEPT !.ok = FALSE], frame |-> 0, max |-> max]
        ELSE IF reusable # {} THEN Reuse(m, used, first)
        ELSE IF used + 1 < NumFrames THEN TakeUnused(m, used)
        ELSE Evict(m, used, Victim(words, page_to_restore))

-----------------------------------------------------------------------------
(* The loop of gets_physical_address: its locals, and one level of it.     *)
Descend(s, d, a) ==
    LET slot == s.cur_frame * PageSize + split_virtual_address(a)[d]
        tester == PMread(s.m, slot)
        found == page_not_found(s.m, s.frame_path, s.max, Page(a))
        linked == PMwrite(found.m, slot, found.frame)
    IN  IF slot \notin RamAddresses THEN [s EXCEPT !.m.ok = FALSE]
        ELSE IF tester # 0
        THEN [s EXCEPT !.cur_frame = tester, !.frame_path[d] = tester]
        ELSE [s EXCEPT
                !.m = IF d = Depth - 1 THEN PMrestore(linked, found.frame, Page(a))
                      ELSE linked,
                !.cur_frame = found.frame,
                !.frame_path[d] = found.frame,
                !.max = Max({found.frame, found.max})]

gets_physical_address(m, a, frame_path) ==
    LET begin == [m |-> m, cur_frame |-> 0, frame_path |-> frame_path, max |-> 0]
        upTo[d \in 0 .. Depth] == IF d = 0 THEN begin ELSE Descend(upTo[d - 1], d - 1, a)
        end == upTo[Depth]
    IN  [m |-> end.m, at |-> end.cur_frame * PageSize + (a % PageSize)]

(* frame_path is an array that nobody initialises (line 73): a call finds  *)
(* in it what the stack happens to hold.                                   *)
Uninitialised == [Levels -> Stale \cup {NoFrame}]

VMread(a, frame_path) ==
    /\ ~invalid_address(a)
    /\ \E found \in {gets_physical_address(mem, a, frame_path)} :
         /\ mem' = [found.m EXCEPT !.ok = @ /\ found.at \in RamAddresses]
         /\ answer' = <<1, PMread(found.m, found.at)>>

VMwrite(a, word, frame_path) ==
    /\ ~invalid_address(a)
    /\ \E found \in {gets_physical_address(mem, a, frame_path)} :
         mem' = PMwrite(found.m, found.at, word)
    /\ answer' = <<1>>

Refuse(a) == invalid_address(a) /\ answer' = <<0>> /\ UNCHANGED mem

(* VMinitialize writes zeros to a root of zeros.                           *)
VMinitialize == mem = fill_frame_with_root_value(EmptyMemory, 0)

Init == VMinitialize /\ answer = <<>>

Calls(addresses, words, paths) ==
    /\ mem.ok
    /\ \E a \in addresses :
         \/ Refuse(a)
         \/ \E frame_path \in paths :
              VMread(a, frame_path) \/ \E word \in words : VMwrite(a, word, frame_path)

Next == Calls(Called, Data, Uninitialised)

Spec == Init /\ [][Next]_vars

-----------------------------------------------------------------------------
(* The program never fails an assertion of the physical memory: each       *)
(* address is in RAM and no page is swapped out twice                      *)
(* (PhysicalMemory.cpp:21, 33, 45-47, 57).                                 *)
AssertionsHold == mem.ok

(* Between calls the tables form a tree: no frame is referred to from two  *)
(* words, nor the root from any, although empty tables and evicted pages   *)
(* change their place while a path is built (VirtualMemory.cpp:200-216,    *)
(* 273-278).                                                               *)
Links(m) == {w \in TreeWords(m) : w.depth < Depth /\ m.ram[w.addr] # 0}

TreeWellFormed ==
    /\ \A v, w \in Links(mem) : mem.ram[v.addr] = mem.ram[w.addr] => v.addr = w.addr
    /\ \A w \in Links(mem) : mem.ram[w.addr] < NumFrames

(* Frames are lost, but only to written words.  The search takes the words *)
(* of pages for frame numbers and offers only the frame after the largest  *)
(* it met: a frame larger than all in use that a call passes over, and     *)
(* that no later call will find either, was passed over because of a word  *)
(* in RAM at least as large as its number, and the tree goes on right      *)
(* after that word (VirtualMemory.cpp:188-197, 263-267).                   *)
FramesInUse(m) == {m.ram[w.addr] : w \in Links(m)}

LostToWords ==
    [][LET before == FramesInUse(mem)
           after == FramesInUse(mem')
           written == {mem.ram[w.addr] : w \in {v \in TreeWords(mem) : v.depth = Depth}}
       IN  \A lost \in 1 .. NumFrames - 1 :
             /\ \A used \in before : used < lost
             /\ lost \notin after
             /\ \E used \in after : lost < used
             => \E word \in written : lost <= word /\ word + 1 \in after]_vars

(* A page is in RAM or in the swap file, not in both, where one copy would *)
(* grow old (PhysicalMemory.cpp:47, 67).                                   *)
Resident == {w.p : w \in {v \in TreeWords(mem) : v.depth = Depth}}

OneCopy == Resident \cap DOMAIN mem.swap = {}

(* The pages that a call evicts are those with the largest numbers,        *)
(* wherever the page is that they make room for: in unsigned arithmetic    *)
(* the distance is NUM_PAGES - page_to_restore + p, not the cyclic one of  *)
(* the comment (VirtualMemory.cpp:175-177, 298-300).                       *)
EvictsLargest ==
    [][\A p \in DOMAIN mem'.swap \ DOMAIN mem.swap :
          \A q \in Resident \ DOMAIN mem'.swap : q < p]_vars

(* The frame that the tables lead to, or 0 if a table of the path or the   *)
(* page itself is missing.                                                 *)
FrameOf(m, a) ==
    LET frame[d \in 0 .. Depth] ==
          IF d = 0 THEN 0
          ELSE LET above == frame[d - 1]
               IN  IF d > 1 /\ above = 0 THEN 0
                   ELSE PMread(m, above * PageSize + split_virtual_address(a)[d - 1])
    IN  frame[Depth]

(* What the virtual memory holds: the word in the page's frame, or in the  *)
(* swap file, or the 0 of a page that was never touched.                   *)
WordAt(m, a) ==
    LET frame == FrameOf(m, a)
    IN  IF frame # 0 THEN PMread(m, frame * PageSize + (a % PageSize))
        ELSE IF Page(a) \in DOMAIN m.swap THEN m.swap[Page(a)][a % PageSize]
        ELSE 0

Contents == [a \in Called \cap VirtualAddresses |-> WordAt(mem, a)]

(* Whatever is moved between RAM and the swap file, each read returns the  *)
(* last word written to its address, or 0, and no call disturbs another    *)
(* address (VirtualMemory.h: VMread, VMwrite).                             *)
Flat == INSTANCE FlatMemory WITH
    Addresses <- Called \cap VirtualAddresses, Words <- Data,
    Invalid <- Called \ VirtualAddresses, store <- Contents

ImplementsFlatMemory == Flat!Spec
=============================================================================
