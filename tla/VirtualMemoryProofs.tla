------------------------ MODULE VirtualMemoryProofs -------------------------
EXTENDS VMTests, DataLemmas
(***************************************************************************)
(* What holds of the virtual memory for every size of page, RAM and        *)
(* address, and every set of words the program may write.                  *)
(*                                                                         *)
(* The argument: between calls, and at each level of the loop of           *)
(* gets_physical_address, the frames can be labelled with a depth and a    *)
(* number such that the words of the tables are what the labels say        *)
(* (Tree).  Three lemmas on what page_not_found may return (ReuseFound,    *)
(* UnusedFound, EvictFound) and one on the frame that joins the tree       *)
(* (EnterFrame) keep that so; Roomy is why one of the three always applies.*)
(* Held is what the memory holds, wherever it is kept, and no step of the  *)
(* loop changes it.  The loops of the code are recursive functions of the  *)
(* model; what they compute at each depth is shown by induction on a set   *)
(* of depths (DataLemmas).                                                 *)
(*                                                                         *)
(* The array frame_path is not initialised.  The theorems are about the    *)
(* programs whose calls are Harmless: none of them finds in that array the *)
(* number of a table of the tree.  The code does not see to it, and the    *)
(* run StalePath shows an assertion fail when a call does find one; what   *)
(* is proved is that nothing else can go wrong.                            *)
(*                                                                         *)
(* The tests of VMTests are a use of this memory: what they read is what   *)
(* they wrote, and so the simple one passes with every size.               *)
(***************************************************************************)

Frames == 0 .. NumFrames - 1
Addr(frame, i) == frame * PageSize + i

(* What the assumptions of the modules say of the sizes, as the steps      *)
(* below use it.                                                           *)
LEMMA Sizes ==
  /\ PageSize \in Nat /\ PageSize > 1
  /\ NumFrames \in Nat /\ NumFrames > Depth
  /\ Depth \in Nat /\ Depth > 0
  /\ NumPages \in Nat /\ NumPages > 0
  /\ Data \subseteq Nat
  BY MemoryAssumption, TreeAssumption

-----------------------------------------------------------------------------
(* The addresses of RAM are the words of the frames.                       *)
LEMMA AddrOfWord ==
  ASSUME NEW f \in Frames, NEW i \in Offsets
  PROVE  /\ Addr(f, i) \in RamAddresses
         /\ Addr(f, i) \div PageSize = f
         /\ Addr(f, i) % PageSize = i
<1> USE Sizes
<1>1. f \in Nat /\ i \in Nat /\ i < PageSize /\ f <= NumFrames - 1
  BY DEF Frames, Offsets
<1>2. f * PageSize <= (NumFrames - 1) * PageSize  BY <1>1, TimesMonotone
<1>3. (NumFrames - 1) * PageSize = (NumFrames * PageSize) - PageSize  OBVIOUS
<1>4. f * PageSize \in Nat /\ NumFrames * PageSize \in Nat  BY <1>1
<1>5. Addr(f, i) \in RamAddresses
  BY <1>1, <1>2, <1>3, <1>4 DEF Addr, RamAddresses, RamSize
<1> QED  BY <1>1, <1>5, QuotientUnique DEF Addr

(* Each address of RAM is a word of the frame it is divided into.          *)
LEMMA WordOfAddr ==
  ASSUME NEW a \in RamAddresses
  PROVE  /\ a \div PageSize \in Frames
         /\ a % PageSize \in Offsets
         /\ Addr(a \div PageSize, a % PageSize) = a
<1> USE Sizes
<1> DEFINE f == a \div PageSize
           i == a % PageSize
<1>1. a \in Nat /\ a < NumFrames * PageSize /\ NumFrames * PageSize \in Nat
  BY DEF RamAddresses, RamSize
<1>2. f \in Nat /\ i \in 0 .. PageSize - 1 /\ (f * PageSize) + i = a
  BY <1>1, Quotient
<1> HIDE DEF f, i
<1>3. f < NumFrames
  <2> SUFFICES ASSUME NumFrames <= f  PROVE FALSE  BY <1>2
  <2>1. NumFrames * PageSize <= f * PageSize  BY <1>2, TimesMonotone
  <2>2. f * PageSize \in Nat  BY <1>2
  <2> QED  BY <1>1, <1>2, <2>1, <2>2
<1> QED  BY <1>2, <1>3 DEF f, i, Frames, Offsets, Addr

(* The addresses that fill_frame_with_root_value and the search go over    *)
(* are those of the frame.                                                 *)
LEMMA FrameAddressesExact ==
  ASSUME NEW f \in Frames, NEW a
  PROVE  a \in FrameAddresses(f) <=> a \in RamAddresses /\ a \div PageSize = f
<1> USE Sizes
<1>0. f \in Nat /\ f * PageSize \in Nat /\ (f + 1) * PageSize = (f * PageSize) + PageSize
      /\ NumFrames * PageSize \in Nat
  BY DEF Frames
<1>1. ASSUME a \in FrameAddresses(f)
      PROVE  a \in RamAddresses /\ a \div PageSize = f
  <2>1. a \in Int /\ f * PageSize <= a /\ a <= (f * PageSize) + PageSize - 1
        /\ a < RamSize
    BY <1>0, <1>1 DEF FrameAddresses
  <2>2. a \in RamAddresses  BY <1>0, <2>1 DEF RamAddresses, RamSize
  <2> DEFINE i == a - (f * PageSize)
  <2>3. i \in Nat /\ i < PageSize /\ (f * PageSize) + i = a  BY <1>0, <2>1
  <2> HIDE DEF i
  <2> QED  BY <1>0, <2>2, <2>3, QuotientUnique
<1>2. ASSUME a \in RamAddresses, a \div PageSize = f
      PROVE  a \in FrameAddresses(f)
  <2>1. Addr(f, a % PageSize) = a /\ a % PageSize \in Offsets  BY <1>2, WordOfAddr
  <2> DEFINE i == a % PageSize
  <2> HIDE DEF i
  <2>2. (f * PageSize) + i = a /\ i \in 0 .. PageSize - 1
    BY <2>1 DEF i, Addr, Offsets
  <2>3. a \in f * PageSize .. (f + 1) * PageSize - 1  BY <1>0, <2>2
  <2>4. a < RamSize  BY <1>0, <1>2 DEF RamAddresses, RamSize
  <2> QED  BY <2>3, <2>4 DEF FrameAddresses
<1> QED  BY <1>1, <1>2

-----------------------------------------------------------------------------
(* Powers.                                                                 *)
LEMMA PowersValue ==
  ASSUME NEW base \in Nat, base > 0
  PROVE  /\ Powers(base)[0] = 1
         /\ \A d \in 0 .. Depth + 1 : Powers(base)[d] \in Nat /\ Powers(base)[d] > 0
         /\ \A d \in 0 .. Depth : Powers(base)[d + 1] = base * Powers(base)[d]
<1> DEFINE power == CHOOSE f : f = PowersUpTo(base, Depth + 1, f)
           P == Powers(base)
<1>1. Depth + 1 \in Nat /\ (Depth + 1) - 1 = Depth  BY Sizes
<1>2. power = PowersUpTo(base, Depth + 1, power)
  BY <1>1, PowersExist
<1>3. P = [d \in 0 .. Depth + 1 |-> power[d]]  BY DEF Powers, PowersUpTo
<1> HIDE DEF power, P
<1>4. P = PowersUpTo(base, Depth + 1, P)
  <2>1. \A d \in 0 .. Depth + 1 : d # 0 => d - 1 \in 0 .. Depth + 1  BY Sizes
  <2> QED  BY <1>2, <1>3, <2>1 DEF PowersUpTo
<1> QED  BY <1>1, <1>4, PowersProperties DEF P

(* The powers of the page size, which the splitting of an address divides  *)
(* by, are defined as far as an address is long.                           *)
LEMMA PagePowerValue ==
  /\ PagePower[0] = 1 /\ PagePower[1] = PageSize
  /\ \A d \in 0 .. Depth + 1 : PagePower[d] \in Nat /\ PagePower[d] > 0
  /\ \A d \in 0 .. Depth : PagePower[d + 1] = PageSize * PagePower[d]
  /\ NumPages = PagePower[Depth]
<1>1. 0 \in 0 .. Depth /\ 0 + 1 = 1 /\ PageSize * 1 = PageSize  BY Sizes
<1>2. /\ PagePower[0] = 1
      /\ \A d \in 0 .. Depth + 1 : PagePower[d] \in Nat /\ PagePower[d] > 0
      /\ \A d \in 0 .. Depth : PagePower[d + 1] = PageSize * PagePower[d]
  BY Sizes, PowersValue DEF PagePower
<1> QED  BY <1>1, <1>2, TreeAssumption

(* The number of the table or page at depth d on the path to address a.    *)
Prefix(a, d) == a \div PagePower[(Depth + 1) - d]

(* An address is the path to it: each offset that split_virtual_address    *)
(* gives leads from one prefix to the next, from 0 to the page's number.   *)
LEMMA PrefixValue ==
  ASSUME NEW a \in VirtualAddresses
  PROVE  /\ \A d \in 0 .. Depth : Prefix(a, d) \in Nat
         /\ Prefix(a, 0) = 0
         /\ Prefix(a, Depth) = Page(a)
         /\ Page(a) \in Pages
         /\ \A d \in Levels :
              /\ split_virtual_address(a)[d] \in Offsets
              /\ Prefix(a, d + 1) = (Prefix(a, d) * PageSize) + split_virtual_address(a)[d]
<1> USE Sizes, PagePowerValue
<1>1. a \in Nat /\ a < NumPages * PageSize  BY DEF VirtualAddresses
<1>2. PagePower[Depth + 1] = NumPages * PageSize
  <2>1. PagePower[Depth + 1] = PageSize * PagePower[Depth]
    BY Depth \in 0 .. Depth
  <2>2. PageSize * NumPages = NumPages * PageSize  OBVIOUS
  <2> QED  BY <2>1, <2>2
<1>3. \A d \in 0 .. Depth : Prefix(a, d) \in Nat
  <2> TAKE d \in 0 .. Depth
  <2>1. (Depth + 1) - d \in 0 .. Depth + 1  OBVIOUS
  <2> QED  BY <1>1, <2>1, Quotient DEF Prefix
<1>4. Prefix(a, 0) = 0
  <2> DEFINE m == NumPages * PageSize
  <2>1. m \in Nat /\ a < m  BY <1>1
  <2> HIDE DEF m
  <2>4. a \div m = 0
    <3> DEFINE q == a \div m
    <3>1. q \in Nat /\ a % m \in Nat /\ (q * m) + (a % m) = a  BY <1>1, <2>1, Quotient
    <3> HIDE DEF q
    <3>2. q >= 1 => 1 * m <= q * m  BY <2>1, <3>1, TimesMonotone
    <3>3. q * m \in Nat /\ 1 * m = m  BY <2>1, <3>1
    <3> QED  BY <1>1, <2>1, <3>1, <3>2, <3>3 DEF q
  <2> QED  BY <1>2, <2>4 DEF Prefix, m
<1>5. Prefix(a, Depth) = Page(a)
  <2>1. (Depth + 1) - Depth = 1  OBVIOUS
  <2> QED  BY <2>1 DEF Prefix, Page
<1>6. Page(a) \in Pages
  <2> DEFINE q == a \div PageSize
  <2>1. q \in Nat /\ a % PageSize >= 0 /\ (q * PageSize) + (a % PageSize) = a
    BY <1>1, Quotient
  <2> HIDE DEF q
  <2>2. q < NumPages
    <3> SUFFICES ASSUME NumPages <= q  PROVE FALSE  BY <2>1
    <3>1. NumPages * PageSize <= q * PageSize  BY <2>1, TimesMonotone
    <3>2. q * PageSize \in Nat /\ NumPages * PageSize \in Nat  BY <2>1
    <3>3. a % PageSize \in Nat  BY <1>1, Quotient
    <3> QED  BY <1>1, <2>1, <3>1, <3>2, <3>3
  <2> QED  BY <2>1, <2>2 DEF q, Page, Pages
<1>7. ASSUME NEW d \in Levels
      PROVE  /\ split_virtual_address(a)[d] \in Offsets
             /\ Prefix(a, d + 1) = (Prefix(a, d) * PageSize) + split_virtual_address(a)[d]
  <2> DEFINE x == PagePower[Depth - d]
             q == a \div x
  <2>1. d \in Nat /\ Depth - d \in 0 .. Depth /\ d \in 0 .. Depth
        /\ (Depth + 1) - (d + 1) = Depth - d /\ (Depth + 1) - d = (Depth - d) + 1
    BY DEF Levels
  <2>2. x \in Nat /\ x > 0 /\ PagePower[(Depth + 1) - d] = PageSize * x
    BY <2>1
  <2>3. split_virtual_address(a)[d] = q % PageSize
    BY <2>1 DEF split_virtual_address
  <2>4. Prefix(a, d + 1) = q  BY <2>1 DEF Prefix
  <2> HIDE DEF x
  <2>5. Prefix(a, d) = q \div PageSize
    BY <1>1, <2>2, QuotientOfQuotient DEF Prefix
  <2>6. q \in Nat  BY <1>1, <2>2, Quotient
  <2> HIDE DEF q
  <2>7. q % PageSize \in Offsets /\ ((q \div PageSize) * PageSize) + (q % PageSize) = q
    BY <2>6, Quotient DEF Offsets
  <2> QED  BY <2>3, <2>4, <2>5, <2>7
<1> QED  BY <1>3, <1>4, <1>5, <1>6, <1>7

-----------------------------------------------------------------------------
(* The physical memory, while no assertion has failed.                     *)
Contained == Data \cup {0}
Words == Data \cup Frames
Swaps == UNION {[D -> [Offsets -> Contained]] : D \in SUBSET Pages}
Memories == [ram : [RamAddresses -> Words], swap : Swaps, ok : {TRUE}]

Word(m, f, i) == m.ram[Addr(f, i)]

(* Each page of the swap file has the words that a frame may hold.         *)
LEMMA SwapType ==
  ASSUME NEW s \in Swaps
  PROVE  /\ DOMAIN s \subseteq Pages
         /\ \A p \in DOMAIN s : s[p] \in [Offsets -> Contained]
<1>1. PICK D \in SUBSET Pages : s \in [D -> [Offsets -> Contained]]  BY DEF Swaps
<1> QED  BY <1>1

(* A function of pages to frame contents is a swap file.                   *)
LEMMA SwapIntro ==
  ASSUME NEW D \in SUBSET Pages, NEW s \in [D -> [Offsets -> Contained]]
  PROVE  s \in Swaps
  BY DEF Swaps

(* A word of RAM is a number that the program wrote, a frame, or 0.        *)
LEMMA WordsType ==
  /\ Words \subseteq Nat /\ Contained \subseteq Words /\ 0 \in Contained
  /\ Frames \subseteq Words /\ 0 \in Frames
  /\ \A m \in Memories, f \in Frames, i \in Offsets : Word(m, f, i) \in Words
<1>1. 0 \in Frames /\ Frames \subseteq Nat  BY Sizes DEF Frames
<1>2. \A m \in Memories, f \in Frames, i \in Offsets : Word(m, f, i) \in Words
  BY AddrOfWord DEF Memories, Word
<1> QED  BY <1>1, <1>2, Sizes DEF Words, Contained

(* Different words have different addresses.                               *)
LEMMA AddrInjective ==
  ASSUME NEW f \in Frames, NEW i \in Offsets, NEW g \in Frames, NEW j \in Offsets
  PROVE  Addr(f, i) = Addr(g, j) <=> f = g /\ i = j
<1>1. Addr(f, i) \div PageSize = f /\ Addr(f, i) % PageSize = i  BY AddrOfWord
<1>2. Addr(g, j) \div PageSize = g /\ Addr(g, j) % PageSize = j  BY AddrOfWord
<1> QED  BY <1>1, <1>2

(* What each operation does, seen word by word.                            *)
LEMMA WriteWord ==
  ASSUME NEW m \in Memories, NEW f \in Frames, NEW i \in Offsets, NEW w \in Words
  PROVE  LET n == PMwrite(m, Addr(f, i), w)
         IN  /\ n \in Memories
             /\ n.swap = m.swap
             /\ \A g \in Frames, j \in Offsets :
                  Word(n, g, j) = IF g = f /\ j = i THEN w ELSE Word(m, g, j)
<1> DEFINE a == Addr(f, i)
           n == PMwrite(m, a, w)
<1>1. a \in RamAddresses  BY AddrOfWord
<1>2. \A g \in Frames, j \in Offsets :
        Addr(g, j) \in RamAddresses /\ (Addr(g, j) = a <=> g = f /\ j = i)
  BY AddrOfWord, AddrInjective
<1> HIDE DEF a
<1>3. n = [m EXCEPT !.ram[a] = w]  BY <1>1 DEF PMwrite
<1> HIDE DEF n
<1>4. /\ n \in Memories /\ n.swap = m.swap
      /\ \A b \in RamAddresses : n.ram[b] = IF b = a THEN w ELSE m.ram[b]
  BY <1>1, <1>3 DEF Memories
<1>5. \A g \in Frames, j \in Offsets :
        Word(n, g, j) = IF g = f /\ j = i THEN w ELSE Word(m, g, j)
  BY <1>2, <1>4 DEF Word
<1> QED  BY <1>4, <1>5 DEF n, a

(* Filling a frame clears its words and no other.                          *)
LEMMA ClearFrame ==
  ASSUME NEW m \in Memories, NEW f \in Frames
  PROVE  LET n == fill_frame_with_root_value(m, f)
         IN  /\ n \in Memories
             /\ n.swap = m.swap
             /\ \A g \in Frames, j \in Offsets :
                  Word(n, g, j) = IF g = f THEN 0 ELSE Word(m, g, j)
<1> DEFINE n == fill_frame_with_root_value(m, f)
           R == [a \in RamAddresses |-> IF a \in FrameAddresses(f) THEN 0 ELSE m.ram[a]]
<1>1. FrameAddresses(f) \subseteq RamAddresses  BY FrameAddressesExact
<1>2. n = [m EXCEPT !.ram = R]  BY DEF fill_frame_with_root_value
<1>3. R \in [RamAddresses -> Words]  BY WordsType DEF Memories
<1>4. \A g \in Frames, j \in Offsets : R[Addr(g, j)] = IF g = f THEN 0 ELSE Word(m, g, j)
  <2> TAKE g \in Frames, j \in Offsets
  <2>1. Addr(g, j) \in RamAddresses /\ (Addr(g, j) \in FrameAddresses(f) <=> g = f)
    BY AddrOfWord, FrameAddressesExact
  <2> QED  BY <2>1 DEF Word
<1> HIDE DEF R, n
<1>5. n \in Memories /\ n.swap = m.swap /\ n.ram = R  BY <1>2, <1>3 DEF Memories
<1> QED  BY <1>4, <1>5 DEF n, Word

(* An eviction puts the frame's words into the swap file, in the place of  *)
(* nothing.                                                                *)
LEMMA EvictPage ==
  ASSUME NEW m \in Memories, NEW f \in Frames, NEW p \in Pages, p \notin DOMAIN m.swap,
         \A i \in Offsets : Word(m, f, i) \in Contained
  PROVE  LET n == PMevict(m, f, p)
         IN  /\ n \in Memories
             /\ n.ram = m.ram
             /\ DOMAIN n.swap = {p} \cup DOMAIN m.swap
             /\ \A i \in Offsets : n.swap[p][i] = Word(m, f, i)
             /\ \A q \in DOMAIN m.swap : n.swap[q] = m.swap[q]
<1> DEFINE n == PMevict(m, f, p)
           C == FrameContents(m, f)
           D == {p} \cup DOMAIN m.swap
           s == [q \in D |-> IF q = p THEN C ELSE m.swap[q]]
<1>1. f < NumFrames  BY Sizes DEF Frames
<1>2. n = [m EXCEPT !.swap = s]  BY <1>1 DEF PMevict
<1>3. C \in [Offsets -> Contained] /\ \A i \in Offsets : C[i] = Word(m, f, i)
  BY DEF FrameContents, Word, Addr
<1>4. m.swap \in Swaps  BY DEF Memories
<1>5. DOMAIN m.swap \subseteq Pages /\ \A q \in DOMAIN m.swap : m.swap[q] \in [Offsets -> Contained]
  BY <1>4, SwapType
<1> HIDE DEF C
<1>7. /\ DOMAIN s = D /\ s[p] = C /\ \A q \in DOMAIN m.swap : s[q] = m.swap[q]
      /\ s \in [D -> [Offsets -> Contained]]
  BY <1>3, <1>5
<1> HIDE DEF s
<1>8. s \in Swaps  BY <1>5, <1>7, SwapIntro
<1> HIDE DEF n
<1>9. n \in Memories /\ n.ram = m.ram /\ n.swap = s  BY <1>2, <1>8 DEF Memories
<1> QED  BY <1>3, <1>7, <1>9 DEF n

(* A restore takes the page out of the swap file, if it is there, and into *)
(* the frame; if it is not, it changes nothing.                            *)
LEMMA RestorePage ==
  ASSUME NEW m \in Memories, NEW f \in Frames, NEW p \in Pages
  PROVE  LET n == PMrestore(m, f, p)
         IN  /\ n \in Memories
             /\ DOMAIN n.swap = DOMAIN m.swap \ {p}
             /\ \A q \in DOMAIN n.swap : n.swap[q] = m.swap[q]
             /\ \A g \in Frames, j \in Offsets :
                  Word(n, g, j) = IF g = f /\ p \in DOMAIN m.swap THEN m.swap[p][j]
                                  ELSE Word(m, g, j)
             /\ p \in DOMAIN m.swap => \A j \in Offsets : m.swap[p][j] \in Contained
<1> DEFINE n == PMrestore(m, f, p)
<1>1. ~ (f >= NumFrames)  BY Sizes DEF Frames
<1>2. m.swap \in Swaps  BY DEF Memories
<1>3. DOMAIN m.swap \subseteq Pages /\ \A q \in DOMAIN m.swap : m.swap[q] \in [Offsets -> Contained]
  BY <1>2, SwapType
<1>4. CASE p \notin DOMAIN m.swap
  <2>1. n = m  BY <1>1, <1>4 DEF PMrestore
  <2> QED  BY <1>4, <2>1
<1>5. CASE p \in DOMAIN m.swap
  <2> DEFINE R == Restored(m, f, p)
             D == DOMAIN m.swap \ {p}
             s == [q \in D |-> m.swap[q]]
             Q == [a \in RamAddresses |->
                     IF a \in FrameAddresses(f) THEN m.swap[p][a % PageSize] ELSE m.ram[a]]
  <2>1. n = [m EXCEPT !.ram = R, !.swap = s]  BY <1>1, <1>5 DEF PMrestore
  <2>2. R = Q  BY DEF Restored
  <2>3. Q \in [RamAddresses -> Words]
    <3>1. \A a \in RamAddresses : m.swap[p][a % PageSize] \in Words
      BY <1>3, <1>5, WordOfAddr, WordsType
    <3>2. m.ram \in [RamAddresses -> Words]  BY DEF Memories
    <3> QED  BY <3>1, <3>2
  <2>4. \A g \in Frames, j \in Offsets :
          Q[Addr(g, j)] = IF g = f THEN m.swap[p][j] ELSE Word(m, g, j)
    <3> TAKE g \in Frames, j \in Offsets
    <3>1. /\ Addr(g, j) \in RamAddresses /\ (Addr(g, j) \in FrameAddresses(f) <=> g = f)
          /\ Addr(g, j) % PageSize = j
      BY AddrOfWord, FrameAddressesExact
    <3> QED  BY <3>1 DEF Word
  <2>5. s \in [D -> [Offsets -> Contained]] /\ D \in SUBSET Pages  BY <1>3
  <2>6. DOMAIN s = D /\ \A q \in D : s[q] = m.swap[q]  OBVIOUS
  <2> HIDE DEF s, Q, R, D
  <2>7. s \in Swaps  BY <2>5, SwapIntro
  <2> HIDE DEF n
  <2>8. n \in Memories /\ n.ram = Q /\ n.swap = s
    BY <2>1, <2>2, <2>3, <2>7 DEF Memories
  <2>9. \A j \in Offsets : m.swap[p][j] \in Contained  BY <1>3, <1>5
  <2> QED  BY <1>5, <2>4, <2>6, <2>8, <2>9 DEF n, D, Word
<1> QED  BY <1>4, <1>5

-----------------------------------------------------------------------------
(* The tree, seen from its frames: a labelling that gives each frame of    *)
(* the tree its depth and its number among the tables or pages of that     *)
(* depth, and each other frame the depth -1.                               *)
Labellings == [Frames -> -1 .. Depth]
Numbers == [Frames -> Nat]

(* The number of what the i-th word of table number n refers to.           *)
Number(n, i) == n * PageSize + i

Root(dep, pg) == dep[0] = 0 /\ pg[0] = 0 /\ \A f \in Frames : dep[f] = 0 => f = 0

Refers(m, dep, pg, f, i) ==
    LET g == Word(m, f, i)
    IN  g # 0 => g \in Frames /\ dep[g] = dep[f] + 1 /\ pg[g] = Number(pg[f], i)

Down(m, dep, pg) == \A f \in Frames, i \in Offsets : dep[f] \in Levels => Refers(m, dep, pg, f, i)

Up(m, dep) ==
    \A g \in Frames : dep[g] > 0 =>
       \E f \in Frames, i \in Offsets : dep[f] = dep[g] - 1 /\ Word(m, f, i) = g

Distinct(dep, pg) ==
    \A f, g \in Frames : dep[f] >= 0 /\ dep[f] = dep[g] /\ pg[f] = pg[g] => f = g

Numbered(dep, pg) == \A f \in Frames : dep[f] >= 0 => pg[f] < PagePower[dep[f]]

PagesHeld(m, dep, pg) ==
    \A f \in Frames : dep[f] = Depth =>
       /\ \A i \in Offsets : Word(m, f, i) \in Contained
       /\ pg[f] \notin DOMAIN m.swap

Tree(m, dep, pg) ==
    /\ m \in Memories /\ dep \in Labellings /\ pg \in Numbers
    /\ Root(dep, pg) /\ Down(m, dep, pg) /\ Up(m, dep)
    /\ Distinct(dep, pg) /\ Numbered(dep, pg) /\ PagesHeld(m, dep, pg)

(* The number of a table or a page is a natural number.                    *)
LEMMA NumberType == ASSUME NEW n \in Nat, NEW i \in Offsets  PROVE Number(n, i) \in Nat
  BY Sizes DEF Number, Offsets

(* Two words lead to the same number only if they are the same word of the *)
(* same table.                                                             *)
LEMMA NumberInjective ==
  ASSUME NEW n \in Nat, NEW i \in Offsets, NEW p \in Nat, NEW j \in Offsets,
         Number(n, i) = Number(p, j)
  PROVE  n = p /\ i = j
<1>1. i \in Nat /\ i < PageSize /\ j \in Nat /\ j < PageSize /\ PageSize \in Nat
  BY Sizes DEF Offsets
<1>2. Number(n, i) \div PageSize = n /\ Number(n, i) % PageSize = i
  BY <1>1, QuotientUnique DEF Number
<1>3. Number(p, j) \div PageSize = p /\ Number(p, j) % PageSize = j
  BY <1>1, QuotientUnique DEF Number
<1> QED  BY <1>2, <1>3

(* The numbers of each depth stay below the power of the page size that    *)
(* belongs to it.                                                          *)
LEMMA NumberBound ==
  ASSUME NEW d \in Levels, NEW n \in Nat, n < PagePower[d], NEW i \in Offsets
  PROVE  Number(n, i) < PagePower[d + 1]
<1> DEFINE x == PagePower[d]
<1>1. x \in Nat /\ PagePower[d + 1] = PageSize * x
  BY Sizes, PagePowerValue DEF Levels
<1>2. n <= x - 1 /\ x - 1 \in Nat /\ i \in Nat /\ i < PageSize /\ PageSize \in Nat
  BY <1>1, Sizes DEF Offsets
<1> HIDE DEF x
<1>3. n * PageSize <= (x - 1) * PageSize  BY <1>2, TimesMonotone
<1>4. (x - 1) * PageSize = (PageSize * x) - PageSize  BY <1>1, <1>2
<1>5. n * PageSize \in Nat /\ PageSize * x \in Nat  BY <1>1, <1>2
<1> QED  BY <1>1, <1>2, <1>3, <1>4, <1>5 DEF Number

(* A frame is referred to from one word.                                   *)
LEMMA OneParent ==
  ASSUME NEW m, NEW dep, NEW pg, Tree(m, dep, pg),
         NEW f \in Frames, NEW i \in Offsets, NEW h \in Frames, NEW j \in Offsets,
         dep[f] \in Levels, dep[h] \in Levels,
         Word(m, f, i) # 0, Word(m, f, i) = Word(m, h, j)
  PROVE  f = h /\ i = j
<1> DEFINE g == Word(m, f, i)
<1>1. g \in Frames /\ dep[g] = dep[f] + 1 /\ pg[g] = Number(pg[f], i)
  BY DEF Tree, Down, Refers
<1>2. dep[g] = dep[h] + 1 /\ pg[g] = Number(pg[h], j)
  BY DEF Tree, Down, Refers
<1>3. pg[f] \in Nat /\ pg[h] \in Nat  BY DEF Tree, Numbers
<1>4. pg[f] = pg[h] /\ i = j
  <2> DEFINE x == pg[f]
             y == pg[h]
  <2>1. x \in Nat /\ y \in Nat /\ Number(x, i) = Number(y, j)  BY <1>1, <1>2, <1>3
  <2> HIDE DEF x, y
  <2>2. x = y /\ i = j  BY <2>1, NumberInjective
  <2> QED  BY <2>2 DEF x, y
<1>5. dep[f] = dep[h] /\ dep[f] >= 0  BY <1>1, <1>2, Sizes DEF Levels
<1>6. f = h  BY <1>4, <1>5 DEF Tree, Distinct
<1> QED  BY <1>4, <1>6

(* A frame g without children leaves the tree: the word i of its parent f  *)
(* is cleared, and if it is a page it may appear in the swap file.         *)
Unlinked(m, n, dep, pg, f, i, g) ==
    /\ dep[g] > 0 /\ dep[f] = dep[g] - 1 /\ Word(m, f, i) = g
    /\ dep[g] = Depth \/ \A j \in Offsets : Word(m, g, j) = 0
    /\ \A h \in Frames, j \in Offsets :
          h # g => Word(n, h, j) = IF h = f /\ j = i THEN 0 ELSE Word(m, h, j)
    /\ \A p \in DOMAIN n.swap : p \in DOMAIN m.swap \/ (dep[g] = Depth /\ p = pg[g])

(* A tree stays one when a leaf of it is taken out: its word is cleared,   *)
(* and its contents, if it is a page, move to the swap file.               *)
LEMMA Unlink ==
  ASSUME NEW m, NEW dep, NEW pg, Tree(m, dep, pg), NEW n \in Memories,
         NEW f \in Frames, NEW i \in Offsets, NEW g \in Frames,
         Unlinked(m, n, dep, pg, f, i, g)
  PROVE  Tree(n, [dep EXCEPT ![g] = -1], pg)
<1> USE DEF Unlinked
<1> DEFINE d == [dep EXCEPT ![g] = -1]
<1>1. dep \in Labellings /\ pg \in Numbers  BY DEF Tree
<1>2. d \in Labellings /\ d[g] = -1 /\ \A h \in Frames : h # g => d[h] = dep[h]
  BY <1>1, Sizes DEF Labellings
<1> HIDE DEF d
<1>3. \A h \in Frames : dep[h] \in Int /\ d[h] \in Int  BY <1>1, <1>2 DEF Labellings
<1>4. Root(d, pg)
  BY <1>2, <1>3, WordsType DEF Tree, Root
<1>5. Down(n, d, pg)
  <2> SUFFICES ASSUME NEW h \in Frames, NEW j \in Offsets, d[h] \in Levels, Word(n, h, j) # 0
               PROVE  /\ Word(n, h, j) \in Frames
                      /\ d[Word(n, h, j)] = d[h] + 1
                      /\ pg[Word(n, h, j)] = Number(pg[h], j)
    BY DEF Down, Refers
  <2>1. h # g /\ dep[h] = d[h]  BY <1>2 DEF Levels
  <2>2. Word(n, h, j) = Word(m, h, j) /\ ~ (h = f /\ j = i)  BY <2>1
  <2>3. Refers(m, dep, pg, h, j)  BY <2>1 DEF Tree, Down
  <2>4. Word(m, h, j) # g
    <3> SUFFICES ASSUME Word(m, h, j) = g  PROVE FALSE  OBVIOUS
    <3>1. g # 0  BY <2>2
    <3>2. dep[f] \in Levels  BY <1>1, Sizes DEF Levels, Labellings
    <3> QED  BY <2>1, <2>2, <3>1, <3>2, OneParent
  <2> QED  BY <1>2, <2>1, <2>2, <2>3, <2>4 DEF Refers
<1>6. Up(n, d)
  <2> SUFFICES ASSUME NEW h \in Frames, d[h] > 0
               PROVE  \E x \in Frames, j \in Offsets : d[x] = d[h] - 1 /\ Word(n, x, j) = h
    BY DEF Up
  <2>1. h # g /\ dep[h] = d[h] /\ h # 0  BY <1>2, <1>4 DEF Root
  <2>2. PICK x \in Frames, j \in Offsets : dep[x] = dep[h] - 1 /\ Word(m, x, j) = h
    BY <2>1 DEF Tree, Up
  <2>3. x # g
    <3>1. dep[h] <= Depth  BY <1>1 DEF Labellings
    <3> QED  BY <1>3, <2>1, <2>2, <3>1
  <2>4. Word(n, x, j) = h  BY <2>1, <2>2, <2>3
  <2> QED  BY <1>2, <2>1, <2>2, <2>3, <2>4
<1>7. Distinct(d, pg)  BY <1>2 DEF Tree, Distinct
<1>8. Numbered(d, pg)  BY <1>2 DEF Tree, Numbered
<1>9. PagesHeld(n, d, pg)
  <2> SUFFICES ASSUME NEW h \in Frames, d[h] = Depth
               PROVE  /\ \A j \in Offsets : Word(n, h, j) \in Contained
                      /\ pg[h] \notin DOMAIN n.swap
    BY DEF PagesHeld
  <2>1. h # g /\ dep[h] = Depth  BY <1>2, Sizes
  <2>2. \A j \in Offsets : Word(m, h, j) \in Contained  BY <2>1 DEF Tree, PagesHeld
  <2>3. pg[h] \notin DOMAIN m.swap  BY <2>1 DEF Tree, PagesHeld
  <2>4. dep[g] = Depth => pg[h] # pg[g]  BY <2>1, Sizes DEF Tree, Distinct
  <2>5. h # f  BY <1>1, <2>1, Sizes DEF Labellings
  <2> QED  BY <2>1, <2>2, <2>3, <2>4, <2>5
<1> QED  BY <1>1, <1>2, <1>4, <1>5, <1>6, <1>7, <1>8, <1>9 DEF Tree, d

(* A frame g that is not in the tree joins it: the word i of the table f   *)
(* refers to it.  A table is empty; a page is no longer in the swap file.  *)
Linked(m, n, dep, pg, f, i, g) ==
    /\ dep[g] = -1 /\ dep[f] \in Levels /\ Word(m, f, i) = 0
    /\ \A h \in Frames, j \in Offsets :
          h # g => Word(n, h, j) = IF h = f /\ j = i THEN g ELSE Word(m, h, j)
    /\ dep[f] + 1 # Depth => \A j \in Offsets : Word(n, g, j) = 0
    /\ dep[f] + 1 = Depth => /\ \A j \in Offsets : Word(n, g, j) \in Contained
                             /\ Number(pg[f], i) \notin DOMAIN n.swap
    /\ DOMAIN n.swap \subseteq DOMAIN m.swap

(* A tree stays one when a frame out of it joins: a word that was 0 comes  *)
(* to refer to it, and the frame is empty or holds what the swap file no   *)
(* longer has.                                                             *)
LEMMA Link ==
  ASSUME NEW m, NEW dep, NEW pg, Tree(m, dep, pg), NEW n \in Memories,
         NEW f \in Frames, NEW i \in Offsets, NEW g \in Frames,
         Linked(m, n, dep, pg, f, i, g)
  PROVE  Tree(n, [dep EXCEPT ![g] = dep[f] + 1], [pg EXCEPT ![g] = Number(pg[f], i)])
<1> USE DEF Linked
<1> DEFINE num == Number(pg[f], i)
           d == [dep EXCEPT ![g] = dep[f] + 1]
           p == [pg EXCEPT ![g] = num]
<1>0. dep \in Labellings /\ pg \in Numbers  BY DEF Tree
<1>1. pg[f] \in Nat /\ num \in Nat  BY <1>0, NumberType DEF Numbers
<1>2. /\ d \in Labellings /\ p \in Numbers
      /\ d[g] = dep[f] + 1 /\ \A h \in Frames : h # g => d[h] = dep[h]
      /\ p[g] = num /\ \A h \in Frames : h # g => p[h] = pg[h]
  <2> HIDE DEF num
  <2> QED  BY <1>0, <1>1, Sizes DEF Labellings, Levels, Numbers
<1>3. /\ \A h \in Frames : dep[h] \in Int /\ d[h] \in Int /\ dep[h] <= Depth
      /\ Depth \in Nat /\ Depth > 0 /\ Levels = 0 .. Depth - 1
  BY <1>0, <1>2, Sizes DEF Labellings, Levels
<1>4. g # f /\ g # 0  BY <1>3 DEF Tree, Root
<1> HIDE DEF d, p
<1>5. Root(d, p)  BY <1>2, <1>3, <1>4, WordsType DEF Tree, Root
<1>6. Down(n, d, p)
  <2> SUFFICES ASSUME NEW h \in Frames, NEW j \in Offsets, d[h] \in Levels, Word(n, h, j) # 0
               PROVE  /\ Word(n, h, j) \in Frames
                      /\ d[Word(n, h, j)] = d[h] + 1
                      /\ p[Word(n, h, j)] = Number(p[h], j)
    BY DEF Down, Refers
  <2>1. h # g
    <3>1. h = g => dep[f] + 1 # Depth  BY <1>2, <1>3
    <3> QED  BY <3>1
  <2>2. dep[h] = d[h] /\ p[h] = pg[h]  BY <1>2, <2>1
  <2>3. CASE h = f /\ j = i  BY <1>2, <2>1, <2>2, <2>3
  <2>4. CASE ~ (h = f /\ j = i)
    <3>1. Word(n, h, j) = Word(m, h, j)  BY <2>1, <2>4
    <3>2. Refers(m, dep, pg, h, j)  BY <2>2 DEF Tree, Down
    <3>3. Word(m, h, j) # g  BY <1>3, <2>2, <3>1, <3>2 DEF Refers
    <3> QED  BY <1>2, <2>2, <3>1, <3>2, <3>3 DEF Refers
  <2> QED  BY <2>3, <2>4
<1>7. Up(n, d)
  <2> SUFFICES ASSUME NEW h \in Frames, d[h] > 0
               PROVE  \E x \in Frames, j \in Offsets : d[x] = d[h] - 1 /\ Word(n, x, j) = h
    BY DEF Up
  <2>1. CASE h = g
    <3>1. Word(n, f, i) = g /\ d[f] = d[g] - 1  BY <1>2, <1>3, <1>4
    <3> QED  BY <2>1, <3>1
  <2>2. CASE h # g
    <3>1. dep[h] = d[h] /\ h # 0  BY <1>2, <1>5, <2>2 DEF Root
    <3>2. PICK x \in Frames, j \in Offsets : dep[x] = dep[h] - 1 /\ Word(m, x, j) = h
      BY <3>1 DEF Tree, Up
    <3>3. x # g  BY <1>3, <3>1, <3>2
    <3>4. Word(n, x, j) = h  BY <3>1, <3>2, <3>3
    <3> QED  BY <1>2, <3>1, <3>2, <3>3, <3>4
  <2> QED  BY <2>1, <2>2
<1>8. \A h \in Frames \ {g} : ~ (dep[h] = dep[f] + 1 /\ pg[h] = num)
  <2> SUFFICES ASSUME NEW h \in Frames, dep[h] = dep[f] + 1, pg[h] = num  PROVE FALSE
    OBVIOUS
  <2>1. PICK x \in Frames, j \in Offsets : dep[x] = dep[h] - 1 /\ Word(m, x, j) = h
    BY <1>3 DEF Tree, Up
  <2>2. h # 0 /\ dep[x] = dep[f]  BY <1>3, <2>1 DEF Tree, Root
  <2>3. pg[h] = Number(pg[x], j)  BY <2>1, <2>2 DEF Tree, Down, Refers
  <2>4. pg[x] = pg[f] /\ j = i
    <3> DEFINE y == pg[x]
               z == pg[f]
    <3>1. y \in Nat /\ z \in Nat /\ Number(y, j) = Number(z, i)
      BY <1>0, <1>1, <2>3 DEF Numbers
    <3> HIDE DEF y, z
    <3>2. y = z /\ j = i  BY <3>1, NumberInjective
    <3> QED  BY <3>2 DEF y, z
  <2>5. x = f  BY <1>3, <2>2, <2>4 DEF Tree, Distinct
  <2> QED  BY <2>1, <2>2, <2>4, <2>5
<1>9. Distinct(d, p)
  <2> SUFFICES ASSUME NEW x \in Frames, NEW y \in Frames,
                      d[x] >= 0, d[x] = d[y], p[x] = p[y], x # y
               PROVE  FALSE
    BY DEF Distinct
  <2>1. CASE x # g /\ y # g  BY <1>2, <2>1 DEF Tree, Distinct
  <2>2. CASE x = g  BY <1>2, <1>8, <2>2
  <2>3. CASE y = g  BY <1>2, <1>8, <2>3
  <2> QED  BY <2>1, <2>2, <2>3
<1>10. Numbered(d, p)
  <2> SUFFICES ASSUME NEW h \in Frames, d[h] >= 0  PROVE p[h] < PagePower[d[h]]
    BY DEF Numbered
  <2>1. CASE h # g  BY <1>2, <2>1 DEF Tree, Numbered
  <2>2. CASE h = g
    <3>1. dep[f] >= 0 /\ pg[f] < PagePower[dep[f]]  BY <1>3 DEF Tree, Numbered
    <3> DEFINE e == dep[f]
               x == pg[f]
    <3>2. num < PagePower[dep[f] + 1]
      <4>1. e \in Levels /\ x \in Nat /\ x < PagePower[e]  BY <1>1, <3>1
      <4> HIDE DEF e, x
      <4>2. Number(x, i) < PagePower[e + 1]  BY <4>1, NumberBound
      <4> QED  BY <4>2 DEF e, x
    <3> HIDE DEF num, e, x
    <3> QED  BY <1>2, <2>2, <3>2
  <2> QED  BY <2>1, <2>2
<1>11. PagesHeld(n, d, p)
  <2> SUFFICES ASSUME NEW h \in Frames, d[h] = Depth
               PROVE  /\ \A j \in Offsets : Word(n, h, j) \in Contained
                      /\ p[h] \notin DOMAIN n.swap
    BY DEF PagesHeld
  <2>1. CASE h = g  BY <1>2, <2>1
  <2>2. CASE h # g
    <3>1. dep[h] = Depth /\ p[h] = pg[h] /\ h # f  BY <1>2, <1>3, <2>2
    <3>2. \A j \in Offsets : Word(m, h, j) \in Contained  BY <3>1 DEF Tree, PagesHeld
    <3>3. pg[h] \notin DOMAIN m.swap  BY <3>1 DEF Tree, PagesHeld
    <3> QED  BY <2>2, <3>1, <3>2, <3>3
  <2> QED  BY <2>1, <2>2
<1> QED  BY <1>2, <1>5, <1>6, <1>7, <1>9, <1>10, <1>11 DEF Tree, d, p, num

-----------------------------------------------------------------------------
(* The search reads the words of the frames of the tree, each once.        *)
WordRecords ==
    [addr : RamAddresses, depth : 0 .. Depth, p : Nat, father : Nat, order : Nat]

Described(m, dep, pg, w) ==
    /\ w \in WordRecords
    /\ dep[w.addr \div PageSize] = w.depth
    /\ pg[w.addr \div PageSize] = w.p
    /\ w.depth > 0 => /\ w.father \in RamAddresses
                      /\ dep[w.father \div PageSize] = w.depth - 1
                      /\ m.ram[w.father] = w.addr \div PageSize

Unique(words) == \A v, w \in words : v.addr = w.addr => v = w

Complete(dep, words, d) ==
    \A f \in Frames : dep[f] \in 0 .. d =>
       \A i \in Offsets : \E w \in words : w.addr = Addr(f, i)

(* The weights that make up the order of the search are natural numbers.   *)
LEMMA OrderWeightValue ==
  \A d \in 0 .. Depth + 1 : OrderWeight[d] \in Nat
<1>1. PageSize + 1 \in Nat /\ PageSize + 1 > 0  BY Sizes
<1> QED  BY <1>1, PowersValue DEF OrderWeight

WordsOf(m, dep, pg, words, f, father) ==
    /\ \A w \in words : Described(m, dep, pg, w) /\ w.depth = dep[f] /\ w.father = father
    /\ Unique(words)
    /\ \A i \in Offsets : \E w \in words : w.addr = Addr(f, i)

(* The words of one frame, as the search records them.                     *)
LEMMA TableWordsDescribed ==
  ASSUME NEW m, NEW dep, NEW pg, NEW f \in Frames, NEW father \in Nat, NEW order \in Nat,
         dep[f] \in 0 .. Depth, pg[f] \in Nat,
         dep[f] > 0 => /\ father \in RamAddresses
                       /\ dep[father \div PageSize] = dep[f] - 1
                       /\ m.ram[father] = f
  PROVE  WordsOf(m, dep, pg, TableWords(f, dep[f], pg[f], father, order), f, father)
<1> DEFINE weight == OrderWeight[Depth - dep[f]]
           record(a) == [addr |-> a, depth |-> dep[f], p |-> pg[f], father |-> father,
                         order |-> order + ((a % PageSize) + 1) * weight]
           words == TableWords(f, dep[f], pg[f], father, order)
<1>1. words = {record(a) : a \in FrameAddresses(f)}  BY DEF TableWords
<1>2. weight \in Nat
  <2>1. Depth - dep[f] \in 0 .. Depth + 1  BY Sizes
  <2> QED  BY <2>1, OrderWeightValue
<1>3. \A a \in FrameAddresses(f) : a \in RamAddresses /\ a \div PageSize = f
                                   /\ a % PageSize \in Nat
  <2> TAKE a \in FrameAddresses(f)
  <2>1. a \in RamAddresses /\ a \div PageSize = f  BY FrameAddressesExact
  <2>2. a % PageSize \in Offsets  BY <2>1, WordOfAddr
  <2> QED  BY <2>1, <2>2 DEF Offsets
<1>4. \A i \in Offsets : Addr(f, i) \in FrameAddresses(f)
  <2> TAKE i \in Offsets
  <2>1. Addr(f, i) \in RamAddresses /\ Addr(f, i) \div PageSize = f  BY AddrOfWord
  <2> QED  BY <2>1, FrameAddressesExact
<1> HIDE DEF weight, words
<1>5. \A a \in FrameAddresses(f) : order + ((a % PageSize) + 1) * weight \in Nat
  BY <1>2, <1>3
<1>6. \A a \in FrameAddresses(f) :
         Described(m, dep, pg, record(a)) /\ record(a).depth = dep[f] /\ record(a).father = father
         /\ record(a).addr = a
  BY <1>3, <1>5 DEF Described, WordRecords
<1> HIDE DEF record
<1>7. \A w \in words : Described(m, dep, pg, w) /\ w.depth = dep[f] /\ w.father = father
  BY <1>1, <1>6
<1>8. Unique(words)  BY <1>1, <1>6 DEF Unique
<1>9. \A i \in Offsets : \E w \in words : w.addr = Addr(f, i)  BY <1>1, <1>4, <1>6
<1> QED  BY <1>7, <1>8, <1>9 DEF words, WordsOf

(* The recursive definition of the words of the tree, as a sequence of     *)
(* levels: upTo is a CHOOSE, and this shows that what it chooses exists.   *)
LEMMA TreeWordsRecursive ==
  ASSUME NEW m
  PROVE  \E u : /\ TreeWords(m) = u[Depth]
                /\ u[0] = TableWords(0, 0, 0, 0, 0)
                /\ \A d \in Levels :
                     u[d + 1] = u[d] \cup UNION {Below(m, w) : w \in {v \in u[d] : v.depth = d}}
<1> USE Sizes
<1> DEFINE Step(above, d) ==
             above \cup UNION {Below(m, w) : w \in {v \in above : v.depth = d - 1}}
           root == TableWords(0, 0, 0, 0, 0)
           Body(n, f) == [d \in 0 .. n |-> IF d = 0 THEN root ELSE Step(f[d - 1], d)]
           upTo == CHOOSE f : f = Body(Depth, f)
           T == {n \in Nat : \E f : f = Body(n, f)}
<1>0. TreeWords(m) = upTo[Depth]  BY DEF TreeWords
<1> HIDE DEF Step, root
<1>1. 0 \in T
  <2>1. \E f : f = Body(0, f)
    <3> WITNESS [d \in 0 .. 0 |-> root]
    <3> QED  OBVIOUS
  <2> QED  BY <2>1
<1>2. ASSUME NEW n \in T  PROVE n + 1 \in T
  <2>1. PICK f : f = Body(n, f)  BY <1>2
  <2> DEFINE h == [d \in 0 .. n + 1 |-> IF d <= n THEN f[d] ELSE Step(f[n], n + 1)]
  <2>2. h = Body(n + 1, h)
    <3>1. \A d \in 0 .. n + 1 : h[d] = Body(n + 1, h)[d]
      <4> TAKE d \in 0 .. n + 1
      <4>0. n \in Nat  BY <1>2
      <4>1. CASE d <= n
        <5>1. d \in 0 .. n /\ h[d] = f[d]  BY <4>0, <4>1
        <5>2. d # 0 => d - 1 \in 0 .. n + 1 /\ d - 1 <= n  BY <4>0, <4>1
        <5> QED  BY <2>1, <5>1, <5>2
      <4>2. CASE d = n + 1
        <5>1. h[d] = Step(f[n], d)  BY <4>0, <4>2
        <5>2. h[d - 1] = f[n] /\ d # 0  BY <4>0, <4>2
        <5> QED  BY <5>1, <5>2
      <4> QED  BY <4>0, <4>1, <4>2
    <3> QED  BY <3>1
  <2> HIDE DEF h
  <2> QED  BY <1>2, <2>2
<1> HIDE DEF T
<1>3. T = Nat  BY <1>1, <1>2, NatSetInduction, T \in SUBSET Nat DEF T
<1>4. Depth \in T  BY <1>3
<1>5. upTo = Body(Depth, upTo)  BY <1>4 DEF T
<1> HIDE DEF upTo
<1>6. upTo[0] = root  BY <1>5
<1>7. \A d \in Levels : upTo[d + 1] = Step(upTo[d], d + 1)
  <2> TAKE d \in Levels
  <2>1. d + 1 \in 0 .. Depth /\ d + 1 # 0 /\ (d + 1) - 1 = d  BY DEF Levels
  <2> QED  BY <1>5, <2>1
<1>8. \A d \in Levels : (d + 1) - 1 = d  BY DEF Levels
<1> QED  BY <1>0, <1>6, <1>7, <1>8 DEF root, Step

(* The search goes over the words of the tree's frames and no other, each  *)
(* once, and knows each one's depth, number and father.                    *)
LEMMA TreeWordsExact ==
  ASSUME NEW m, NEW dep, NEW pg, Tree(m, dep, pg)
  PROVE  /\ \A w \in TreeWords(m) : Described(m, dep, pg, w)
         /\ Unique(TreeWords(m))
         /\ Complete(dep, TreeWords(m), Depth)
<1>0. /\ m \in Memories /\ dep \in Labellings /\ pg \in Numbers
      /\ Depth \in Nat /\ Depth > 0 /\ Levels = 0 .. Depth - 1
      /\ \A f \in Frames : pg[f] \in Nat /\ dep[f] \in Int
  BY Sizes DEF Tree, Levels, Numbers, Labellings
<1>1. PICK u : /\ TreeWords(m) = u[Depth]
               /\ u[0] = TableWords(0, 0, 0, 0, 0)
               /\ \A d \in Levels :
                    u[d + 1] = u[d] \cup UNION {Below(m, w) : w \in {v \in u[d] : v.depth = d}}
  BY TreeWordsRecursive
<1> DEFINE Good(d) == /\ \A w \in u[d] : Described(m, dep, pg, w) /\ w.depth <= d
                      /\ Unique(u[d]) /\ Complete(dep, u[d], d)
           T == {d \in 0 .. Depth : Good(d)}
<1>2. 0 \in T
  <2>1. 0 \in Frames /\ dep[0] = 0 /\ pg[0] = 0 /\ \A f \in Frames : dep[f] = 0 => f = 0
    BY WordsType DEF Tree, Root
  <2>2. /\ \A w \in u[0] : Described(m, dep, pg, w) /\ w.depth = 0
        /\ Unique(u[0])
        /\ \A i \in Offsets : \E w \in u[0] : w.addr = Addr(0, i)
    <3>1. dep[0] \in 0 .. Depth /\ pg[0] \in Nat /\ ~ (dep[0] > 0) /\ 0 \in Nat
      BY <1>0, <2>1
    <3>2. u[0] = TableWords(0, dep[0], pg[0], 0, 0)  BY <1>1, <2>1
    <3>3. WordsOf(m, dep, pg, TableWords(0, dep[0], pg[0], 0, 0), 0, 0)
      BY <2>1, <3>1, TableWordsDescribed
    <3> QED  BY <2>1, <3>2, <3>3 DEF WordsOf
  <2>3. Complete(dep, u[0], 0)  BY <2>1, <2>2 DEF Complete
  <2> QED  BY <1>0, <2>2, <2>3
<1>3. ASSUME NEW d \in 0 .. Depth - 1, d \in T  PROVE d + 1 \in T
  <2>0. d \in Levels /\ d + 1 \in 0 .. Depth /\ Good(d)  BY <1>0, <1>3
  <2>1. u[d + 1] = u[d] \cup UNION {Below(m, w) : w \in {v \in u[d] : v.depth = d}}
    BY <1>1, <2>0
  <2> DEFINE last == {v \in u[d] : v.depth = d}
  <2>2. ASSUME NEW w \in last
        PROVE  /\ \A v \in Below(m, w) : /\ Described(m, dep, pg, v)
                                         /\ v.depth = d + 1 /\ v.father = w.addr
               /\ Unique(Below(m, w))
               /\ m.ram[w.addr] # 0 =>
                    \A i \in Offsets : \E v \in Below(m, w) : v.addr = Addr(m.ram[w.addr], i)
    <3> DEFINE f == w.addr \div PageSize
               i == w.addr % PageSize
               g == m.ram[w.addr]
    <3>1. Described(m, dep, pg, w) /\ w.depth = d  BY <2>0
    <3>2. w.addr \in RamAddresses /\ w.addr \in Nat /\ w.order \in Nat /\ dep[f] = d /\ pg[f] = w.p
      BY <3>1 DEF Described, WordRecords, RamAddresses
    <3>3. f \in Frames /\ i \in Offsets /\ Addr(f, i) = w.addr  BY <3>2, WordOfAddr
    <3>4. g = Word(m, f, i)  BY <3>3 DEF Word
    <3>5. CASE g = 0
      <4>1. Below(m, w) = {}  BY <3>5 DEF Below
      <4> QED  BY <3>5, <4>1 DEF Unique
    <3>6. CASE g # 0
      <4>1. Refers(m, dep, pg, f, i)  BY <2>0, <3>2, <3>3 DEF Tree, Down
      <4>2. g \in Frames /\ dep[g] = d + 1 /\ pg[g] = Number(w.p, i)
        BY <3>2, <3>4, <3>6, <4>1 DEF Refers
      <4>3. Below(m, w) = TableWords(g, dep[g], pg[g], w.addr, w.order)
        BY <3>1, <3>6, <4>2 DEF Below, Number
      <4>4. dep[g] \in 0 .. Depth /\ pg[g] \in Nat /\ dep[w.addr \div PageSize] = dep[g] - 1
        BY <1>0, <2>0, <3>2, <4>2
      <4> HIDE DEF g, f, i
      <4>5. m.ram[w.addr] = g  BY DEF g
      <4>6. WordsOf(m, dep, pg, TableWords(g, dep[g], pg[g], w.addr, w.order), g, w.addr)
        BY <3>2, <4>2, <4>4, <4>5, TableWordsDescribed
      <4> QED  BY <4>2, <4>3, <4>5, <4>6 DEF WordsOf
    <3> QED  BY <3>5, <3>6
  <2>3. \A v \in u[d + 1] : v \in u[d] \/ \E w \in last : v \in Below(m, w)  BY <2>1
  <2>4. \A v \in u[d] : v \in u[d + 1]  BY <2>1
  <2>5. \A w \in last : \A v \in Below(m, w) : v \in u[d + 1]  BY <2>1
  <2>6. \A w \in last : w \in u[d] /\ w.depth = d  OBVIOUS
  <2> HIDE DEF last
  <2>7. ASSUME NEW v \in u[d + 1]  PROVE Described(m, dep, pg, v) /\ v.depth <= d + 1
    <3>1. CASE v \in u[d]
      <4>1. Described(m, dep, pg, v) /\ v.depth <= d /\ v.depth \in Int
        BY <2>0, <3>1 DEF Described, WordRecords
      <4> QED  BY <2>0, <4>1
    <3>2. CASE v \notin u[d]
      <4>1. PICK w \in last : v \in Below(m, w)  BY <2>3, <3>2
      <4> QED  BY <2>0, <2>2, <4>1
    <3> QED  BY <3>1, <3>2
  <2>8. ASSUME NEW v \in u[d + 1], NEW w \in u[d + 1], v.addr = w.addr  PROVE v = w
    <3>1. v.depth = w.depth  BY <2>7, <2>8 DEF Described
    <3>2. CASE v \in u[d] /\ w \in u[d]  BY <2>0, <2>8, <3>2 DEF Unique
    <3>3. CASE v \in u[d] /\ w \notin u[d]
      <4>1. w.depth = d + 1  BY <2>2, <2>3, <3>3
      <4>2. v.depth <= d  BY <2>0, <3>3
      <4> QED  BY <2>0, <3>1, <4>1, <4>2
    <3>4. CASE v \notin u[d] /\ w \in u[d]
      <4>1. v.depth = d + 1  BY <2>2, <2>3, <3>4
      <4>2. w.depth <= d  BY <2>0, <3>4
      <4> QED  BY <2>0, <3>1, <4>1, <4>2
    <3>5. CASE v \notin u[d] /\ w \notin u[d]
      <4>1. PICK x \in last : v \in Below(m, x)  BY <2>3, <3>5
      <4>2. PICK y \in last : w \in Below(m, y)  BY <2>3, <3>5
      <4>3. /\ Described(m, dep, pg, v) /\ v.depth = d + 1 /\ v.father = x.addr
            /\ Described(m, dep, pg, w) /\ w.depth = d + 1 /\ w.father = y.addr
        BY <2>2, <4>1, <4>2
      <4> DEFINE f == x.addr \div PageSize
                 i == x.addr % PageSize
                 h == y.addr \div PageSize
                 j == y.addr % PageSize
      <4>4. /\ x.addr \in RamAddresses /\ dep[f] = d
            /\ y.addr \in RamAddresses /\ dep[h] = d
            /\ m.ram[x.addr] = m.ram[y.addr]
            /\ m.ram[x.addr] = v.addr \div PageSize
            /\ dep[v.addr \div PageSize] = d + 1
        BY <2>0, <2>8, <4>3 DEF Described
      <4>5. /\ f \in Frames /\ i \in Offsets /\ Addr(f, i) = x.addr
            /\ h \in Frames /\ j \in Offsets /\ Addr(h, j) = y.addr
        BY <4>4, WordOfAddr
      <4>6. m.ram[x.addr] # 0  BY <2>0, <4>4 DEF Tree, Root
      <4>7. Word(m, f, i) = Word(m, h, j) /\ Word(m, f, i) # 0
        BY <4>4, <4>5, <4>6 DEF Word
      <4> HIDE DEF f, i, h, j
      <4>8. f = h /\ i = j  BY <2>0, <4>4, <4>5, <4>7, OneParent DEF f, h
      <4>9. x = y  BY <2>0, <2>6, <4>5, <4>8 DEF Unique
      <4> QED  BY <2>2, <2>8, <4>1, <4>2, <4>9 DEF Unique
    <3> QED  BY <3>2, <3>3, <3>4, <3>5
  <2>9. ASSUME NEW f \in Frames, dep[f] \in 0 .. d + 1, NEW i \in Offsets
        PROVE  \E w \in u[d + 1] : w.addr = Addr(f, i)
    <3>1. CASE dep[f] \in 0 .. d  BY <2>0, <2>4, <3>1 DEF Complete
    <3>2. CASE dep[f] = d + 1
      <4>1. PICK x \in Frames, j \in Offsets : dep[x] = dep[f] - 1 /\ Word(m, x, j) = f
        BY <2>0, <3>2 DEF Tree, Up
      <4>2. f # 0 /\ dep[x] = d  BY <2>0, <3>2, <4>1 DEF Tree, Root
      <4>3. PICK w \in u[d] : w.addr = Addr(x, j)
        BY <2>0, <4>2 DEF Complete
      <4>4. w.depth = d
        <5>1. Described(m, dep, pg, w)  BY <2>0
        <5>2. Addr(x, j) \div PageSize = x  BY AddrOfWord
        <5> QED  BY <4>2, <4>3, <5>1, <5>2 DEF Described
      <4>5. w \in last /\ m.ram[w.addr] = f  BY <4>1, <4>3, <4>4 DEF last, Word
      <4>6. \E v \in Below(m, w) : v.addr = Addr(f, i)  BY <2>2, <4>2, <4>5
      <4> QED  BY <2>5, <4>5, <4>6
    <3> QED  BY <2>0, <2>9, <3>1, <3>2
  <2>10. Complete(dep, u[d + 1], d + 1)  BY <2>9 DEF Complete
  <2>11. Unique(u[d + 1])  BY <2>8 DEF Unique
  <2> QED  BY <2>0, <2>7, <2>10, <2>11
<1> HIDE DEF T
<1>4. \A d \in 0 .. Depth : d \in T  BY <1>0, <1>2, <1>3, UpToInduction
<1>5. Good(Depth)  BY <1>0, <1>4 DEF T
<1> QED  BY <1>1, <1>5

-----------------------------------------------------------------------------
(* The words a search returns: the first, the largest, the farthest.       *)
LEMMA FirstWord ==
  ASSUME NEW words \in SUBSET WordRecords, words # {}
  PROVE  First(words) \in words /\ \A w \in words : First(words).order <= w.order
<1> DEFINE orders == {w.order : w \in words}
<1>1. orders \in SUBSET Nat /\ orders # {}  BY DEF WordRecords
<1>2. PICK o \in orders : \A n \in orders : o <= n
  <2> HIDE DEF orders
  <2> QED  BY <1>1, LeastElement
<1>3. \E w \in words : \A v \in words : w.order <= v.order  BY <1>2
<1> QED  BY <1>3 DEF First

(* The largest element of a bounded set of numbers is one of them.         *)
LEMMA MaxOfBounded ==
  ASSUME NEW S \in SUBSET Nat, S # {}, NEW b \in Nat, \A n \in S : n <= b
  PROVE  Max(S) \in S /\ \A n \in S : n <= Max(S)
<1> DEFINE bounds == {c \in Nat : \A n \in S : n <= c}
<1>1. PICK c \in bounds : \A e \in bounds : c <= e
  <2>1. bounds \in SUBSET Nat /\ bounds # {}  OBVIOUS
  <2> HIDE DEF bounds
  <2> QED  BY <2>1, LeastElement
<1>2. c \in S
  <2> SUFFICES ASSUME c \notin S  PROVE FALSE  OBVIOUS
  <2>1. \A n \in S : n < c  BY <1>1
  <2>2. PICK n \in S : TRUE  OBVIOUS
  <2>3. c - 1 \in bounds  BY <2>1, <2>2
  <2> QED  BY <1>1, <2>3
<1>3. \E x \in S : \A y \in S : x >= y  BY <1>1, <1>2
<1>4. Max(S) \in S /\ \A y \in S : Max(S) >= y  BY <1>3 DEF Max
<1> QED  BY <1>4

(* The words of a memory are bounded, whatever words the program writes.   *)
LEMMA RamBounded ==
  ASSUME NEW m \in Memories
  PROVE  \E b \in Nat : \A a \in RamAddresses : m.ram[a] <= b
<1>1. m.ram \in [RamAddresses -> Nat]  BY WordsType DEF Memories
<1>2. RamSize \in Nat  BY Sizes DEF RamSize
<1> DEFINE T == {n \in Nat : \E b \in Nat : \A a \in RamAddresses : a < n => m.ram[a] <= b}
<1>3. 0 \in T
  <2>1. \A a \in RamAddresses : ~ (a < 0)  BY DEF RamAddresses
  <2> QED  BY <2>1
<1>4. ASSUME NEW n \in T  PROVE n + 1 \in T
  <2>1. PICK b \in Nat : \A a \in RamAddresses : a < n => m.ram[a] <= b  BY <1>4
  <2> DEFINE c == IF n \in RamAddresses /\ m.ram[n] > b THEN m.ram[n] ELSE b
  <2>2. c \in Nat /\ b <= c  BY <1>1
  <2>3. \A a \in RamAddresses : a < n + 1 => a < n \/ a = n  BY <1>4 DEF RamAddresses
  <2>4. \A a \in RamAddresses : a < n + 1 => m.ram[a] <= c  BY <1>1, <2>1, <2>2, <2>3
  <2> HIDE DEF c
  <2> QED  BY <1>4, <2>2, <2>4
<1> HIDE DEF T
<1>5. T = Nat  BY <1>3, <1>4, NatSetInduction, T \in SUBSET Nat DEF T
<1>6. RamSize \in T  BY <1>2, <1>5
<1> QED  BY <1>2, <1>6 DEF T, RamAddresses

(* max_used_frame is the largest of its old value and the words read.      *)
LEMMA MaxUsedValue ==
  ASSUME NEW m \in Memories, NEW max \in Nat, NEW words \in SUBSET WordRecords
  PROVE  /\ MaxUsed(m, max, words) \in Nat
         /\ max <= MaxUsed(m, max, words)
         /\ \A w \in words : m.ram[w.addr] <= MaxUsed(m, max, words)
         /\ \/ MaxUsed(m, max, words) = max
            \/ \E w \in words : MaxUsed(m, max, words) = m.ram[w.addr]
<1> DEFINE S == {max} \cup {m.ram[w.addr] : w \in words}
<1>1. \A w \in words : w.addr \in RamAddresses  BY DEF WordRecords
<1>2. m.ram \in [RamAddresses -> Nat]  BY WordsType DEF Memories
<1>3. PICK b \in Nat : \A a \in RamAddresses : m.ram[a] <= b  BY RamBounded
<1> DEFINE c == IF max > b THEN max ELSE b
<1>4. S \in SUBSET Nat /\ S # {} /\ c \in Nat /\ \A n \in S : n <= c  BY <1>1, <1>2, <1>3
<1>5. max \in S /\ \A w \in words : m.ram[w.addr] \in S  OBVIOUS
<1>6. \A n \in S : n = max \/ \E w \in words : n = m.ram[w.addr]  OBVIOUS
<1> HIDE DEF S, c
<1>7. Max(S) \in S /\ \A n \in S : n <= Max(S)  BY <1>4, MaxOfBounded
<1>8. MaxUsed(m, max, words) = Max(S)  BY DEF MaxUsed, S
<1>9. Max(S) \in Nat /\ max <= Max(S) /\ \A w \in words : m.ram[w.addr] <= Max(S)
  BY <1>4, <1>5, <1>7
<1>10. Max(S) = max \/ \E w \in words : Max(S) = m.ram[w.addr]  BY <1>6, <1>7
<1> QED  BY <1>8, <1>9, <1>10

(* A cyclic distance is a number below 2^64, scaled here to 4 * NumPages.  *)
LEMMA CyclicDistanceType ==
  ASSUME NEW p \in Nat, NEW q \in Nat
  PROVE  CyclicDistance(p, q) \in 0 .. 4 * NumPages - 1
<1> DEFINE big == 4 * NumPages
<1>1. big \in Nat /\ big > 0  BY Sizes
<1> HIDE DEF big
<1>2. \A x, y \in Int : (x - y) % big \in 0 .. big - 1  BY <1>1
<1>3. \A x, y \in Int : Minus(x, y) \in 0 .. big - 1  BY <1>2 DEF Minus, big
<1>4. Minus(q, p) \in 0 .. big - 1 /\ Minus(p, q) \in 0 .. big - 1  BY <1>3
<1>5. \A x \in 0 .. big - 1 : Minus(NumPages, x) \in 0 .. big - 1
  BY <1>1, <1>3, Sizes
<1> QED  BY <1>1, <1>4, <1>5 DEF CyclicDistance, big

(* The victim is a word of a page, of one that is farthest.                *)
LEMMA VictimIsPage ==
  ASSUME NEW words \in SUBSET WordRecords, NEW page \in Nat,
         \E w \in words : w.depth = Depth
  PROVE  /\ Victim(words, page) \in words
         /\ Victim(words, page).depth = Depth
         /\ \A w \in words : w.depth = Depth =>
              CyclicDistance(w.p, page) <= CyclicDistance(Victim(words, page).p, page)
<1> DEFINE pages == {w \in words : w.depth = Depth}
           Far(w) == CyclicDistance(w.p, page)
           farthest == {w \in pages : \A v \in pages : Far(w) >= Far(v)}
           S == {Far(w) : w \in pages}
           b == 4 * NumPages
<1>1. b \in Nat  BY Sizes
<1>2. \A w \in pages : Far(w) \in Nat /\ Far(w) <= b
  <2> TAKE w \in pages
  <2>1. w.p \in Nat  BY DEF WordRecords
  <2>2. Far(w) \in 0 .. b - 1  BY <2>1, CyclicDistanceType
  <2> HIDE DEF Far
  <2> QED  BY <1>1, <2>2
<1>3. pages # {} /\ pages \in SUBSET WordRecords  OBVIOUS
<1>4. Victim(words, page) = First(farthest)  BY <1>3 DEF Victim
<1> HIDE DEF Far, b, pages
<1>5. S \in SUBSET Nat /\ S # {} /\ \A n \in S : n <= b  BY <1>2, <1>3
<1>6. Max(S) \in S /\ \A n \in S : n <= Max(S)
  <2> HIDE DEF S
  <2> QED  BY <1>1, <1>5, MaxOfBounded
<1>7. farthest # {}
  <2> DEFINE top == Max(S)
  <2>0. top \in S /\ \A n \in S : n <= top  BY <1>6
  <2> HIDE DEF top
  <2>1. PICK w \in pages : Far(w) = top  BY <2>0
  <2>2. \A v \in pages : Far(v) <= Far(w)  BY <2>0, <2>1
  <2>3. \A v \in pages : Far(w) >= Far(v)  BY <1>2, <2>2
  <2> QED  BY <2>3
<1>8. /\ farthest \in SUBSET WordRecords
      /\ \A w \in farthest : w \in pages /\ \A v \in pages : Far(w) >= Far(v)
  BY <1>3
<1> HIDE DEF farthest
<1>9. First(farthest) \in farthest  BY <1>7, <1>8, FirstWord
<1>10. First(farthest) \in pages /\ \A v \in pages : Far(v) <= Far(First(farthest))
  BY <1>2, <1>8, <1>9
<1> QED  BY <1>4, <1>10 DEF pages, Far

-----------------------------------------------------------------------------
(* What the memory holds: the word of a page is in the page's frame, or in *)
(* the swap file, or 0.                                                    *)
Holds(dep, pg, f, p) == dep[f] = Depth /\ pg[f] = p

Stored(m, p, i) == IF p \in DOMAIN m.swap THEN m.swap[p][i] ELSE 0

Held(m, dep, pg, p, i) ==
    IF \E f \in Frames : Holds(dep, pg, f, p)
    THEN Word(m, CHOOSE f \in Frames : Holds(dep, pg, f, p), i)
    ELSE Stored(m, p, i)

(* A page that is in RAM has the words of its frame.                       *)
LEMMA HeldIn ==
  ASSUME NEW m, NEW dep, NEW pg, Distinct(dep, pg), NEW p, NEW i,
         NEW f \in Frames, Holds(dep, pg, f, p)
  PROVE  Held(m, dep, pg, p, i) = Word(m, f, i)
<1> DEFINE g == CHOOSE h \in Frames : Holds(dep, pg, h, p)
<1>1. g \in Frames /\ Holds(dep, pg, g, p)  OBVIOUS
<1>2. Held(m, dep, pg, p, i) = Word(m, g, i)  BY DEF Held
<1> HIDE DEF g
<1>3. g = f  BY <1>1, Sizes DEF Holds, Distinct
<1> QED  BY <1>2, <1>3

(* A page that is not in RAM has the words of the swap file, or zeros.     *)
LEMMA HeldOut ==
  ASSUME NEW m, NEW dep, NEW pg, NEW p, NEW i,
         \A f \in Frames : ~ Holds(dep, pg, f, p)
  PROVE  Held(m, dep, pg, p, i) = Stored(m, p, i)
  BY DEF Held

(* What leaves RAM is held by the swap file.                               *)
Moved(m, n, dep, pg, g) ==
    /\ \A h \in Frames, j \in Offsets :
          h # g /\ dep[h] = Depth => Word(n, h, j) = Word(m, h, j)
    /\ dep[g] = Depth => \A j \in Offsets : Stored(n, pg[g], j) = Word(m, g, j)
    /\ \A q \in Pages, j \in Offsets :
          ~ (dep[g] = Depth /\ q = pg[g]) => Stored(n, q, j) = Stored(m, q, j)

(* Taking a frame out of the tree leaves what the memory holds alone.      *)
LEMMA UnlinkHeld ==
  ASSUME NEW m, NEW dep, NEW pg, Tree(m, dep, pg), NEW g \in Frames,
         NEW n, Tree(n, [dep EXCEPT ![g] = -1], pg), Moved(m, n, dep, pg, g),
         NEW p \in Pages, NEW i \in Offsets
  PROVE  Held(n, [dep EXCEPT ![g] = -1], pg, p, i) = Held(m, dep, pg, p, i)
<1> DEFINE d == [dep EXCEPT ![g] = -1]
<1> SUFFICES Held(n, d, pg, p, i) = Held(m, dep, pg, p, i)  OBVIOUS
<1>1. /\ dep \in Labellings /\ d[g] = -1 /\ \A h \in Frames : h # g => d[h] = dep[h]
      /\ Depth \in Nat /\ Distinct(dep, pg) /\ Distinct(d, pg)
  BY Sizes DEF Tree, Labellings
<1>2. /\ \A h \in Frames : h # g /\ dep[h] = Depth => Word(n, h, i) = Word(m, h, i)
      /\ dep[g] = Depth => Stored(n, pg[g], i) = Word(m, g, i)
      /\ ~ (dep[g] = Depth /\ p = pg[g]) => Stored(n, p, i) = Stored(m, p, i)
  BY DEF Moved
<1> HIDE DEF d
<1>3. CASE \E f \in Frames : Holds(d, pg, f, p)
  <2>1. PICK f \in Frames : Holds(d, pg, f, p)  BY <1>3
  <2>2. f # g /\ Holds(dep, pg, f, p)  BY <1>1, <2>1 DEF Holds
  <2>3. Held(n, d, pg, p, i) = Word(n, f, i)  BY <1>1, <2>1, HeldIn
  <2>4. Held(m, dep, pg, p, i) = Word(m, f, i)  BY <1>1, <2>2, HeldIn
  <2> QED  BY <1>2, <2>2, <2>3, <2>4 DEF Holds
<1>4. CASE \A f \in Frames : ~ Holds(d, pg, f, p)
  <2>1. Held(n, d, pg, p, i) = Stored(n, p, i)  BY <1>4 DEF Held
  <2>2. CASE Holds(dep, pg, g, p)
    <3>1. Held(m, dep, pg, p, i) = Word(m, g, i)  BY <1>1, <2>2, HeldIn
    <3> QED  BY <1>2, <2>1, <2>2, <3>1 DEF Holds
  <2>3. CASE ~ Holds(dep, pg, g, p)
    <3>1. \A f \in Frames : ~ Holds(dep, pg, f, p)  BY <1>1, <1>4, <2>3 DEF Holds
    <3>2. Held(m, dep, pg, p, i) = Stored(m, p, i)  BY <3>1, HeldOut
    <3> QED  BY <1>2, <2>1, <2>3, <3>2 DEF Holds
  <2> QED  BY <2>2, <2>3
<1> QED  BY <1>3, <1>4

-----------------------------------------------------------------------------
(* The path to an address, as far as depth d, where the frame is cur.  The *)
(* rest of the array is what the call found there, and names no table but  *)
(* those of the path.                                                      *)
OnPath(path, d, f) == f = 0 \/ \E k \in 0 .. d - 1 : path[k] = f

HidesTable(dep, path, d, f) ==
    f \in Frames /\ dep[f] \in Levels /\ ~ OnPath(path, d, f)

Path(dep, pg, a, path, cur, d) ==
    /\ cur \in Frames /\ dep[cur] = d /\ pg[cur] = Prefix(a, d)
    /\ \A k \in Levels :
         IF k < d
         THEN path[k] \in Frames /\ dep[path[k]] = k + 1 /\ pg[path[k]] = Prefix(a, k + 1)
         ELSE ~ HidesTable(dep, path, d, path[k])

Labelled(dep) == {f \in Frames : dep[f] >= 0}

(* In a tree without pages whose tables are all in use for the path,       *)
(* nothing but the path is left.                                           *)
LEMMA AllOnPath ==
  ASSUME NEW m, NEW dep, NEW pg, Tree(m, dep, pg), NEW a \in VirtualAddresses,
         NEW path, NEW cur, NEW d \in Levels, Path(dep, pg, a, path, cur, d),
         \A f \in Frames : dep[f] # Depth,
         Reusable(m, TreeWords(m), path) = {}
  PROVE  \A f \in Labelled(dep) : OnPath(path, d, f)
<1>0. /\ dep \in Labellings /\ pg \in Numbers /\ m \in Memories
      /\ Depth \in Nat /\ Depth > 0 /\ Levels = 0 .. Depth - 1
      /\ \A f \in Frames : pg[f] \in Nat /\ dep[f] \in Int /\ dep[f] < Depth
  <2>1. \A f \in Frames : dep[f] \in Int /\ dep[f] <= Depth  BY DEF Tree, Labellings
  <2> QED  BY <2>1, Sizes DEF Tree, Levels, Numbers
<1> DEFINE off == {f \in Labelled(dep) : ~ OnPath(path, d, f)}
           heights == {Depth - dep[f] : f \in off}
<1> SUFFICES ASSUME off # {}  PROVE FALSE  OBVIOUS
<1>1. PICK f \in off : \A h \in off : dep[h] <= dep[f]
  <2>1. \A h \in off : h \in Frames /\ dep[h] \in Int /\ dep[h] < Depth
    BY <1>0 DEF Labelled
  <2> HIDE DEF off
  <2>2. heights \in SUBSET Nat /\ heights # {}  BY <1>0, <2>1
  <2>3. PICK x \in heights : \A y \in heights : x <= y
    <3> HIDE DEF heights
    <3> QED  BY <2>2, LeastElement
  <2>4. PICK f \in off : x = Depth - dep[f]  OBVIOUS
  <2>5. \A h \in off : Depth - dep[f] <= Depth - dep[h]  BY <2>3, <2>4
  <2>6. \A h \in off : dep[h] <= dep[f]  BY <1>0, <2>1, <2>5
  <2> QED  BY <2>6
<1>2. f \in Frames /\ dep[f] >= 0 /\ ~ OnPath(path, d, f) /\ f # 0 /\ dep[f] \in Levels
  BY <1>0, <1>1 DEF Labelled, OnPath
<1>3. dep[f] # 0  BY <1>2 DEF Tree, Root
<1>4. \A i \in Offsets : Word(m, f, i) = 0
  <2> SUFFICES ASSUME NEW i \in Offsets, Word(m, f, i) # 0  PROVE FALSE  OBVIOUS
  <2> DEFINE g == Word(m, f, i)
  <2>1. g \in Frames /\ dep[g] = dep[f] + 1 /\ pg[g] = Number(pg[f], i)
    BY <1>2 DEF Tree, Down, Refers
  <2>2. g \notin off
    <3> HIDE DEF off, g
    <3> QED  BY <1>0, <1>1, <1>2, <2>1
  <2>3. OnPath(path, d, g)
    <3>1. dep[g] >= 0  BY <1>0, <1>2, <2>1
    <3> HIDE DEF g
    <3> QED  BY <2>1, <2>2, <3>1 DEF Labelled
  <2>4. PICK k \in 0 .. d - 1 : path[k] = g  BY <2>3 DEF OnPath
  <2>5. k \in Levels /\ k < d /\ k \in Nat  BY <1>0
  <2>6. dep[g] = k + 1 /\ pg[g] = Prefix(a, k + 1)  BY <2>4, <2>5 DEF Path
  <2>7. dep[f] = k  BY <1>0, <1>2, <2>1, <2>5, <2>6
  <2>8. pg[f] = Prefix(a, k)
    <3> DEFINE x == pg[f]
               y == Prefix(a, k)
               j == split_virtual_address(a)[k]
    <3>1. y \in Nat /\ j \in Offsets /\ Prefix(a, k + 1) = Number(y, j)
      <4>1. k \in 0 .. Depth  BY <1>0, <2>5
      <4>2. y \in Nat /\ j \in Offsets /\ Prefix(a, k + 1) = (y * PageSize) + j
        BY <2>5, <4>1, PrefixValue
      <4> QED  BY <4>2 DEF Number
    <3>2. x \in Nat /\ Number(x, i) = Number(y, j)  BY <1>0, <1>2, <2>1, <2>6, <3>1
    <3> HIDE DEF x, y, j
    <3>3. x = y  BY <3>1, <3>2, NumberInjective
    <3> QED  BY <3>3 DEF x, y
  <2>9. k # 0  BY <1>3, <2>7
  <2>10. k - 1 \in Levels /\ k - 1 < d /\ (k - 1) + 1 = k /\ k - 1 \in 0 .. d - 1
    BY <1>0, <2>5, <2>9
  <2>11. path[k - 1] \in Frames /\ dep[path[k - 1]] = k /\ pg[path[k - 1]] = Prefix(a, k)
    BY <2>10 DEF Path
  <2>12. path[k - 1] = f  BY <1>2, <2>7, <2>8, <2>11 DEF Tree, Distinct
  <2> QED  BY <1>2, <2>10, <2>12 DEF OnPath
<1>5. PICK x \in Frames, j \in Offsets : dep[x] = dep[f] - 1 /\ Word(m, x, j) = f
  BY <1>0, <1>2, <1>3 DEF Tree, Up
<1>6. dep[x] \in 0 .. Depth - 2 /\ dep[x] \in 0 .. Depth  BY <1>0, <1>2, <1>3, <1>5
<1>7. PICK w \in TreeWords(m) : w.addr = Addr(x, j)
  BY <1>6, TreeWordsExact DEF Complete
<1>8. w.depth = dep[x] /\ m.ram[w.addr] = f
  <2>1. Described(m, dep, pg, w)  BY TreeWordsExact
  <2>2. Addr(x, j) \div PageSize = x  BY AddrOfWord
  <2> QED  BY <1>5, <1>7, <2>1, <2>2 DEF Described, Word
<1>9. is_frame_empty(m, f)
  <2> SUFFICES ASSUME NEW b \in FrameAddresses(f)  PROVE m.ram[b] = 0
    BY DEF is_frame_empty
  <2>1. b \in RamAddresses /\ b \div PageSize = f  BY <1>2, FrameAddressesExact
  <2>2. b % PageSize \in Offsets /\ Addr(f, b % PageSize) = b  BY <2>1, WordOfAddr
  <2> QED  BY <1>4, <2>2 DEF Word
<1>10. \A k \in Levels : path[k] # f
  <2> TAKE k \in Levels
  <2>1. CASE k < d
    <3>1. k \in 0 .. d - 1  BY <1>0, <2>1
    <3> QED  BY <1>2, <3>1 DEF OnPath
  <2>2. CASE ~ (k < d)
    <3>1. ~ HidesTable(dep, path, d, path[k])  BY <2>2 DEF Path
    <3> QED  BY <1>2, <3>1 DEF HidesTable
  <2> QED  BY <2>1, <2>2
<1>11. w.depth < Depth - 1 /\ f # 0  BY <1>0, <1>2, <1>6, <1>8
<1>12. w \in Reusable(m, TreeWords(m), path)
  BY <1>7, <1>8, <1>9, <1>10, <1>11 DEF Reusable
<1> QED  BY <1>12

(* The frame that a path has come to is on it.                             *)
LEMMA PathEnd ==
  ASSUME NEW m, NEW dep, NEW pg, Tree(m, dep, pg), NEW a \in VirtualAddresses,
         NEW path, NEW cur, NEW d \in 0 .. Depth, Path(dep, pg, a, path, cur, d)
  PROVE  OnPath(path, d, cur)
<1>0. d \in Int /\ Levels = 0 .. Depth - 1 /\ Depth \in Nat  BY Sizes DEF Levels
<1>1. CASE d = 0  BY <1>1 DEF Path, OnPath, Tree, Root
<1>2. CASE d # 0
  <2>1. d - 1 \in Levels /\ d - 1 < d /\ (d - 1) + 1 = d /\ d - 1 \in 0 .. d - 1 /\ d >= 0
    BY <1>0, <1>2
  <2>2. /\ path[d - 1] \in Frames /\ dep[path[d - 1]] = d /\ pg[path[d - 1]] = Prefix(a, d)
        /\ cur \in Frames /\ dep[cur] = d /\ pg[cur] = Prefix(a, d)
    BY <2>1 DEF Path
  <2>3. path[d - 1] = cur  BY <2>1, <2>2 DEF Tree, Distinct
  <2> QED  BY <2>1, <2>3 DEF OnPath
<1> QED  BY <1>1, <1>2

(* What a frame for the word i of the table cur must be: out of the tree,  *)
(* empty, and taken without a change to what the memory holds.             *)
FrameFound(m, dep, pg, path, cur, i, r) ==
    LET d == [dep EXCEPT ![r.frame] = -1]
    IN  /\ r.frame \in Frames \ {0, cur}
        /\ ~ OnPath(path, dep[cur], r.frame)
        /\ Tree(r.m, d, pg)
        /\ \A j \in Offsets : Word(r.m, r.frame, j) = 0
        /\ Word(r.m, cur, i) = 0
        /\ \A p \in Pages, j \in Offsets : Held(r.m, d, pg, p, j) = Held(m, dep, pg, p, j)

(* An empty table found by the search can be taken.                        *)
LEMMA ReuseFound ==
  ASSUME NEW m, NEW dep, NEW pg, Tree(m, dep, pg), NEW a \in VirtualAddresses,
         NEW path, NEW cur, NEW d \in Levels, Path(dep, pg, a, path, cur, d),
         NEW i \in Offsets, Word(m, cur, i) = 0,
         NEW w \in Reusable(m, TreeWords(m), path), NEW max
  PROVE  FrameFound(m, dep, pg, path, cur, i, Reuse(m, max, w))
<1> DEFINE g == m.ram[w.addr]
           f == w.addr \div PageSize
           j == w.addr % PageSize
           n == PMwrite(m, w.addr, 0)
           e == [dep EXCEPT ![g] = -1]
<1>0. /\ dep \in Labellings /\ pg \in Numbers /\ m \in Memories
      /\ Depth \in Nat /\ Depth > 0 /\ Levels = 0 .. Depth - 1
      /\ \A h \in Frames : pg[h] \in Nat /\ dep[h] \in Int /\ dep[h] <= Depth
  BY Sizes DEF Tree, Levels, Numbers, Labellings
<1>1. /\ w \in TreeWords(m) /\ w.depth < Depth - 1 /\ g # 0 /\ is_frame_empty(m, g)
      /\ \A k \in Levels : path[k] # g
  BY DEF Reusable
<1>2. /\ w.addr \in RamAddresses /\ w.depth \in 0 .. Depth /\ dep[f] = w.depth
  BY <1>1, TreeWordsExact DEF Described, WordRecords
<1>3. f \in Frames /\ j \in Offsets /\ Addr(f, j) = w.addr  BY <1>2, WordOfAddr
<1> HIDE DEF f, j
<1>4. g = Word(m, f, j)  BY <1>3 DEF Word
<1>5. dep[f] \in Levels /\ dep[f] < Depth - 1  BY <1>0, <1>1, <1>2
<1> HIDE DEF g
<1>6. g \in Frames /\ dep[g] = dep[f] + 1  BY <1>1, <1>3, <1>4, <1>5 DEF Tree, Down, Refers
<1>7. dep[g] > 0 /\ dep[g] # Depth /\ dep[f] = dep[g] - 1  BY <1>0, <1>5, <1>6
<1>8. \A x \in Offsets : Word(m, g, x) = 0
  <2> TAKE x \in Offsets
  <2>1. Addr(g, x) \in RamAddresses /\ Addr(g, x) \div PageSize = g  BY <1>6, AddrOfWord
  <2>2. Addr(g, x) \in FrameAddresses(g)  BY <1>6, <2>1, FrameAddressesExact
  <2> QED  BY <1>1, <2>2 DEF is_frame_empty, Word
<1>9. /\ n \in Memories /\ n.swap = m.swap
      /\ \A h \in Frames, x \in Offsets :
           Word(n, h, x) = IF h = f /\ x = j THEN 0 ELSE Word(m, h, x)
  <2>1. n = PMwrite(m, Addr(f, j), 0) /\ 0 \in Words  BY <1>3, WordsType
  <2> HIDE DEF n
  <2> QED  BY <1>0, <1>3, <2>1, WriteWord
<1> HIDE DEF n
<1>10. Tree(n, e, pg)
  <2>1. Unlinked(m, n, dep, pg, f, j, g)  BY <1>4, <1>7, <1>8, <1>9 DEF Unlinked
  <2> QED  BY <1>3, <1>6, <1>9, <2>1, Unlink
<1>11. \A p \in Pages, x \in Offsets : Held(n, e, pg, p, x) = Held(m, dep, pg, p, x)
  <2>1. \A p \in Pages, x \in Offsets : Stored(n, p, x) = Stored(m, p, x)
    BY <1>9 DEF Stored
  <2>2. \A h \in Frames, x \in Offsets : h # g /\ dep[h] = Depth => Word(n, h, x) = Word(m, h, x)
    BY <1>0, <1>5, <1>9
  <2>3. Moved(m, n, dep, pg, g)  BY <1>7, <2>1, <2>2 DEF Moved
  <2> QED  BY <1>6, <1>10, <2>3, UnlinkHeld
<1>12. g # cur /\ ~ OnPath(path, dep[cur], g)
  <2>1. d \in 0 .. Depth  BY <1>0
  <2>2. OnPath(path, d, cur) /\ dep[cur] = d  BY <2>1, PathEnd DEF Path
  <2>3. \A k \in 0 .. d - 1 : k \in Levels  BY <1>0
  <2> QED  BY <1>1, <2>2, <2>3 DEF OnPath
<1>13. \A x \in Offsets : Word(n, g, x) = 0  BY <1>6, <1>8, <1>9
<1>14. Word(n, cur, i) = 0  BY <1>9 DEF Path
<1>15. Reuse(m, max, w) = [m |-> n, frame |-> g, max |-> max]  BY DEF Reuse, n, g
<1> HIDE DEF e
<1> DEFINE r == Reuse(m, max, w)
<1>16. r.m = n /\ r.frame = g /\ e = [dep EXCEPT ![r.frame] = -1]  BY <1>15 DEF e
<1> HIDE DEF r
<1>17. FrameFound(m, dep, pg, path, cur, i, r)
  BY <1>1, <1>6, <1>10, <1>11, <1>12, <1>13, <1>14, <1>16 DEF FrameFound
<1> QED  BY <1>17 DEF r

(* The frame after max_used_frame can be taken, if there is one: it is not *)
(* in the tree.                                                            *)
LEMMA UnusedFound ==
  ASSUME NEW m, NEW dep, NEW pg, Tree(m, dep, pg), NEW a \in VirtualAddresses,
         NEW path, NEW cur, NEW d \in Levels, Path(dep, pg, a, path, cur, d),
         NEW i \in Offsets, Word(m, cur, i) = 0,
         NEW max \in Nat, max + 1 < NumFrames,
         \A w \in TreeWords(m) : m.ram[w.addr] <= max
  PROVE  FrameFound(m, dep, pg, path, cur, i, TakeUnused(m, max)) /\ dep[max + 1] = -1
<1> DEFINE g == max + 1
           n == fill_frame_with_root_value(m, g)
           e == [dep EXCEPT ![g] = -1]
<1>0. /\ dep \in Labellings /\ pg \in Numbers /\ m \in Memories
      /\ Depth \in Nat /\ Depth > 0 /\ Levels = 0 .. Depth - 1
      /\ \A h \in Frames : pg[h] \in Nat /\ dep[h] \in -1 .. Depth
  BY Sizes DEF Tree, Levels, Numbers, Labellings
<1>1. g \in Frames /\ g # 0  BY Sizes DEF Frames
<1>2. dep[g] = -1
  <2> SUFFICES ASSUME dep[g] # -1  PROVE FALSE  OBVIOUS
  <2>1. dep[g] > 0  BY <1>0, <1>1 DEF Tree, Root
  <2>2. PICK f \in Frames, j \in Offsets : dep[f] = dep[g] - 1 /\ Word(m, f, j) = g
    BY <1>1, <2>1 DEF Tree, Up
  <2>3. dep[f] \in 0 .. Depth  BY <1>0, <1>1, <2>1, <2>2
  <2>4. PICK w \in TreeWords(m) : w.addr = Addr(f, j)  BY <2>3, TreeWordsExact DEF Complete
  <2>5. m.ram[w.addr] = g  BY <2>2, <2>4 DEF Word
  <2> QED  BY <2>5
<1> HIDE DEF g
<1>3. /\ n \in Memories /\ n.swap = m.swap
      /\ \A h \in Frames, j \in Offsets : Word(n, h, j) = IF h = g THEN 0 ELSE Word(m, h, j)
  BY <1>0, <1>1, ClearFrame
<1> HIDE DEF n
<1>4. e = dep  BY <1>0, <1>1, <1>2 DEF Labellings
<1>5. cur \in Frames /\ dep[cur] = d /\ d \in Nat  BY <1>0 DEF Path
<1>6. cur # g  BY <1>2, <1>5
<1>7. ~ OnPath(path, dep[cur], g)
  <2> SUFFICES ASSUME NEW k \in 0 .. d - 1, path[k] = g  PROVE FALSE
    BY <1>1, <1>5 DEF OnPath
  <2>1. k \in Levels /\ k < d /\ k \in Nat  BY <1>0
  <2> QED  BY <1>2, <2>1 DEF Path
<1>8. \A h \in Frames : dep[h] >= 0 => \A j \in Offsets : Word(n, h, j) = Word(m, h, j)
  BY <1>2, <1>3
<1>9. Tree(n, dep, pg)
  <2>1. Down(n, dep, pg)
    <3>1. \A f \in Frames, j \in Offsets : dep[f] \in Levels => Word(n, f, j) = Word(m, f, j)
      BY <1>0, <1>8
    <3> QED  BY <3>1 DEF Tree, Down, Refers
  <2>2. Up(n, dep)
    <3> SUFFICES ASSUME NEW h \in Frames, dep[h] > 0
                 PROVE  \E f \in Frames, j \in Offsets : dep[f] = dep[h] - 1 /\ Word(n, f, j) = h
      BY DEF Up
    <3>1. PICK f \in Frames, j \in Offsets : dep[f] = dep[h] - 1 /\ Word(m, f, j) = h
      BY DEF Tree, Up
    <3>2. dep[f] >= 0  BY <1>0, <3>1
    <3> QED  BY <1>8, <3>1, <3>2
  <2>3. PagesHeld(n, dep, pg)
    <3>1. \A f \in Frames : dep[f] = Depth => dep[f] >= 0  BY <1>0
    <3> QED  BY <1>3, <1>8, <3>1 DEF Tree, PagesHeld
  <2> QED  BY <1>0, <1>3, <2>1, <2>2, <2>3 DEF Tree
<1>10. \A p \in Pages, j \in Offsets : Held(n, e, pg, p, j) = Held(m, dep, pg, p, j)
  <2> HIDE DEF e
  <2> TAKE p \in Pages, j \in Offsets
  <2>1. Stored(n, p, j) = Stored(m, p, j)  BY <1>3 DEF Stored
  <2>2. Distinct(dep, pg)  BY DEF Tree
  <2>3. CASE \E f \in Frames : Holds(dep, pg, f, p)
    <3>1. PICK f \in Frames : Holds(dep, pg, f, p)  BY <2>3
    <3>2. Held(n, dep, pg, p, j) = Word(n, f, j)  BY <2>2, <3>1, HeldIn
    <3>3. Held(m, dep, pg, p, j) = Word(m, f, j)  BY <2>2, <3>1, HeldIn
    <3>4. dep[f] >= 0  BY <1>0, <3>1 DEF Holds
    <3> QED  BY <1>4, <1>8, <3>2, <3>3, <3>4
  <2>4. CASE ~ \E f \in Frames : Holds(dep, pg, f, p)
    BY <1>4, <2>1, <2>4 DEF Held
  <2> QED  BY <2>3, <2>4
<1>11. Word(n, cur, i) = 0 /\ \A j \in Offsets : Word(n, g, j) = 0  BY <1>1, <1>3, <1>5
<1> DEFINE r == TakeUnused(m, max)
<1> HIDE DEF e
<1>12. r.m = n /\ r.frame = g /\ e = [dep EXCEPT ![r.frame] = -1]
  BY DEF TakeUnused, n, g, e
<1> HIDE DEF r
<1>13. FrameFound(m, dep, pg, path, cur, i, r)
  BY <1>1, <1>4, <1>6, <1>7, <1>9, <1>10, <1>11, <1>12 DEF FrameFound
<1> QED  BY <1>2, <1>13 DEF r, g

(* The victim's frame can be taken: its page is now in the swap file.      *)
LEMMA EvictFound ==
  ASSUME NEW m, NEW dep, NEW pg, Tree(m, dep, pg), NEW a \in VirtualAddresses,
         NEW path, NEW cur, NEW d \in Levels, Path(dep, pg, a, path, cur, d),
         NEW i \in Offsets, Word(m, cur, i) = 0,
         NEW v \in TreeWords(m), v.depth = Depth, NEW max
  PROVE  FrameFound(m, dep, pg, path, cur, i, Evict(m, max, v))
<1> DEFINE g == v.addr \div PageSize
           f == v.father \div PageSize
           j == v.father % PageSize
           k1 == PMwrite(m, v.father, 0)
           k2 == PMevict(k1, g, v.p)
           n == fill_frame_with_root_value(k2, g)
           e == [dep EXCEPT ![g] = -1]
<1>0. /\ dep \in Labellings /\ pg \in Numbers /\ m \in Memories
      /\ Depth \in Nat /\ Depth > 0 /\ Levels = 0 .. Depth - 1
      /\ \A h \in Frames : pg[h] \in Nat /\ dep[h] \in Int /\ dep[h] <= Depth
  BY Sizes DEF Tree, Levels, Numbers, Labellings
<1>1. /\ v.addr \in RamAddresses /\ dep[g] = Depth /\ pg[g] = v.p
      /\ v.father \in RamAddresses /\ dep[f] = Depth - 1 /\ m.ram[v.father] = g
  BY <1>0, TreeWordsExact DEF Described, WordRecords
<1>2. g \in Frames  BY <1>1, WordOfAddr
<1>3. f \in Frames /\ j \in Offsets /\ Addr(f, j) = v.father  BY <1>1, WordOfAddr
<1> HIDE DEF g, f, j
<1>4. Word(m, f, j) = g /\ g # f /\ g # 0
  <2>1. g # 0  BY <1>0, <1>1 DEF Tree, Root
  <2> QED  BY <1>0, <1>1, <1>3, <2>1 DEF Word
<1>5. /\ k1 \in Memories /\ k1.swap = m.swap
      /\ \A h \in Frames, x \in Offsets :
           Word(k1, h, x) = IF h = f /\ x = j THEN 0 ELSE Word(m, h, x)
  <2>1. k1 = PMwrite(m, Addr(f, j), 0) /\ 0 \in Words  BY <1>3, WordsType
  <2> HIDE DEF k1
  <2> QED  BY <1>0, <1>3, <2>1, WriteWord
<1> HIDE DEF k1
<1>6. v.p \in Pages /\ v.p \notin DOMAIN m.swap /\ \A x \in Offsets : Word(m, g, x) \in Contained
  <2>1. pg[g] < PagePower[Depth]  BY <1>0, <1>1, <1>2 DEF Tree, Numbered
  <2>0. NumPages = PagePower[Depth] /\ NumPages \in Nat  BY PagePowerValue, Sizes
  <2>2. pg[g] \in Pages  BY <1>0, <1>2, <2>0, <2>1 DEF Pages
  <2> QED  BY <1>1, <1>2, <2>2 DEF Tree, PagesHeld
<1>7. \A x \in Offsets : Word(k1, g, x) = Word(m, g, x)  BY <1>2, <1>4, <1>5
<1>8. /\ k2 \in Memories /\ k2.ram = k1.ram
      /\ DOMAIN k2.swap = {v.p} \cup DOMAIN m.swap
      /\ \A x \in Offsets : k2.swap[v.p][x] = Word(m, g, x)
      /\ \A q \in DOMAIN m.swap : k2.swap[q] = m.swap[q]
  BY <1>2, <1>5, <1>6, <1>7, EvictPage
<1> HIDE DEF k2
<1>9. /\ n \in Memories /\ n.swap = k2.swap
      /\ \A h \in Frames, x \in Offsets : Word(n, h, x) = IF h = g THEN 0 ELSE Word(k2, h, x)
  BY <1>2, <1>8, ClearFrame
<1> HIDE DEF n
<1>10. \A h \in Frames, x \in Offsets :
          h # g => Word(n, h, x) = IF h = f /\ x = j THEN 0 ELSE Word(m, h, x)
  BY <1>5, <1>8, <1>9 DEF Word
<1>11. \A q \in DOMAIN n.swap : q \in DOMAIN m.swap \/ (dep[g] = Depth /\ q = pg[g])
  BY <1>1, <1>8, <1>9
<1>12. Tree(n, e, pg)
  <2>1. dep[g] > 0 /\ dep[f] = dep[g] - 1  BY <1>0, <1>1
  <2>2. Unlinked(m, n, dep, pg, f, j, g)  BY <1>1, <1>4, <1>10, <1>11, <2>1 DEF Unlinked
  <2> QED  BY <1>2, <1>3, <1>9, <2>2, Unlink
<1>13. \A p \in Pages, x \in Offsets : Held(n, e, pg, p, x) = Held(m, dep, pg, p, x)
  <2>1. \A x \in Offsets : Stored(n, pg[g], x) = Word(m, g, x)
    BY <1>1, <1>8, <1>9 DEF Stored
  <2>2. \A q \in Pages, x \in Offsets : q # pg[g] => Stored(n, q, x) = Stored(m, q, x)
    BY <1>1, <1>8, <1>9 DEF Stored
  <2>3. \A h \in Frames, x \in Offsets : h # g /\ dep[h] = Depth => Word(n, h, x) = Word(m, h, x)
    BY <1>0, <1>1, <1>10
  <2>4. Moved(m, n, dep, pg, g)  BY <1>1, <2>1, <2>2, <2>3 DEF Moved
  <2> QED  BY <1>2, <1>12, <2>4, UnlinkHeld
<1>14. cur \in Frames /\ dep[cur] = d /\ d < Depth  BY <1>0 DEF Path
<1>15. g # cur  BY <1>0, <1>1, <1>14
<1>16. ~ OnPath(path, dep[cur], g)
  <2> SUFFICES ASSUME NEW k \in 0 .. d - 1, path[k] = g  PROVE FALSE
    BY <1>4, <1>14 DEF OnPath
  <2>1. k \in Levels /\ k < d /\ k + 1 # Depth  BY <1>0, <1>14
  <2> QED  BY <1>1, <2>1 DEF Path
<1>17. Word(n, cur, i) = 0 /\ \A x \in Offsets : Word(n, g, x) = 0
  BY <1>2, <1>9, <1>10, <1>14, <1>15
<1> DEFINE r == Evict(m, max, v)
<1> HIDE DEF e
<1>18. r.m = n /\ r.frame = g /\ e = [dep EXCEPT ![r.frame] = -1]
  BY DEF Evict, n, k1, k2, g, e
<1> HIDE DEF r
<1>19. FrameFound(m, dep, pg, path, cur, i, r)
  BY <1>2, <1>4, <1>12, <1>13, <1>15, <1>16, <1>17, <1>18 DEF FrameFound
<1> QED  BY <1>19 DEF r

-----------------------------------------------------------------------------
(* What a word of the tree holds.                                          *)
LEMMA TreeWordValue ==
  ASSUME NEW m, NEW dep, NEW pg, Tree(m, dep, pg), NEW w \in TreeWords(m)
  PROVE  /\ w \in WordRecords /\ w.addr \in RamAddresses /\ w.depth \in 0 .. Depth
         /\ dep[w.addr \div PageSize] = w.depth /\ pg[w.addr \div PageSize] = w.p
         /\ m.ram[w.addr] \in Nat
         /\ w.depth # Depth /\ m.ram[w.addr] # 0 =>
              m.ram[w.addr] \in Frames /\ dep[m.ram[w.addr]] = w.depth + 1
         /\ w.depth = Depth => m.ram[w.addr] \in Contained
<1> DEFINE f == w.addr \div PageSize
           i == w.addr % PageSize
<1>1. /\ w \in WordRecords /\ w.addr \in RamAddresses /\ w.depth \in 0 .. Depth
      /\ dep[f] = w.depth /\ pg[f] = w.p
  BY TreeWordsExact DEF Described, WordRecords
<1>2. f \in Frames /\ i \in Offsets /\ Addr(f, i) = w.addr  BY <1>1, WordOfAddr
<1>3. m.ram[w.addr] = Word(m, f, i)  BY <1>2 DEF Word
<1>4. m.ram[w.addr] \in Nat  BY <1>1, WordsType DEF Tree, Memories
<1>5. CASE w.depth # Depth
  <2>1. dep[f] \in Levels  BY <1>1, <1>5, Sizes DEF Levels
  <2>2. Refers(m, dep, pg, f, i)  BY <1>2, <2>1 DEF Tree, Down
  <2> HIDE DEF f, i
  <2> QED  BY <1>1, <1>3, <1>4, <1>5, <2>2 DEF Refers, f
<1>6. CASE w.depth = Depth
  <2>1. Word(m, f, i) \in Contained  BY <1>1, <1>2, <1>6 DEF Tree, PagesHeld
  <2> QED  BY <1>1, <1>3, <1>4, <1>6, <2>1
<1> QED  BY <1>5, <1>6

(* The search reads no word outside RAM.                                   *)
LEMMA ReadsInside ==
  ASSUME NEW m, NEW dep, NEW pg, Tree(m, dep, pg), NEW words \in SUBSET TreeWords(m)
  PROVE  ~ ReadsOutside(m, words)
<1> SUFFICES ASSUME NEW w \in words, w.depth < Depth, m.ram[w.addr] >= NumFrames
             PROVE  FALSE
  BY DEF ReadsOutside
<1>1. w.depth # Depth  BY TreeWordValue, Sizes
<1>2. m.ram[w.addr] = 0 \/ m.ram[w.addr] \in Frames  BY <1>1, TreeWordValue
<1> QED  BY <1>2, Sizes DEF Frames

(* The path has few frames.                                                *)
LEMMA FramesFinite ==
  ASSUME NEW dep
  PROVE  IsFiniteSet(Labelled(dep)) /\ Cardinality(Labelled(dep)) \in Nat
<1>1. IsFiniteSet(0 .. NumFrames - 1)
  <2>1. NumFrames - 1 \in Int /\ 0 \in Int  BY Sizes
  <2> QED  BY <2>1, FS_Interval
<1>2. Labelled(dep) \in SUBSET (0 .. NumFrames - 1)  BY DEF Labelled, Frames
<1>3. IsFiniteSet(Labelled(dep))  BY <1>1, <1>2, FS_Subset
<1> QED  BY <1>3, FS_CardinalityType

(* The numbers 0 to n are n + 1.                                           *)
LEMMA UpToCardinality ==
  ASSUME NEW n \in Nat
  PROVE  IsFiniteSet(0 .. n) /\ Cardinality(0 .. n) = n + 1
<1>1. IsFiniteSet(0 .. n) /\ Cardinality(0 .. n) = IF 0 > n THEN 0 ELSE (n - 0) + 1
  BY FS_Interval
<1> QED  BY <1>1

(* A tree that is all path has at most one frame for each depth passed.    *)
LEMMA PathCardinality ==
  ASSUME NEW m, NEW dep, NEW pg, Tree(m, dep, pg), NEW a \in VirtualAddresses,
         NEW path, NEW cur, NEW d \in 0 .. Depth, Path(dep, pg, a, path, cur, d),
         \A f \in Labelled(dep) : OnPath(path, d, f)
  PROVE  Cardinality(Labelled(dep)) <= d + 1
<1> DEFINE S == Labelled(dep)
           depth == [f \in S |-> dep[f]]
<1>0. d \in Nat /\ Levels = 0 .. Depth - 1 /\ Depth \in Nat  BY Sizes DEF Levels
<1>1. \A f \in S : f \in Frames /\ f # 0 => \E k \in 0 .. d - 1 : path[k] = f /\ dep[f] = k + 1
  <2>1. \A k \in 0 .. d - 1 : k \in Levels /\ k < d  BY <1>0
  <2> QED  BY <2>1 DEF Labelled, OnPath, Path
<1>2. \A f \in S : f = 0 => dep[f] = 0  BY DEF Tree, Root
<1>3. \A f \in S : dep[f] \in 0 .. d
  <2> TAKE f \in S
  <2>1. f \in Frames  BY DEF Labelled
  <2> QED  BY <1>0, <1>1, <1>2, <2>1
<1>4. \A f, g \in S : dep[f] = dep[g] => f = g
  <2> TAKE f, g \in S
  <2> HAVE dep[f] = dep[g]
  <2>1. f \in Frames /\ g \in Frames  BY DEF Labelled
  <2>2. CASE f = 0 \/ g = 0  BY <1>2, <2>1, <2>2 DEF Tree, Root
  <2>3. CASE f # 0 /\ g # 0
    <3>1. PICK k \in 0 .. d - 1 : path[k] = f /\ dep[f] = k + 1  BY <1>1, <2>1, <2>3
    <3>2. PICK l \in 0 .. d - 1 : path[l] = g /\ dep[g] = l + 1  BY <1>1, <2>1, <2>3
    <3>3. k = l
      <4>1. k + 1 = l + 1  BY <3>1, <3>2, dep[f] = dep[g]
      <4>2. k \in Int /\ l \in Int  BY <1>0
      <4> QED  BY <4>1, <4>2
    <3> QED  BY <3>1, <3>2, <3>3
  <2> QED  BY <2>2, <2>3
<1>5. depth \in Injection(S, 0 .. d)
  <2> DEFINE N == 0 .. d
  <2> HIDE DEF S, N
  <2>1. depth \in [S -> N] /\ DOMAIN depth = S /\ \A f \in S : depth[f] = dep[f]
    BY <1>3 DEF N
  <2>2. \A f, g \in S : depth[f] = depth[g] => f = g
    BY <1>4, <2>1
  <2> HIDE DEF depth
  <2>3. depth \in Injection(S, N)  BY <2>1, <2>2 DEF Injection, IsInjective
  <2> QED  BY <2>3 DEF N
<1> HIDE DEF depth
<1>6. IsFiniteSet(0 .. d) /\ Cardinality(0 .. d) = d + 1  BY <1>0, UpToCardinality
<1>7. Cardinality(S) <= Cardinality(0 .. d)
  <2> HIDE DEF S
  <2> QED  BY <1>5, <1>6, FS_Injection
<1> QED  BY <1>6, <1>7

-----------------------------------------------------------------------------
(* There are always frames enough.  Once the first call has ended the tree *)
(* has more frames than a path is long; until then it is the path, made of *)
(* the first frames, and max_used_frame is at most the last of them.       *)
Grown(dep) == Cardinality(Labelled(dep)) > Depth

FirstCall(dep, d, max) ==
    /\ Labelled(dep) = 0 .. d
    /\ \A f \in 0 .. d : dep[f] = f
    /\ max <= d

(* During the first call the search finds no page and nothing to reuse,    *)
(* and max_used_frame comes to be the last frame of the path.              *)
LEMMA FirstCallWords ==
  ASSUME NEW m, NEW dep, NEW pg, Tree(m, dep, pg), NEW a \in VirtualAddresses,
         NEW path, NEW cur, NEW d \in Levels, Path(dep, pg, a, path, cur, d),
         NEW max \in Nat, FirstCall(dep, d, max)
  PROVE  /\ \A f \in Frames : dep[f] # Depth
         /\ \A w \in TreeWords(m) : m.ram[w.addr] <= d
         /\ Reusable(m, TreeWords(m), path) = {}
         /\ MaxUsed(m, max, TreeWords(m)) = d
<1>0. /\ d \in Nat /\ d < Depth /\ Levels = 0 .. Depth - 1 /\ Depth \in Nat
      /\ \A f \in Frames : dep[f] \in -1 .. Depth
      /\ m \in Memories /\ Frames \subseteq Nat
  BY Sizes, WordsType DEF Levels, Tree, Labellings, Frames
<1>1. \A f \in Frames : dep[f] >= 0 => f \in 0 .. d /\ dep[f] = f
  BY DEF FirstCall, Labelled
<1>2. \A f \in Frames : dep[f] # Depth  BY <1>0, <1>1
<1>3. \A w \in TreeWords(m) :
        w.depth # Depth /\ (m.ram[w.addr] # 0 => m.ram[w.addr] \in 1 .. d)
  <2> TAKE w \in TreeWords(m)
  <2>1. w.depth # Depth
    <3>1. w.addr \div PageSize \in Frames /\ dep[w.addr \div PageSize] = w.depth
      BY TreeWordValue, WordOfAddr
    <3> QED  BY <1>2, <3>1
  <2>2. CASE m.ram[w.addr] # 0
    <3>1. m.ram[w.addr] \in Frames /\ dep[m.ram[w.addr]] = w.depth + 1 /\ w.depth \in 0 .. Depth
      BY <2>1, <2>2, TreeWordValue
    <3> DEFINE g == m.ram[w.addr]
               e == w.depth
    <3>2. g \in Frames /\ dep[g] = e + 1 /\ e \in Nat /\ g # 0  BY <1>0, <2>2, <3>1
    <3> HIDE DEF g, e
    <3>3. dep[g] >= 0  BY <3>2
    <3>4. g \in 0 .. d  BY <1>1, <3>2, <3>3
    <3>5. g \in 1 .. d  BY <1>0, <3>2, <3>4
    <3> QED  BY <2>1, <3>5 DEF g
  <2> QED  BY <2>1, <2>2
<1>4. \A w \in TreeWords(m) : m.ram[w.addr] <= d  BY <1>0, <1>3
<1>5. \A f \in 1 .. d : \E k \in Levels : path[k] = f
  <2> TAKE f \in 1 .. d
  <2>1. f - 1 \in Levels /\ f - 1 < d /\ (f - 1) + 1 = f  BY <1>0
  <2>2. path[f - 1] \in Frames /\ dep[path[f - 1]] = f  BY <2>1 DEF Path
  <2> DEFINE g == path[f - 1]
  <2>3. g \in Frames /\ dep[g] = f /\ f >= 0  BY <1>0, <2>2
  <2> HIDE DEF g
  <2>4. dep[g] = g  BY <1>1, <2>3
  <2> QED  BY <2>1, <2>3, <2>4 DEF g
<1>6. Reusable(m, TreeWords(m), path) = {}
  <2> SUFFICES ASSUME NEW w \in Reusable(m, TreeWords(m), path)  PROVE FALSE  OBVIOUS
  <2>1. w \in TreeWords(m) /\ m.ram[w.addr] # 0 /\ \A k \in Levels : path[k] # m.ram[w.addr]
    BY DEF Reusable
  <2> QED  BY <1>3, <1>5, <2>1
<1>7. MaxUsed(m, max, TreeWords(m)) = d
  <2> DEFINE used == MaxUsed(m, max, TreeWords(m))
  <2>1. TreeWords(m) \in SUBSET WordRecords  BY TreeWordValue
  <2>2. /\ used \in Nat /\ max <= used
        /\ \A w \in TreeWords(m) : m.ram[w.addr] <= used
        /\ used = max \/ \E w \in TreeWords(m) : used = m.ram[w.addr]
    BY <1>0, <2>1, MaxUsedValue
  <2> HIDE DEF used
  <2>3. used <= d  BY <1>4, <2>2 DEF FirstCall
  <2>4. d <= used
    <3>1. CASE d = 0  BY <2>2, <3>1
    <3>2. CASE d # 0
      <4>1. d \in 0 .. d /\ d \in 0 .. Depth  BY <1>0
      <4>2. d \in Frames /\ dep[d] = d  BY <4>1 DEF FirstCall, Labelled
      <4>3. PICK f \in Frames, j \in Offsets : dep[f] = d - 1 /\ Word(m, f, j) = d
        BY <1>0, <3>2, <4>2 DEF Tree, Up
      <4>4. dep[f] \in 0 .. Depth  BY <1>0, <3>2, <4>3
      <4>5. PICK w \in TreeWords(m) : w.addr = Addr(f, j)  BY <4>4, TreeWordsExact DEF Complete
      <4>6. m.ram[w.addr] = d  BY <4>3, <4>5 DEF Word
      <4> QED  BY <2>2, <4>6
    <3> QED  BY <3>1, <3>2
  <2> QED  BY <1>0, <2>2, <2>3, <2>4 DEF used
<1> QED  BY <1>2, <1>4, <1>6, <1>7

-----------------------------------------------------------------------------
(* The page that is evicted is the one with the largest number.            *)
LEMMA Remainder ==
  ASSUME NEW b \in Nat, b > 0, NEW x \in Int
  PROVE  /\ x \in 0 .. b - 1 => x % b = x
         /\ x \in -b .. -1 => x % b = x + b
<1> DEFINE q == x \div b
           r == x % b
<1>1. q \in Int /\ r \in 0 .. b - 1 /\ (q * b) + r = x  OBVIOUS
<1> HIDE DEF q, r
<1>2. q >= 1 => q * b >= b
  <2>1. q >= 1 => (q - 1) * b >= 0  BY <1>1
  <2>2. (q - 1) * b = (q * b) - b  BY <1>1
  <2>3. q * b \in Int  BY <1>1
  <2> QED  BY <2>1, <2>2, <2>3
<1>3. q <= -2 => q * b <= -2 * b
  <2>1. q <= -2 => (-2 - q) * b >= 0  BY <1>1
  <2>2. (-2 - q) * b = (-2 * b) - (q * b)  BY <1>1
  <2>3. q * b \in Int  BY <1>1
  <2> QED  BY <2>1, <2>2, <2>3
<1>4. q = 0 => q * b = 0  OBVIOUS
<1>5. q = -1 => q * b = -b  OBVIOUS
<1>6. q * b \in Int  BY <1>1
<1>7. x \in 0 .. b - 1 => q = 0
  <2> SUFFICES ASSUME x \in 0 .. b - 1, q # 0  PROVE FALSE  OBVIOUS
  <2>1. q >= 1 \/ q = -1 \/ q <= -2  BY <1>1
  <2> QED  BY <1>1, <1>2, <1>3, <1>5, <1>6, <2>1
<1>8. x \in -b .. -1 => q = -1
  <2> SUFFICES ASSUME x \in -b .. -1, q # -1  PROVE FALSE  OBVIOUS
  <2>1. q >= 1 \/ q = 0 \/ q <= -2  BY <1>1
  <2> QED  BY <1>1, <1>2, <1>3, <1>4, <1>6, <2>1
<1> QED  BY <1>1, <1>4, <1>5, <1>6, <1>7, <1>8 DEF r

(* The distance as the code computes it: of an unsigned difference, of     *)
(* which the smaller of two cannot be the first, so that it grows with the *)
(* page's number.                                                          *)
LEMMA CyclicDistanceValue ==
  ASSUME NEW p \in Pages, NEW page \in Pages, p # page
  PROVE  CyclicDistance(p, page) = (NumPages - page) + p
<1> DEFINE b == 4 * NumPages
           there == Minus(page, p)
<1>1. /\ NumPages \in Nat /\ b \in Nat /\ b > 0
      /\ p \in Nat /\ p < NumPages /\ page \in Nat /\ page < NumPages
  BY Sizes DEF Pages
<1>2. there = IF p < page THEN page - p ELSE (page - p) + b
  <2>1. page - p \in Int /\ p < page => page - p \in 0 .. b - 1  BY <1>1
  <2>2. ~ (p < page) => page - p \in -b .. -1  BY <1>1
  <2> QED  BY <1>1, <2>1, <2>2, Remainder DEF Minus
<1>3. there \in Int /\ there > 0  BY <1>1, <1>2
<1> DEFINE round == Minus(NumPages, there)
<1>4. round = (NumPages - page) + p
  <2> HIDE DEF there
  <2>1. NumPages - there \in Int  BY <1>1, <1>3
  <2>2. p < page => NumPages - there = (NumPages - page) + p /\ NumPages - there \in 0 .. b - 1
    BY <1>1, <1>2
  <2>3. ~ (p < page) => (NumPages - there) + b = (NumPages - page) + p
                        /\ NumPages - there \in -b .. -1
    BY <1>1, <1>2
  <2> QED  BY <1>1, <2>1, <2>2, <2>3, Remainder DEF Minus
<1>5. round > 0  BY <1>1, <1>4
<1> HIDE DEF round
<1>6. CyclicDistance(p, page) = IF round > 0 THEN round ELSE there
  <2> HIDE DEF there
  <2> QED  BY <1>3 DEF CyclicDistance, there, round
<1> QED  BY <1>4, <1>5, <1>6

Resides(dep, pg, p) == \E f \in Frames : Holds(dep, pg, f, p)

Swapping(m, dep, pg, r) ==
    /\ DOMAIN m.swap \subseteq DOMAIN r.m.swap
    /\ \A p \in DOMAIN r.m.swap \ DOMAIN m.swap :
         Holds(dep, pg, r.frame, p) /\ \A q \in Pages : Resides(dep, pg, q) => q <= p
    /\ dep[r.frame] = Depth => pg[r.frame] \in DOMAIN r.m.swap

(* No page in RAM has a larger number than the victim's.                   *)
LEMMA EvictsLast ==
  ASSUME NEW m, NEW dep, NEW pg, Tree(m, dep, pg), NEW page \in Pages,
         ~ Resides(dep, pg, page), NEW max, \E w \in TreeWords(m) : w.depth = Depth
  PROVE  Swapping(m, dep, pg, Evict(m, max, Victim(TreeWords(m), page)))
<1> DEFINE words == TreeWords(m)
           v == Victim(words, page)
           r == Evict(m, max, v)
<1>0. Depth \in Nat /\ m \in Memories  BY Sizes DEF Tree
<1>1. words \in SUBSET WordRecords  BY TreeWordValue
<1>2. page \in Nat  BY Sizes DEF Pages
<1>3. /\ v \in words /\ v.depth = Depth
      /\ \A w \in words : w.depth = Depth => CyclicDistance(w.p, page) <= CyclicDistance(v.p, page)
  <2> HIDE DEF words
  <2> QED  BY <1>1, <1>2, VictimIsPage DEF words
<1>4. \A w \in words : w.depth = Depth =>
        /\ w.addr \div PageSize \in Frames
        /\ Holds(dep, pg, w.addr \div PageSize, w.p) /\ w.p \in Pages /\ w.p # page
  <2> TAKE w \in words
  <2> HAVE w.depth = Depth
  <2> DEFINE g == w.addr \div PageSize
  <2>1. g \in Frames /\ dep[g] = Depth /\ pg[g] = w.p  BY TreeWordValue, WordOfAddr
  <2> HIDE DEF g
  <2>2. pg[g] < PagePower[Depth] /\ pg[g] \in Nat  BY <1>0, <2>1 DEF Tree, Numbered, Numbers
  <2>3. NumPages = PagePower[Depth] /\ NumPages \in Nat  BY PagePowerValue, Sizes
  <2> QED  BY <2>1, <2>2, <2>3 DEF Holds, Resides, Pages, g
<1> DEFINE g == v.addr \div PageSize
<1>5. g \in Frames /\ Holds(dep, pg, g, v.p) /\ v.p \in Pages /\ v.p # page  BY <1>3, <1>4
<1>6. v.p \notin DOMAIN m.swap
  <2> HIDE DEF g
  <2> QED  BY <1>5 DEF Holds, Tree, PagesHeld
<1>7. DOMAIN r.m.swap = {v.p} \cup DOMAIN m.swap /\ r.frame = g
  <2> DEFINE k == PMwrite(m, v.father, 0)
  <2>1. k.swap = m.swap /\ "swap" \in DOMAIN k  BY <1>0 DEF PMwrite, Memories
  <2> HIDE DEF k
  <2>2. g < NumFrames  BY <1>5, Sizes DEF Frames
  <2>3. r = [m |-> fill_frame_with_root_value(PMevict(k, g, v.p), g), frame |-> g, max |-> max]
    BY DEF Evict, k
  <2> DEFINE e == PMevict(k, g, v.p)
             n == fill_frame_with_root_value(e, g)
  <2> HIDE DEF g, v, r
  <2>4. DOMAIN e.swap = {v.p} \cup DOMAIN m.swap /\ "swap" \in DOMAIN e
    BY <1>5, <1>6, <2>1, <2>2 DEF PMevict
  <2> HIDE DEF e
  <2>5. n.swap = e.swap  BY <2>4 DEF fill_frame_with_root_value
  <2> HIDE DEF n
  <2>6. r.m = n /\ r.frame = g  BY <2>3 DEF n, e
  <2> QED  BY <2>4, <2>5, <2>6
<1>8. \A q \in Pages : Resides(dep, pg, q) => q <= v.p
  <2> TAKE q \in Pages
  <2> HAVE Resides(dep, pg, q)
  <2>1. PICK f \in Frames : dep[f] = Depth /\ pg[f] = q  BY DEF Resides, Holds
  <2>2. dep[f] \in 0 .. Depth /\ 0 \in Offsets  BY <1>0, <2>1, Sizes DEF Offsets
  <2>3. PICK w \in words : w.addr = Addr(f, 0)  BY <2>2, TreeWordsExact DEF Complete
  <2>4. Addr(f, 0) \div PageSize = f  BY <2>2, AddrOfWord
  <2>5. w.depth = Depth /\ w.p = q  BY <2>1, <2>3, <2>4, TreeWordValue
  <2>6. CyclicDistance(q, page) <= CyclicDistance(v.p, page)  BY <1>3, <2>5
  <2>7. q # page  BY <1>4, <2>5
  <2> HIDE DEF v
  <2>8. (NumPages - page) + q <= (NumPages - page) + v.p
    BY <1>5, <2>6, <2>7, CyclicDistanceValue
  <2> QED  BY <1>5, <2>8, Sizes DEF Pages
<1> HIDE DEF r, g, v
<1> QED  BY <1>5, <1>7, <1>8 DEF Swapping, Holds, r, v

-----------------------------------------------------------------------------
(* What a call of page_not_found gives.                                    *)
Roomy(dep, d, max) == Grown(dep) \/ FirstCall(dep, d, max)

Chosen(m, dep, d, max, r) ==
    /\ r.max \in Nat /\ max <= r.max
    /\ r.max = max \/ \E w \in TreeWords(m) : r.max = m.ram[w.addr]
    /\ dep[r.frame] = -1 =>
         r.frame = r.max + 1 /\ \A w \in TreeWords(m) : m.ram[w.addr] <= r.max
    /\ FirstCall(dep, d, max) => r.frame = d + 1 /\ r.max = d

(* The three ways of page_not_found together: it always finds a frame, and *)
(* one that is free to be taken.                                           *)
LEMMA PageNotFound ==
  ASSUME NEW m, NEW dep, NEW pg, Tree(m, dep, pg), NEW a \in VirtualAddresses,
         NEW path, NEW cur, NEW d \in Levels, Path(dep, pg, a, path, cur, d),
         NEW i \in Offsets, Word(m, cur, i) = 0,
         NEW max \in Nat, Roomy(dep, d, max),
         NEW page \in Pages, ~ Resides(dep, pg, page)
  PROVE  LET r == page_not_found(m, path, max, page)
         IN  /\ FrameFound(m, dep, pg, path, cur, i, r)
             /\ Chosen(m, dep, d, max, r)
             /\ Swapping(m, dep, pg, r)
<1> DEFINE words == TreeWords(m)
           reusable == Reusable(m, words, path)
           first == First(reusable)
           looked == {w \in words : reusable # {} => w.order <= first.order}
           used == MaxUsed(m, max, looked)
           r == page_not_found(m, path, max, page)
<1>0. /\ d \in Nat /\ d < Depth /\ Depth \in Nat /\ m \in Memories
      /\ \A f \in Frames : dep[f] \in Int
  BY Sizes DEF Levels, Tree, Labellings
<1>1. words \in SUBSET WordRecords /\ \A w \in words : w \in WordRecords
  BY TreeWordValue
<1>2. looked \in SUBSET words  OBVIOUS
<1>3. ~ ReadsOutside(m, looked)
  <2> HIDE DEF looked, words
  <2>1. looked \in SUBSET TreeWords(m)  BY <1>2 DEF words
  <2> QED  BY <2>1, ReadsInside
<1>4. /\ used \in Nat /\ max <= used
      /\ \A w \in looked : m.ram[w.addr] <= used
      /\ used = max \/ \E w \in looked : used = m.ram[w.addr]
  <2> HIDE DEF looked, words
  <2>1. looked \in SUBSET WordRecords  BY <1>1, <1>2
  <2> QED  BY <1>0, <2>1, MaxUsedValue
<1>5. used = max \/ \E w \in words : used = m.ram[w.addr]  BY <1>2, <1>4
<1>6. FirstCall(dep, d, max) =>
        reusable = {} /\ MaxUsed(m, max, words) = d /\ \A f \in Frames : dep[f] # Depth
  BY FirstCallWords
<1>7. r = IF reusable # {} THEN Reuse(m, used, first)
          ELSE IF used + 1 < NumFrames THEN TakeUnused(m, used)
          ELSE Evict(m, used, Victim(words, page))
  BY <1>3 DEF page_not_found
<1>8. CASE reusable # {}
  <2>1. first \in reusable
    <3>1. reusable \in SUBSET WordRecords  BY <1>1 DEF Reusable
    <3> HIDE DEF reusable
    <3> QED  BY <1>8, <3>1, FirstWord
  <2>2. r = Reuse(m, used, first)  BY <1>7, <1>8
  <2> HIDE DEF used, r
  <2>3. FrameFound(m, dep, pg, path, cur, i, Reuse(m, used, first))
    <3> HIDE DEF first
    <3> QED  BY <2>1, ReuseFound
  <2>4. r.max = used /\ r.frame = m.ram[first.addr]  BY <2>2 DEF Reuse
  <2>5. dep[r.frame] # -1 /\ dep[r.frame] # Depth
    <3>1. first \in words /\ first.depth < Depth - 1 /\ m.ram[first.addr] # 0
      BY <2>1 DEF Reusable
    <3> DEFINE v == first
               g == m.ram[v.addr]
    <3> HIDE DEF first
    <3>2. v.depth \in 0 .. Depth /\ g \in Frames /\ dep[g] = v.depth + 1
      BY <1>0, <3>1, TreeWordValue
    <3> HIDE DEF g, v
    <3>3. dep[g] # -1 /\ (v.depth # Depth - 1 => dep[g] # Depth)  BY <1>0, <3>2
    <3> QED  BY <1>0, <2>4, <3>1, <3>3 DEF g, v
  <2>6. Chosen(m, dep, d, max, r)
    BY <1>4, <1>5, <1>6, <1>8, <2>4, <2>5 DEF Chosen
  <2>7. Swapping(m, dep, pg, r)
    <3>1. PMwrite(m, first.addr, 0).swap = m.swap  BY <1>0 DEF PMwrite, Memories
    <3>2. r.m.swap = m.swap  BY <2>2, <3>1 DEF Reuse
    <3> QED  BY <2>5, <3>2 DEF Swapping
  <2> QED  BY <2>2, <2>3, <2>6, <2>7 DEF r
<1>9. CASE reusable = {}
  <2>1. looked = words  BY <1>9
  <2>2. \A w \in words : m.ram[w.addr] <= used  BY <1>4, <2>1
  <2>3. FirstCall(dep, d, max) => used = d  BY <1>6, <2>1
  <2> HIDE DEF used, looked
  <2>4. CASE used + 1 < NumFrames
    <3>1. r = TakeUnused(m, used)  BY <1>7, <1>9, <2>4
    <3> HIDE DEF r
    <3>2. FrameFound(m, dep, pg, path, cur, i, TakeUnused(m, used)) /\ dep[used + 1] = -1
      BY <1>4, <2>2, <2>4, UnusedFound
    <3>3. r.max = used /\ r.frame = used + 1  BY <3>1 DEF TakeUnused
    <3>4. Chosen(m, dep, d, max, r)
      BY <1>4, <1>5, <2>2, <2>3, <3>3 DEF Chosen
    <3>5. Swapping(m, dep, pg, r)
      <4>1. fill_frame_with_root_value(m, used + 1).swap = m.swap
        BY <1>0 DEF fill_frame_with_root_value, Memories
      <4>2. r.m.swap = m.swap  BY <3>1, <4>1 DEF TakeUnused
      <4> QED  BY <1>0, <3>2, <3>3, <4>2 DEF Swapping
    <3> QED  BY <3>1, <3>2, <3>4, <3>5 DEF r
  <2>5. CASE ~ (used + 1 < NumFrames)
    <3>1. ~ FirstCall(dep, d, max)  BY <1>0, <2>3, <2>5, Sizes
    <3>2. Grown(dep)  BY <3>1 DEF Roomy
    <3>3. \E f \in Frames : dep[f] = Depth
      <4> SUFFICES ASSUME \A f \in Frames : dep[f] # Depth  PROVE FALSE  OBVIOUS
      <4>1. \A f \in Labelled(dep) : OnPath(path, d, f)  BY <1>9, AllOnPath
      <4>2. d \in 0 .. Depth  BY <1>0
      <4>3. Cardinality(Labelled(dep)) <= d + 1  BY <4>1, <4>2, PathCardinality
      <4>4. Cardinality(Labelled(dep)) \in Nat  BY FramesFinite
      <4> QED  BY <1>0, <3>2, <4>3, <4>4 DEF Grown
    <3>4. \E w \in words : w.depth = Depth
      <4>1. PICK f \in Frames : dep[f] = Depth  BY <3>3
      <4>2. dep[f] \in 0 .. Depth /\ 0 \in Offsets  BY <1>0, <4>1, Sizes DEF Offsets
      <4>3. PICK w \in words : w.addr = Addr(f, 0)  BY <4>2, TreeWordsExact DEF Complete
      <4>4. Addr(f, 0) \div PageSize = f  BY <4>2, AddrOfWord
      <4>5. w.depth = dep[f]  BY <4>3, <4>4, TreeWordValue
      <4> QED  BY <4>1, <4>5
    <3> DEFINE v == Victim(words, page)
    <3>5. v \in words /\ v.depth = Depth
      <4>1. page \in Nat  BY Sizes DEF Pages
      <4> HIDE DEF words
      <4> QED  BY <1>1, <3>4, <4>1, VictimIsPage
    <3>6. r = Evict(m, used, v)  BY <1>7, <1>9, <2>5
    <3> HIDE DEF r, v
    <3>7. FrameFound(m, dep, pg, path, cur, i, Evict(m, used, v))  BY <3>5, EvictFound
    <3>8. r.max = used /\ r.frame = v.addr \div PageSize  BY <3>6 DEF Evict
    <3>9. dep[r.frame] # -1  BY <1>0, <3>5, <3>8, TreeWordValue
    <3>10. Chosen(m, dep, d, max, r)
      BY <1>4, <1>5, <3>1, <3>8, <3>9 DEF Chosen
    <3>11. Swapping(m, dep, pg, Evict(m, used, v))
      BY <3>4, EvictsLast DEF v, words
    <3> QED  BY <3>6, <3>7, <3>10, <3>11 DEF r
  <2> QED  BY <2>4, <2>5
<1> QED  BY <1>8, <1>9

-----------------------------------------------------------------------------
(* The parent of a frame on the way to a is on the way to a.               *)
LEMMA ParentOnPath ==
  ASSUME NEW m, NEW dep, NEW pg, Tree(m, dep, pg), NEW a \in VirtualAddresses,
         NEW k \in Levels, NEW g \in Frames, dep[g] = k + 1, pg[g] = Prefix(a, k + 1)
  PROVE  \E f \in Frames : /\ dep[f] = k /\ pg[f] = Prefix(a, k)
                           /\ Word(m, f, split_virtual_address(a)[k]) = g
<1>0. k \in Nat /\ k + 1 > 0 /\ k \in 0 .. Depth /\ \A f \in Frames : pg[f] \in Nat
  BY Sizes DEF Levels, Tree, Numbers
<1>1. PICK f \in Frames, j \in Offsets : dep[f] = k /\ Word(m, f, j) = g
  BY <1>0 DEF Tree, Up
<1>2. g # 0  BY <1>0 DEF Tree, Root
<1>3. pg[g] = Number(pg[f], j)  BY <1>1, <1>2 DEF Tree, Down, Refers
<1> DEFINE x == pg[f]
           y == Prefix(a, k)
           l == split_virtual_address(a)[k]
<1>4. y \in Nat /\ l \in Offsets /\ Prefix(a, k + 1) = Number(y, l)
  BY <1>0, PrefixValue DEF Number
<1>5. x \in Nat /\ Number(x, j) = Number(y, l)  BY <1>0, <1>3, <1>4
<1> HIDE DEF x, y, l
<1>6. x = y /\ j = l  BY <1>4, <1>5, NumberInjective
<1> QED  BY <1>1, <1>6 DEF x, y, l

(* A page is not in RAM when a word on the way to it is 0.                 *)
LEMMA NotHeld ==
  ASSUME NEW m, NEW dep, NEW pg, Tree(m, dep, pg), NEW a \in VirtualAddresses,
         NEW path, NEW cur, NEW d \in Levels, Path(dep, pg, a, path, cur, d),
         Word(m, cur, split_virtual_address(a)[d]) = 0
  PROVE  ~ Resides(dep, pg, Page(a))
<1> SUFFICES ASSUME \E f \in Frames : Holds(dep, pg, f, Page(a))  PROVE FALSE
  BY DEF Resides
<1> DEFINE At(k) == \E f \in Frames : dep[f] = k /\ pg[f] = Prefix(a, k)
           T == {k \in 0 .. Depth : At(Depth - k)}
<1>0. /\ d \in Nat /\ d < Depth /\ Depth \in Nat /\ Levels = 0 .. Depth - 1
      /\ \A f \in Frames : dep[f] \in Int /\ pg[f] \in Nat
  BY Sizes DEF Levels, Tree, Labellings, Numbers
<1>1. ASSUME NEW k \in Levels, NEW g \in Frames, dep[g] = k + 1, pg[g] = Prefix(a, k + 1)
      PROVE  \E f \in Frames : /\ dep[f] = k /\ pg[f] = Prefix(a, k)
                               /\ Word(m, f, split_virtual_address(a)[k]) = g
  BY <1>1, ParentOnPath
<1>2. 0 \in T
  <2>1. At(Depth)
    <3>1. Prefix(a, Depth) = Page(a)  BY PrefixValue
    <3> QED  BY <3>1 DEF Holds
  <2> HIDE DEF At
  <2>2. Depth - 0 = Depth /\ 0 \in 0 .. Depth  BY <1>0
  <2> QED  BY <2>1, <2>2
<1>3. ASSUME NEW k \in 0 .. Depth - 1, k \in T  PROVE k + 1 \in T
  <2> DEFINE l == Depth - (k + 1)
  <2>1. l \in Levels /\ l + 1 = Depth - k /\ k + 1 \in 0 .. Depth  BY <1>0
  <2>2. At(l + 1)
    <3> HIDE DEF At
    <3> QED  BY <1>3, <2>1
  <2> HIDE DEF l
  <2>3. At(l)  BY <1>1, <2>1, <2>2
  <2> HIDE DEF At
  <2> QED  BY <2>1, <2>3 DEF l
<1> HIDE DEF T
<1>4. \A k \in 0 .. Depth : k \in T  BY <1>0, <1>2, <1>3, UpToInduction
<1>5. At(d + 1)
  <2>1. Depth - (d + 1) \in 0 .. Depth /\ Depth - (Depth - (d + 1)) = d + 1  BY <1>0
  <2>2. Depth - (d + 1) \in T  BY <1>4, <2>1
  <2> HIDE DEF At
  <2> QED  BY <2>1, <2>2 DEF T
<1>6. PICK g \in Frames : dep[g] = d + 1 /\ pg[g] = Prefix(a, d + 1)  BY <1>5
<1>7. PICK f \in Frames : /\ dep[f] = d /\ pg[f] = Prefix(a, d)
                          /\ Word(m, f, split_virtual_address(a)[d]) = g
  BY <1>1, <1>6
<1>8. f = cur  BY <1>0, <1>7 DEF Path, Tree, Distinct
<1>9. g # 0  BY <1>0, <1>6 DEF Tree, Root
<1> QED  BY <1>7, <1>8, <1>9

(* The frame that joins the tree holds what the swap file held.            *)
Filled(m, n, dep, pg, f, i, g) ==
    /\ Linked(m, n, dep, pg, f, i, g)
    /\ dep[f] + 1 = Depth => \A j \in Offsets : Word(n, g, j) = Stored(m, Number(pg[f], i), j)
    /\ \A p \in Pages, j \in Offsets :
          ~ (dep[f] + 1 = Depth /\ p = Number(pg[f], i)) => Stored(n, p, j) = Stored(m, p, j)

(* A frame joining the tree leaves what the memory holds alone.            *)
LEMMA LinkHeld ==
  ASSUME NEW m, NEW dep, NEW pg, Tree(m, dep, pg), NEW n \in Memories,
         NEW f \in Frames, NEW i \in Offsets, NEW g \in Frames,
         Filled(m, n, dep, pg, f, i, g), NEW p \in Pages, NEW j \in Offsets,
         dep[f] + 1 = Depth => ~ Resides(dep, pg, Number(pg[f], i))
  PROVE  Held(n, [dep EXCEPT ![g] = dep[f] + 1], [pg EXCEPT ![g] = Number(pg[f], i)], p, j)
           = Held(m, dep, pg, p, j)
<1> DEFINE num == Number(pg[f], i)
           d == [dep EXCEPT ![g] = dep[f] + 1]
           q == [pg EXCEPT ![g] = num]
<1> SUFFICES Held(n, d, q, p, j) = Held(m, dep, pg, p, j)  OBVIOUS
<1>1. Linked(m, n, dep, pg, f, i, g)  BY DEF Filled
<1>2. Tree(n, d, q)  BY <1>1, Link
<1>3. /\ dep \in Labellings /\ pg \in Numbers /\ Depth \in Nat
      /\ Distinct(dep, pg) /\ Distinct(d, q)
      /\ d[g] = dep[f] + 1 /\ q[g] = num
      /\ \A h \in Frames : h # g => d[h] = dep[h] /\ q[h] = pg[h]
  BY <1>2, Sizes DEF Tree, Labellings, Numbers
<1>4. dep[g] # Depth /\ dep[f] # Depth  BY <1>1, Sizes DEF Linked, Levels
<1>5. \A h \in Frames : h # g /\ dep[h] = Depth => Word(n, h, j) = Word(m, h, j)
  BY <1>1, <1>4 DEF Linked
<1>6. /\ dep[f] + 1 = Depth => Word(n, g, j) = Stored(m, num, j)
      /\ ~ (dep[f] + 1 = Depth /\ p = num) => Stored(n, p, j) = Stored(m, p, j)
  BY DEF Filled
<1>7. dep[f] + 1 = Depth => \A h \in Frames : ~ Holds(dep, pg, h, num)  BY DEF Resides
<1> HIDE DEF d, q, num
<1>8. CASE \E h \in Frames : Holds(dep, pg, h, p)
  <2>1. PICK h \in Frames : Holds(dep, pg, h, p)  BY <1>8
  <2>2. h # g /\ Holds(d, q, h, p)  BY <1>3, <1>4, <2>1 DEF Holds
  <2>3. Held(n, d, q, p, j) = Word(n, h, j)  BY <1>3, <2>2, HeldIn
  <2>4. Held(m, dep, pg, p, j) = Word(m, h, j)  BY <1>3, <2>1, HeldIn
  <2> QED  BY <1>5, <2>1, <2>2, <2>3, <2>4 DEF Holds
<1>9. CASE \A h \in Frames : ~ Holds(dep, pg, h, p)
  <2>1. Held(m, dep, pg, p, j) = Stored(m, p, j)  BY <1>9 DEF Held
  <2>2. CASE dep[f] + 1 = Depth /\ p = num
    <3>1. Holds(d, q, g, p)  BY <1>3, <2>2 DEF Holds
    <3>2. Held(n, d, q, p, j) = Word(n, g, j)  BY <1>3, <3>1, HeldIn
    <3> QED  BY <1>6, <2>1, <2>2, <3>2
  <2>3. CASE ~ (dep[f] + 1 = Depth /\ p = num)
    <3>1. \A h \in Frames : ~ Holds(d, q, h, p)  BY <1>3, <1>9, <2>3 DEF Holds
    <3>2. Held(n, d, q, p, j) = Stored(n, p, j)  BY <3>1 DEF Held
    <3> QED  BY <1>6, <2>1, <2>3, <3>2
  <2> QED  BY <2>2, <2>3
<1> QED  BY <1>8, <1>9

-----------------------------------------------------------------------------
(* One level of the loop of gets_physical_address: the word is 0, and the  *)
(* frame that was found joins the tree.                                    *)
Entered(n, r, a, d) ==
    IF d = Depth - 1 THEN PMrestore(n, r.frame, Page(a)) ELSE n

Joined(dep, g, d) == [dep EXCEPT ![g] = d + 1]
Renumbered(pg, g, a, d) == [pg EXCEPT ![g] = Prefix(a, d + 1)]
Extended(path, g, d) == [path EXCEPT ![d] = g]

Restores(k, n, a, d) ==
    DOMAIN n.swap = IF d = Depth - 1 THEN DOMAIN k.swap \ {Page(a)} ELSE DOMAIN k.swap

(* What the loop does with the frame it was given: it refers to it, and    *)
(* restores the page when it is the last.                                  *)
LEMMA FillFrame ==
  ASSUME NEW m, NEW dep, NEW pg, Tree(m, dep, pg), NEW a \in VirtualAddresses,
         NEW path, NEW cur, NEW d \in Levels, Path(dep, pg, a, path, cur, d),
         NEW i \in Offsets, i = split_virtual_address(a)[d],
         NEW r, FrameFound(m, dep, pg, path, cur, i, r)
  PROVE  LET n == Entered(PMwrite(r.m, Addr(cur, i), r.frame), r, a, d)
         IN  /\ n \in Memories
             /\ Filled(r.m, n, [dep EXCEPT ![r.frame] = -1], pg, cur, i, r.frame)
             /\ Restores(r.m, n, a, d)
<1> DEFINE g == r.frame
           e == [dep EXCEPT ![g] = -1]
           k == PMwrite(r.m, Addr(cur, i), g)
           n == Entered(k, r, a, d)
<1>0. /\ d \in Nat /\ d < Depth /\ Depth \in Nat /\ Levels = 0 .. Depth - 1
      /\ dep \in Labellings /\ cur \in Frames /\ dep[cur] = d /\ pg[cur] = Prefix(a, d)
  BY Sizes DEF Levels, Tree, Path
<1>1. /\ g \in Frames /\ g # 0 /\ g # cur
      /\ Tree(r.m, e, pg) /\ Word(r.m, cur, i) = 0
      /\ \A j \in Offsets : Word(r.m, g, j) = 0
  BY DEF FrameFound
<1>2. e[g] = -1 /\ e[cur] = d  BY <1>0, <1>1 DEF Labellings
<1>3. Number(pg[cur], i) = Prefix(a, d + 1)  BY <1>0, PrefixValue DEF Number
<1>4. d + 1 = Depth => Number(pg[cur], i) = Page(a)
  <2>1. Prefix(a, Depth) = Page(a)  BY PrefixValue
  <2> QED  BY <1>3, <2>1
<1>5. Page(a) \in Pages  BY PrefixValue
<1>6. r.m \in Memories /\ g \in Words  BY <1>1, WordsType DEF Tree
<1>7. /\ k \in Memories /\ k.swap = r.m.swap
      /\ \A h \in Frames, j \in Offsets :
           Word(k, h, j) = IF h = cur /\ j = i THEN g ELSE Word(r.m, h, j)
  BY <1>0, <1>6, WriteWord
<1> HIDE DEF g, e, k
<1>8. CASE d = Depth - 1
  <2>1. n = PMrestore(k, g, Page(a))  BY <1>8 DEF Entered, g
  <2> HIDE DEF n
  <2>2. /\ n \in Memories
        /\ DOMAIN n.swap = DOMAIN k.swap \ {Page(a)}
        /\ \A q \in DOMAIN n.swap : n.swap[q] = k.swap[q]
        /\ \A h \in Frames, j \in Offsets :
             Word(n, h, j) = IF h = g /\ Page(a) \in DOMAIN k.swap THEN k.swap[Page(a)][j]
                             ELSE Word(k, h, j)
        /\ Page(a) \in DOMAIN k.swap => \A j \in Offsets : k.swap[Page(a)][j] \in Contained
    BY <1>1, <1>5, <1>7, <2>1, RestorePage
  <2>3. \A j \in Offsets : Word(n, g, j) = Stored(r.m, Page(a), j)
    BY <1>1, <1>7, <2>2 DEF Stored
  <2>4. \A j \in Offsets : Word(n, g, j) \in Contained
    BY <1>1, <1>7, <2>2, WordsType
  <2>5. \A h \in Frames, j \in Offsets :
          h # g => Word(n, h, j) = IF h = cur /\ j = i THEN g ELSE Word(r.m, h, j)
    BY <1>7, <2>2
  <2>6. d + 1 = Depth  BY <1>0, <1>8
  <2>7. Linked(r.m, n, e, pg, cur, i, g)
    BY <1>1, <1>2, <1>4, <1>7, <2>2, <2>4, <2>5, <2>6 DEF Linked
  <2>8. \A p \in Pages, j \in Offsets : p # Page(a) => Stored(n, p, j) = Stored(r.m, p, j)
    BY <1>7, <2>2 DEF Stored
  <2>9. Filled(r.m, n, e, pg, cur, i, g)
    BY <1>2, <1>4, <2>3, <2>6, <2>7, <2>8 DEF Filled
  <2>10. Restores(r.m, n, a, d)  BY <1>7, <1>8, <2>2 DEF Restores
  <2> QED  BY <2>2, <2>9, <2>10 DEF n, k, e, g
<1>9. CASE d # Depth - 1
  <2>1. n = k  BY <1>9 DEF Entered
  <2>2. d + 1 # Depth  BY <1>0, <1>9
  <2> HIDE DEF n
  <2>3. Linked(r.m, n, e, pg, cur, i, g)
    BY <1>1, <1>2, <1>7, <2>1, <2>2 DEF Linked
  <2>4. Filled(r.m, n, e, pg, cur, i, g)
    BY <1>2, <1>7, <2>1, <2>2, <2>3 DEF Filled, Stored
  <2>5. Restores(r.m, n, a, d)  BY <1>7, <1>9, <2>1 DEF Restores
  <2> QED  BY <1>7, <2>1, <2>4, <2>5 DEF n, k, e, g
<1> QED  BY <1>8, <1>9

(* What is on the path stays on it when it is extended.                    *)
LEMMA PathGrows ==
  ASSUME NEW d \in Levels, NEW path, NEW g, NEW t,
         \A k \in Levels : t[k] = IF k = d THEN g ELSE path[k]
  PROVE  \A f : f = g \/ OnPath(path, d, f) => OnPath(t, d + 1, f)
<1>0. d \in Nat /\ Levels = 0 .. Depth - 1 /\ Depth \in Nat  BY Sizes DEF Levels
<1>1. d \in 0 .. (d + 1) - 1 /\ t[d] = g  BY <1>0
<1>2. \A k \in 0 .. d - 1 : k \in 0 .. (d + 1) - 1 /\ k \in Levels /\ k # d  BY <1>0
<1>3. \A k \in 0 .. d - 1 : t[k] = path[k]  BY <1>2
<1> QED  BY <1>1, <1>2, <1>3 DEF OnPath

(* The tree and the path after that.                                       *)
LEMMA EnterFrame ==
  ASSUME NEW m, NEW dep, NEW pg, Tree(m, dep, pg), NEW a \in VirtualAddresses,
         NEW path \in [Levels -> 0 .. NumFrames], NEW cur, NEW d \in Levels,
         Path(dep, pg, a, path, cur, d),
         NEW i \in Offsets, i = split_virtual_address(a)[d], Word(m, cur, i) = 0,
         NEW r, FrameFound(m, dep, pg, path, cur, i, r)
  PROVE  LET n == Entered(PMwrite(r.m, Addr(cur, i), r.frame), r, a, d)
             e == Joined(dep, r.frame, d)
             q == Renumbered(pg, r.frame, a, d)
         IN  /\ Tree(n, e, q)
             /\ Path(e, q, a, Extended(path, r.frame, d), r.frame, d + 1)
             /\ \A p \in Pages, j \in Offsets : Held(n, e, q, p, j) = Held(m, dep, pg, p, j)
<1> DEFINE g == r.frame
           c == [dep EXCEPT ![g] = -1]
           n == Entered(PMwrite(r.m, Addr(cur, i), g), r, a, d)
           e == Joined(dep, g, d)
           q == Renumbered(pg, g, a, d)
           t == Extended(path, g, d)
<1> SUFFICES /\ Tree(n, e, q) /\ Path(e, q, a, t, g, d + 1)
             /\ \A p \in Pages, j \in Offsets : Held(n, e, q, p, j) = Held(m, dep, pg, p, j)
  OBVIOUS
<1>0. /\ d \in Nat /\ d < Depth /\ Depth \in Nat /\ Levels = 0 .. Depth - 1
      /\ dep \in Labellings /\ pg \in Numbers
      /\ cur \in Frames /\ dep[cur] = d /\ pg[cur] = Prefix(a, d)
  BY Sizes DEF Levels, Tree, Path
<1>1. /\ g \in Frames /\ g # 0 /\ g # cur /\ Tree(r.m, c, pg)
      /\ ~ OnPath(path, d, g)
      /\ \A p \in Pages, j \in Offsets : Held(r.m, c, pg, p, j) = Held(m, dep, pg, p, j)
  BY <1>0 DEF FrameFound
<1>2. n \in Memories /\ Filled(r.m, n, c, pg, cur, i, g)  BY FillFrame
<1>3. c[cur] = d /\ [c EXCEPT ![g] = c[cur] + 1] = e  BY <1>0, <1>1 DEF Labellings, Joined
<1>4. Number(pg[cur], i) = Prefix(a, d + 1)  BY <1>0, PrefixValue DEF Number
<1>5. /\ e[g] = d + 1 /\ q[g] = Prefix(a, d + 1)
      /\ \A f \in Frames : f # g => e[f] = dep[f] /\ q[f] = pg[f] /\ c[f] = dep[f]
      /\ c[g] = -1
  BY <1>0, <1>1 DEF Labellings, Numbers, Joined, Renumbered
<1>9. [pg EXCEPT ![g] = Number(pg[cur], i)] = q  BY <1>4 DEF Renumbered
<1> HIDE DEF g, c, n, e, q
<1>6. Tree(n, e, q)
  <2>1. Linked(r.m, n, c, pg, cur, i, g)  BY <1>2 DEF Filled
  <2>2. Tree(n, [c EXCEPT ![g] = c[cur] + 1], [pg EXCEPT ![g] = Number(pg[cur], i)])
    BY <1>0, <1>1, <1>2, <2>1, Link
  <2> QED  BY <1>3, <1>9, <2>2
<1>7. Path(e, q, a, t, g, d + 1)
  <2>1. \A k \in Levels : t[k] = IF k = d THEN g ELSE path[k]  BY DEF Extended
  <2> HIDE DEF t
  <2> SUFFICES ASSUME NEW k \in Levels
               PROVE  IF k < d + 1
                      THEN t[k] \in Frames /\ e[t[k]] = k + 1 /\ q[t[k]] = Prefix(a, k + 1)
                      ELSE ~ HidesTable(e, t, d + 1, t[k])
    BY <1>1, <1>5 DEF Path
  <2>2. CASE k = d  BY <1>0, <1>1, <1>5, <2>1, <2>2
  <2>3. CASE k < d
    <3>1. t[k] = path[k] /\ k < d + 1  BY <1>0, <2>1, <2>3
    <3>2. path[k] \in Frames /\ dep[path[k]] = k + 1 /\ pg[path[k]] = Prefix(a, k + 1)
      BY <2>3 DEF Path
    <3>3. path[k] # g
      <4>1. k \in 0 .. d - 1  BY <1>0, <2>3
      <4> QED  BY <1>1, <4>1 DEF OnPath
    <3> QED  BY <1>5, <3>1, <3>2, <3>3
  <2>4. CASE k > d
    <3>1. t[k] = path[k] /\ ~ (k < d + 1) /\ ~ (k < d)  BY <1>0, <2>1, <2>4
    <3>2. ~ HidesTable(dep, path, d, path[k])  BY <3>1 DEF Path
    <3> SUFFICES ASSUME HidesTable(e, t, d + 1, path[k])  PROVE FALSE  BY <3>1
    <3>3. path[k] \in Frames /\ e[path[k]] \in Levels  BY DEF HidesTable
    <3>4. \A f : f = g \/ OnPath(path, d, f) => OnPath(t, d + 1, f)  BY <2>1, PathGrows
    <3>5. path[k] # g /\ ~ OnPath(path, d, path[k])  BY <3>3, <3>4 DEF HidesTable
    <3> QED  BY <1>5, <3>2, <3>3, <3>5 DEF HidesTable
  <2> QED  BY <1>0, <2>2, <2>3, <2>4
<1>8. ASSUME NEW p \in Pages, NEW j \in Offsets
      PROVE  Held(n, e, q, p, j) = Held(m, dep, pg, p, j)
  <2>1. c[cur] + 1 = Depth => ~ Resides(c, pg, Number(pg[cur], i))
    <3> SUFFICES ASSUME d + 1 = Depth, NEW h \in Frames, Holds(c, pg, h, Page(a))
                 PROVE  FALSE
      BY <1>0, <1>3, <1>4, PrefixValue DEF Resides
    <3>1. Resides(dep, pg, Page(a))  BY <1>0, <1>5 DEF Holds, Resides
    <3> QED  BY <3>1, NotHeld
  <2>2. Held(n, [c EXCEPT ![g] = c[cur] + 1], [pg EXCEPT ![g] = Number(pg[cur], i)], p, j)
          = Held(r.m, c, pg, p, j)
    <3> DEFINE k == r.m
    <3>1. /\ Tree(k, c, pg) /\ n \in Memories /\ cur \in Frames /\ g \in Frames
          /\ Filled(k, n, c, pg, cur, i, g)
      BY <1>0, <1>1, <1>2
    <3> HIDE DEF k, n, c
    <3>2. Held(n, [c EXCEPT ![g] = c[cur] + 1], [pg EXCEPT ![g] = Number(pg[cur], i)], p, j)
            = Held(k, c, pg, p, j)
      BY <2>1, <3>1, LinkHeld
    <3> QED  BY <3>2 DEF k
  <2>3. Held(n, e, q, p, j) = Held(r.m, c, pg, p, j)  BY <1>3, <1>9, <2>2
  <2> QED  BY <1>1, <2>3
<1> QED  BY <1>6, <1>7, <1>8

-----------------------------------------------------------------------------
(* What a call that began with the memory m may pass over: a frame larger  *)
(* than all that were in the tree, for a word at least as large that it    *)
(* found in a page.                                                        *)
PageWord(m, dep, v) ==
    \E f \in Frames, j \in Offsets : dep[f] = Depth /\ Word(m, f, j) = v

PassedFor(m, dep, e, lost, v) == PageWord(m, dep, v) /\ lost <= v /\ v + 1 \in Labelled(e)

Excused(m, dep, e) ==
    \A lost \in Frames \ Labelled(e), g \in Labelled(e) :
        lost < g /\ (\A f \in Labelled(dep) : f < lost) => \E v \in Nat : PassedFor(m, dep, e, lost, v)

(* At depth d of the loop, max_used_frame is a frame of the tree or such a *)
(* word, and the pages in RAM have been there since the call began.        *)
Searched(m, dep, k, e, d, max) ==
    /\ max \in Labelled(e) \/ PageWord(m, dep, max)
    /\ d < Depth => \A v : PageWord(k, e, v) => PageWord(m, dep, v)
    /\ Excused(m, dep, e)

(* The larger of two numbers.                                              *)
LEMMA MaxOfTwo ==
  ASSUME NEW x \in Nat, NEW y \in Nat
  PROVE  Max({x, y}) = IF x >= y THEN x ELSE y
<1> DEFINE S == {x, y}
           b == IF x >= y THEN x ELSE y
<1>1. S \in SUBSET Nat /\ S # {} /\ b \in Nat /\ b \in S /\ \A n \in S : n <= b  OBVIOUS
<1> HIDE DEF S, b
<1>2. Max(S) \in S /\ \A n \in S : n <= Max(S)  BY <1>1, MaxOfBounded
<1>3. Max(S) \in Nat /\ Max(S) <= b /\ b <= Max(S)  BY <1>1, <1>2
<1>4. Max(S) = b  BY <1>1, <1>3
<1> QED  BY <1>4 DEF S, b

(* The tree has one frame more.                                            *)
LEMMA LabelledJoined ==
  ASSUME NEW dep \in Labellings, NEW g \in Frames, NEW d \in Nat
  PROVE  Labelled(Joined(dep, g, d)) = Labelled(dep) \cup {g}
<1> DEFINE e == Joined(dep, g, d)
<1>1. e[g] = d + 1 /\ \A f \in Frames : f # g => e[f] = dep[f]
  BY DEF Labellings, Joined
<1> HIDE DEF e
<1>2. \A f \in Frames : e[f] >= 0 <=> (dep[f] >= 0 \/ f = g)  BY <1>1
<1>3. Labelled(e) = Labelled(dep) \cup {g}  BY <1>2 DEF Labelled
<1> QED  BY <1>3 DEF e

(* Once a frame has joined, there are still frames enough for the next.    *)
LEMMA JoinedRoomy ==
  ASSUME NEW m, NEW dep, NEW pg, Tree(m, dep, pg), NEW d \in Levels,
         NEW max \in Nat, Roomy(dep, d, max),
         NEW r, r.frame \in Frames, Chosen(m, dep, d, max, r)
  PROVE  LET x == Max({r.frame, r.max})
         IN  x \in Nat /\ Roomy(Joined(dep, r.frame, d), d + 1, x)
<1> DEFINE g == r.frame
           e == Joined(dep, g, d)
           x == Max({g, r.max})
<1>0. /\ d \in Nat /\ d < Depth /\ Depth \in Nat /\ dep \in Labellings
      /\ g \in Nat /\ r.max \in Nat /\ Frames \subseteq Nat
  BY Sizes, WordsType DEF Levels, Tree, Chosen, Frames
<1>1. x = IF g >= r.max THEN g ELSE r.max  BY <1>0, MaxOfTwo
<1>2. e[g] = d + 1 /\ \A f \in Frames : f # g => e[f] = dep[f]
  BY <1>0 DEF Labellings, Joined
<1>3. Labelled(e) = Labelled(dep) \cup {g}  BY <1>0, LabelledJoined
<1> HIDE DEF x, e
<1>4. CASE Grown(dep)
  <2>1. Labelled(dep) \subseteq Labelled(e)  BY <1>3
  <2>2. /\ IsFiniteSet(Labelled(e)) /\ Cardinality(Labelled(e)) \in Nat
        /\ Cardinality(Labelled(dep)) \in Nat
    BY FramesFinite
  <2>3. Cardinality(Labelled(dep)) <= Cardinality(Labelled(e))  BY <2>1, <2>2, FS_Subset
  <2>4. Grown(e)  BY <1>0, <1>4, <2>2, <2>3 DEF Grown
  <2> QED  BY <1>0, <1>1, <2>4 DEF Roomy, x, e
<1>5. CASE FirstCall(dep, d, max)
  <2>1. g = d + 1 /\ r.max = d  BY <1>5 DEF Chosen
  <2>2. Labelled(dep) = 0 .. d /\ \A f \in 0 .. d : f \in Frames /\ dep[f] = f
    BY <1>5 DEF FirstCall, Labelled
  <2> HIDE DEF g
  <2>3. 0 .. d + 1 = (0 .. d) \cup {d + 1}  BY <1>0
  <2>4. Labelled(e) = 0 .. d + 1  BY <1>3, <2>1, <2>2, <2>3
  <2>5. \A f \in 0 .. d + 1 : e[f] = f
    <3> TAKE f \in 0 .. d + 1
    <3>1. CASE f = d + 1  BY <1>2, <2>1, <3>1
    <3>2. CASE f # d + 1
      <4>1. f \in 0 .. d /\ f # g  BY <1>0, <2>1, <3>2
      <4> QED  BY <1>2, <2>2, <4>1
    <3> QED  BY <3>1, <3>2
  <2>6. x = d + 1 /\ x <= d + 1  BY <1>0, <1>1, <2>1
  <2>7. FirstCall(e, d + 1, x)  BY <2>4, <2>5, <2>6 DEF FirstCall
  <2> QED  BY <1>0, <2>6, <2>7 DEF Roomy, x, e, g
<1> QED  BY <1>4, <1>5 DEF Roomy

(* A word that the search reads is a frame of the tree, 0 included, or a   *)
(* word of a page.                                                         *)
LEMMA TreeWordKinds ==
  ASSUME NEW m, NEW dep, NEW pg, Tree(m, dep, pg), NEW w \in TreeWords(m)
  PROVE  m.ram[w.addr] \in Labelled(dep) \/ PageWord(m, dep, m.ram[w.addr])
<1> DEFINE v == m.ram[w.addr]
           f == w.addr \div PageSize
           j == w.addr % PageSize
<1>0. Depth \in Nat /\ dep \in Labellings /\ 0 \in Frames  BY Sizes DEF Tree, Frames
<1>1. /\ w.depth \in 0 .. Depth
      /\ w.depth # Depth /\ v # 0 => v \in Frames /\ dep[v] = w.depth + 1
      /\ dep[f] = w.depth /\ w.addr \in RamAddresses
  BY TreeWordValue
<1>2. f \in Frames /\ j \in Offsets /\ Addr(f, j) = w.addr  BY <1>1, WordOfAddr
<1> HIDE DEF v, f, j
<1>3. CASE w.depth = Depth
  <2>1. Word(m, f, j) = v  BY <1>2 DEF Word, v
  <2> QED  BY <1>1, <1>2, <1>3, <2>1 DEF PageWord, v
<1>4. CASE v = 0
  <2>1. 0 \in Labelled(dep)  BY <1>0 DEF Labelled, Tree, Root
  <2> QED  BY <1>4, <2>1 DEF v
<1>5. CASE w.depth # Depth /\ v # 0
  <2>1. v \in Frames /\ dep[v] >= 0  BY <1>0, <1>1, <1>5
  <2> QED  BY <2>1 DEF Labelled, v
<1> QED  BY <1>3, <1>4, <1>5

(* The number of a frame at the last depth is a page's.                    *)
LEMMA PageNumber ==
  ASSUME NEW m, NEW dep, NEW pg, Tree(m, dep, pg), NEW f \in Frames, dep[f] = Depth
  PROVE  pg[f] \in Pages
<1>1. pg[f] \in Nat /\ pg[f] < PagePower[Depth]
  BY Sizes DEF Tree, Numbered, Numbers
<1>2. NumPages = PagePower[Depth] /\ NumPages \in Nat  BY PagePowerValue, Sizes
<1> QED  BY <1>1, <1>2 DEF Pages

(* Above the last level no page joins the tree, and a page that stays has  *)
(* the words it had.                                                       *)
LEMMA PageWordsKept ==
  ASSUME NEW k, NEW e, NEW q, Tree(k, e, q), NEW a \in VirtualAddresses,
         NEW d \in Levels, d + 1 # Depth, NEW g \in Frames,
         NEW n, Tree(n, Joined(e, g, d), Renumbered(q, g, a, d)),
         \A p \in Pages, j \in Offsets :
            Held(n, Joined(e, g, d), Renumbered(q, g, a, d), p, j) = Held(k, e, q, p, j),
         NEW v, PageWord(n, Joined(e, g, d), v)
  PROVE  PageWord(k, e, v)
<1> DEFINE e2 == Joined(e, g, d)
           q2 == Renumbered(q, g, a, d)
<1>1. /\ e2[g] = d + 1 /\ \A f \in Frames : f # g => e2[f] = e[f] /\ q2[f] = q[f]
  BY DEF Tree, Labellings, Numbers, Joined, Renumbered
<1>2. Tree(n, e2, q2) /\ PageWord(n, e2, v)
      /\ \A p \in Pages, j \in Offsets : Held(n, e2, q2, p, j) = Held(k, e, q, p, j)
  OBVIOUS
<1> HIDE DEF e2, q2
<1>3. PICK f \in Frames, j \in Offsets : e2[f] = Depth /\ Word(n, f, j) = v
  BY <1>2 DEF PageWord
<1>4. f # g /\ e[f] = Depth /\ q2[f] = q[f]  BY <1>1, <1>3
<1>5. q[f] \in Pages  BY <1>4, PageNumber
<1>6. Distinct(e, q) /\ Distinct(e2, q2)  BY <1>2 DEF Tree
<1>7. Held(n, e2, q2, q[f], j) = Word(n, f, j)  BY <1>3, <1>4, <1>6, HeldIn DEF Holds
<1>8. Held(k, e, q, q[f], j) = Word(k, f, j)  BY <1>4, <1>6, HeldIn DEF Holds
<1>9. Word(k, f, j) = v  BY <1>2, <1>3, <1>5, <1>7, <1>8
<1> QED  BY <1>4, <1>9 DEF PageWord

(* A frame that is passed over when one joins is passed over for a word.   *)
LEMMA SearchedJoined ==
  ASSUME NEW m, NEW dep, NEW k, NEW e, NEW q, Tree(k, e, q), NEW d \in Levels,
         NEW max \in Nat, Searched(m, dep, k, e, d, max),
         NEW r, r.frame \in Frames, Chosen(k, e, d, max, r)
  PROVE  LET x == Max({r.frame, r.max})
             e2 == Joined(e, r.frame, d)
         IN  (x \in Labelled(e2) \/ PageWord(m, dep, x)) /\ Excused(m, dep, e2)
<1> DEFINE g == r.frame
           u == r.max
           x == Max({g, u})
           e2 == Joined(e, g, d)
<1>0. /\ d \in Nat /\ d < Depth /\ Depth \in Nat /\ e \in Labellings
      /\ g \in Nat /\ u \in Nat /\ Frames \subseteq Nat
  BY Sizes, WordsType DEF Levels, Tree, Chosen, Frames
<1>1. x = IF g >= u THEN g ELSE u  BY <1>0, MaxOfTwo
<1>2. Labelled(e2) = Labelled(e) \cup {g}  BY <1>0, LabelledJoined
<1>3. u \in Labelled(e) \/ PageWord(m, dep, u)
  <2>1. CASE u = max  BY <2>1 DEF Searched
  <2>2. CASE u # max
    <3>1. PICK w \in TreeWords(k) : u = k.ram[w.addr]  BY <2>2 DEF Chosen
    <3>2. u \in Labelled(e) \/ PageWord(k, e, u)  BY <3>1, TreeWordKinds
    <3> QED  BY <1>0, <3>2 DEF Searched
  <2> QED  BY <2>1, <2>2
<1>4. e[g] = -1 => g = u + 1  BY DEF Chosen
<1>5. g \in Frames /\ (e[g] # -1 => g \in Labelled(e))
  BY DEF Labelled, Labellings, Tree
<1> HIDE DEF x, e2, g, u
<1>6. x \in Labelled(e2) \/ PageWord(m, dep, x)  BY <1>1, <1>2, <1>3
<1>7. Excused(m, dep, e2)
  <2> SUFFICES ASSUME NEW lost \in Frames, lost \notin Labelled(e2), NEW h \in Labelled(e2),
                      lost < h, \A f \in Labelled(dep) : f < lost
               PROVE  \E v \in Nat : PassedFor(m, dep, e2, lost, v)
    BY DEF Excused
  <2>1. \A v : PassedFor(m, dep, e, lost, v) => PassedFor(m, dep, e2, lost, v)
    BY <1>2 DEF PassedFor
  <2>2. ASSUME NEW y \in Labelled(e), lost < y
        PROVE  \E v \in Nat : PassedFor(m, dep, e2, lost, v)
    <3>1. lost \notin Labelled(e)  BY <1>2
    <3>2. \E v \in Nat : PassedFor(m, dep, e, lost, v)  BY <2>2, <3>1 DEF Searched, Excused
    <3> QED  BY <2>1, <3>2
  <2>3. CASE h \in Labelled(e)  BY <2>2, <2>3
  <2>4. CASE h \notin Labelled(e)
    <3>1. h = g /\ h = u + 1  BY <1>2, <1>4, <1>5, <2>4
    <3>2. lost \in Nat /\ lost <= u  BY <1>0, <3>1
    <3>3. CASE PageWord(m, dep, u)
      <4>1. PassedFor(m, dep, e2, lost, u)  BY <3>1, <3>2, <3>3 DEF PassedFor
      <4> QED  BY <1>0, <4>1
    <3>4. CASE u \in Labelled(e)
      <4>1. lost # u  BY <1>2, <3>4
      <4>2. lost < u  BY <1>0, <3>2, <4>1
      <4> QED  BY <2>2, <3>4, <4>2
    <3> QED  BY <1>3, <3>3, <3>4
  <2> QED  BY <2>3, <2>4
<1> QED  BY <1>6, <1>7 DEF x, e2, g, u

-----------------------------------------------------------------------------
(* What a call has done to the memory m when it has come to depth d.       *)
SwappedLast(m, dep, pg, a, n, e, q) ==
    /\ \A p \in Pages : Resides(dep, pg, p) => Resides(e, q, p) \/ p \in DOMAIN n.swap
    /\ \A p \in DOMAIN n.swap \ DOMAIN m.swap, x \in Pages \ DOMAIN n.swap :
          Resides(dep, pg, x) => x < p
    /\ Resides(dep, pg, Page(a)) => Page(a) \notin DOMAIN n.swap

Reaches(m, dep, pg, a, s, d, e, q) ==
    /\ Tree(s.m, e, q) /\ Path(e, q, a, s.frame_path, s.cur_frame, d)
    /\ Roomy(e, d, s.max)
    /\ Searched(m, dep, s.m, e, d, s.max)
    /\ \A p \in Pages, j \in Offsets : Held(s.m, e, q, p, j) = Held(m, dep, pg, p, j)
    /\ SwappedLast(m, dep, pg, a, s.m, e, q)

Locals ==
    [m : Memories, cur_frame : Frames, frame_path : [Levels -> 0 .. NumFrames], max : Nat]

Reached(m, dep, pg, a, s, d) ==
    s \in Locals /\ \E e, q : Reaches(m, dep, pg, a, s, d, e, q)

(* The pages evicted so far are the last ones, after one more level too.   *)
LEMMA SwapStep ==
  ASSUME NEW m, NEW dep, NEW pg, NEW a \in VirtualAddresses, NEW k, NEW d \in Levels,
         NEW e, NEW q, Tree(k, e, q),
         SwappedLast(m, dep, pg, a, k, e, q), ~ Resides(e, q, Page(a)),
         NEW r, r.frame \in Frames, Swapping(k, e, q, r),
         NEW n, Restores(r.m, n, a, d)
  PROVE  SwappedLast(m, dep, pg, a, n, Joined(e, r.frame, d), Renumbered(q, r.frame, a, d))
<1> DEFINE g == r.frame
           e2 == Joined(e, g, d)
           q2 == Renumbered(q, g, a, d)
           new == DOMAIN r.m.swap
<1> USE DEF Restores
<1>0. d \in Nat /\ Depth \in Nat /\ Page(a) \in Pages /\ Prefix(a, Depth) = Page(a)
  BY PrefixValue, Sizes DEF Levels
<1>1. /\ e2[g] = d + 1 /\ q2[g] = Prefix(a, d + 1)
      /\ \A f \in Frames : f # g => e2[f] = e[f] /\ q2[f] = q[f]
  BY DEF Tree, Labellings, Numbers, Joined, Renumbered
<1>2. ~ Resides(dep, pg, Page(a))  BY <1>0 DEF SwappedLast
<1>3. DOMAIN k.swap \subseteq new  BY DEF Swapping
<1> HIDE DEF g, e2, q2, new
<1>4. ASSUME NEW p \in Pages, Resides(dep, pg, p)
      PROVE  Resides(e2, q2, p) \/ p \in DOMAIN n.swap
  <2>1. p # Page(a)  BY <1>2, <1>4
  <2>2. CASE p \in new  BY <2>1, <2>2 DEF new
  <2>3. CASE p \notin new
    <3>1. p \notin DOMAIN k.swap  BY <1>3, <2>3
    <3>2. Resides(e, q, p)  BY <1>4, <3>1 DEF SwappedLast
    <3>3. PICK f \in Frames : e[f] = Depth /\ q[f] = p  BY <3>2 DEF Resides, Holds
    <3>4. f # g  BY <2>3, <3>3 DEF Swapping, g, new
    <3> QED  BY <1>1, <3>3, <3>4 DEF Resides, Holds
  <2> QED  BY <2>2, <2>3
<1>5. ASSUME NEW p \in DOMAIN n.swap \ DOMAIN m.swap, NEW x \in Pages \ DOMAIN n.swap,
             Resides(dep, pg, x)
      PROVE  x < p
  <2>1. p \in new /\ x # Page(a)  BY <1>2, <1>5 DEF new
  <2>2. x \notin new  BY <2>1 DEF new
  <2>3. x \notin DOMAIN k.swap  BY <1>3, <2>2
  <2>4. CASE p \in DOMAIN k.swap  BY <1>5, <2>3, <2>4 DEF SwappedLast
  <2>5. CASE p \notin DOMAIN k.swap
    <3>1. Resides(e, q, x)  BY <1>5, <2>3 DEF SwappedLast
    <3>2. Holds(e, q, g, p) /\ x <= p  BY <2>1, <2>5, <3>1 DEF Swapping, g, new
    <3>3. p \in Pages  BY <3>2, PageNumber DEF Holds, g
    <3>4. p # x  BY <2>1, <2>2
    <3> QED  BY <3>2, <3>3, <3>4, Sizes DEF Pages
  <2> QED  BY <2>4, <2>5
<1>6. SwappedLast(m, dep, pg, a, n, e2, q2)  BY <1>2, <1>4, <1>5 DEF SwappedLast
<1> QED  BY <1>6 DEF e2, q2, g

(* A level of the loop whose word is not 0 goes one frame down.            *)
LEMMA DescendHit ==
  ASSUME NEW m, NEW dep, NEW pg, NEW a \in VirtualAddresses, NEW d \in Levels,
         NEW s \in Locals, NEW e, NEW q, Reaches(m, dep, pg, a, s, d, e, q),
         NEW i \in Offsets, i = split_virtual_address(a)[d],
         Word(s.m, s.cur_frame, i) # 0
  PROVE  LET g == Word(s.m, s.cur_frame, i)
             t == [s EXCEPT !.cur_frame = g, !.frame_path[d] = g]
         IN  t \in Locals /\ Reaches(m, dep, pg, a, t, d + 1, e, q)
<1> DEFINE k == s.m
           cur == s.cur_frame
           path == s.frame_path
           g == Word(k, cur, i)
           t == [s EXCEPT !.cur_frame = g, !.frame_path[d] = g]
<1>0. /\ d \in Nat /\ d < Depth /\ Depth \in Nat /\ Levels = 0 .. Depth - 1
      /\ NumFrames \in Nat
  BY Sizes DEF Levels
<1>1. Tree(k, e, q) /\ Path(e, q, a, path, cur, d)  BY DEF Reaches
<1>2. cur \in Frames /\ e[cur] = d /\ q[cur] = Prefix(a, d)  BY <1>1 DEF Path
<1>3. g \in Frames /\ e[g] = d + 1 /\ q[g] = Prefix(a, d + 1)
  <2>1. Refers(k, e, q, cur, i)  BY <1>1, <1>2 DEF Tree, Down
  <2>2. Prefix(a, d + 1) = Number(q[cur], i)  BY <1>2, PrefixValue DEF Number
  <2> HIDE DEF k, cur
  <2> QED  BY <1>2, <2>1, <2>2 DEF Refers, k, cur
<1> HIDE DEF g
<1>4. /\ t \in Locals /\ t.m = s.m /\ t.max = s.max /\ t.cur_frame = g
      /\ t.frame_path = [path EXCEPT ![d] = g]
  <2> DEFINE N == 0 .. NumFrames
             new == [path EXCEPT ![d] = g]
  <2>1. g \in N  BY <1>0, <1>3 DEF Frames
  <2> HIDE DEF N
  <2>2. s \in [m : Memories, cur_frame : Frames, frame_path : [Levels -> N], max : Nat]
    BY DEF Locals, N
  <2>3. new \in [Levels -> N]  BY <2>1, <2>2
  <2> HIDE DEF new
  <2>4. t = [s EXCEPT !.cur_frame = g, !.frame_path = new]  BY <2>2 DEF new
  <2> HIDE DEF t
  <2>5. /\ t \in [m : Memories, cur_frame : Frames, frame_path : [Levels -> N], max : Nat]
        /\ t.m = s.m /\ t.max = s.max /\ t.cur_frame = g /\ t.frame_path = new
    BY <1>3, <2>2, <2>3, <2>4
  <2> QED  BY <2>5 DEF Locals, N, new
<1>5. path \in [Levels -> 0 .. NumFrames]  BY DEF Locals
<1>6. \A j \in Levels : t.frame_path[j] = IF j = d THEN g ELSE path[j]
  BY <1>4, <1>5
<1> HIDE DEF t
<1>7. Path(e, q, a, t.frame_path, t.cur_frame, d + 1)
  <2> HIDE DEF path
  <2> SUFFICES ASSUME NEW j \in Levels
               PROVE  IF j < d + 1
                      THEN /\ t.frame_path[j] \in Frames /\ e[t.frame_path[j]] = j + 1
                           /\ q[t.frame_path[j]] = Prefix(a, j + 1)
                      ELSE ~ HidesTable(e, t.frame_path, d + 1, t.frame_path[j])
    BY <1>3, <1>4 DEF Path
  <2>1. CASE j = d  BY <1>0, <1>3, <1>6, <2>1
  <2>2. CASE j < d
    <3>1. j < d + 1 /\ t.frame_path[j] = path[j]  BY <1>0, <1>6, <2>2
    <3> QED  BY <1>1, <2>2, <3>1 DEF Path
  <2>3. CASE j > d
    <3>1. ~ (j < d + 1) /\ ~ (j < d) /\ t.frame_path[j] = path[j]  BY <1>0, <1>6, <2>3
    <3>2. ~ HidesTable(e, path, d, path[j])  BY <1>1, <3>1 DEF Path
    <3>3. \A f : OnPath(path, d, f) => OnPath(t.frame_path, d + 1, f)
      BY <1>6, PathGrows
    <3> QED  BY <3>1, <3>2, <3>3 DEF HidesTable
  <2> QED  BY <1>0, <2>1, <2>2, <2>3
<1>8. Roomy(e, d + 1, t.max)
  <2>1. Roomy(e, d, s.max)  BY DEF Reaches
  <2>2. ~ FirstCall(e, d, s.max)
    <3> SUFFICES ASSUME FirstCall(e, d, s.max)  PROVE FALSE  OBVIOUS
    <3>1. g \in Labelled(e)  BY <1>0, <1>3 DEF Labelled
    <3>2. g \in 0 .. d /\ e[g] = g  BY <3>1 DEF FirstCall
    <3> QED  BY <1>0, <1>3, <3>2
  <2> QED  BY <2>1, <2>2 DEF Roomy
<1>9. Searched(m, dep, s.m, e, d + 1, s.max)
  <2>1. Searched(m, dep, s.m, e, d, s.max)  BY DEF Reaches
  <2> QED  BY <1>0, <2>1 DEF Searched
<1>10. Reaches(m, dep, pg, a, t, d + 1, e, q)  BY <1>4, <1>7, <1>8, <1>9 DEF Reaches
<1> QED  BY <1>4, <1>10 DEF t, g

(* A level whose word is 0 goes down to a frame that page_not_found gave.  *)
LEMMA DescendMiss ==
  ASSUME NEW m, NEW dep, NEW pg, NEW a \in VirtualAddresses, NEW d \in Levels,
         NEW s \in Locals, NEW e, NEW q, Reaches(m, dep, pg, a, s, d, e, q),
         NEW i \in Offsets, i = split_virtual_address(a)[d],
         Word(s.m, s.cur_frame, i) = 0
  PROVE  LET r == page_not_found(s.m, s.frame_path, s.max, Page(a))
             t == [s EXCEPT
                     !.m = Entered(PMwrite(r.m, Addr(s.cur_frame, i), r.frame), r, a, d),
                     !.cur_frame = r.frame,
                     !.frame_path[d] = r.frame,
                     !.max = Max({r.frame, r.max})]
         IN  Reached(m, dep, pg, a, t, d + 1)
<1> DEFINE k == s.m
           cur == s.cur_frame
           path == s.frame_path
           r == page_not_found(k, path, s.max, Page(a))
           n == Entered(PMwrite(r.m, Addr(cur, i), r.frame), r, a, d)
           x == Max({r.frame, r.max})
           t == [s EXCEPT !.m = n, !.cur_frame = r.frame, !.frame_path[d] = r.frame, !.max = x]
           e2 == Joined(e, r.frame, d)
           q2 == Renumbered(q, r.frame, a, d)
<1>0. /\ d \in Nat /\ d < Depth /\ Depth \in Nat /\ NumFrames \in Nat
      /\ path \in [Levels -> 0 .. NumFrames] /\ s.max \in Nat
  BY Sizes DEF Levels, Locals
<1>1. /\ Tree(k, e, q) /\ Path(e, q, a, path, cur, d) /\ Roomy(e, d, s.max)
      /\ Searched(m, dep, k, e, d, s.max)
      /\ SwappedLast(m, dep, pg, a, k, e, q)
      /\ \A p \in Pages, j \in Offsets : Held(k, e, q, p, j) = Held(m, dep, pg, p, j)
  BY DEF Reaches
<1>2. Word(k, cur, i) = 0 /\ Page(a) \in Pages  BY PrefixValue
<1> HIDE DEF k, cur, path
<1>3. ~ Resides(e, q, Page(a))  BY <1>1, <1>2, NotHeld
<1>4. FrameFound(k, e, q, path, cur, i, r) /\ Chosen(k, e, d, s.max, r) /\ Swapping(k, e, q, r)
  BY <1>0, <1>1, <1>2, <1>3, PageNotFound
<1> HIDE DEF r
<1>5. r.frame \in Frames /\ r.frame # 0  BY <1>4 DEF FrameFound
<1>6. n \in Memories /\ Restores(r.m, n, a, d)
  <2>1. Tree(k, e, q) /\ Path(e, q, a, path, cur, d)  BY <1>1
  <2>2. FrameFound(k, e, q, path, cur, i, r)  BY <1>4
  <2> QED  BY <2>1, <2>2, FillFrame
<1>7. /\ Tree(n, e2, q2)
      /\ Path(e2, q2, a, Extended(path, r.frame, d), r.frame, d + 1)
      /\ \A p \in Pages, j \in Offsets : Held(n, e2, q2, p, j) = Held(k, e, q, p, j)
  <2>1. Tree(k, e, q) /\ Path(e, q, a, path, cur, d)  BY <1>1
  <2>2. FrameFound(k, e, q, path, cur, i, r) /\ Word(k, cur, i) = 0  BY <1>2, <1>4
  <2>3. path \in [Levels -> 0 .. NumFrames]  BY <1>0
  <2> QED  BY <2>1, <2>2, <2>3, EnterFrame
<1> HIDE DEF n
<1>8. x \in Nat /\ Roomy(e2, d + 1, x)  BY <1>0, <1>1, <1>4, <1>5, JoinedRoomy
<1>9. Searched(m, dep, n, e2, d + 1, x)
  <2>1. (x \in Labelled(e2) \/ PageWord(m, dep, x)) /\ Excused(m, dep, e2)
    BY <1>0, <1>1, <1>4, <1>5, SearchedJoined
  <2>2. ASSUME d + 1 # Depth, NEW v, PageWord(n, e2, v)  PROVE PageWord(m, dep, v)
    <3>1. PageWord(k, e, v)  BY <1>1, <1>5, <1>7, <2>2, PageWordsKept
    <3> QED  BY <1>0, <1>1, <3>1 DEF Searched
  <2>3. d + 1 < Depth => d + 1 # Depth  BY <1>0
  <2> HIDE DEF x, e2, q2
  <2> QED  BY <2>1, <2>2, <2>3 DEF Searched
<1>10. SwappedLast(m, dep, pg, a, n, e2, q2)
  <2> QED  BY <1>1, <1>3, <1>4, <1>5, <1>6, SwapStep
<1> HIDE DEF x, e2, q2
<1>11. /\ t \in Locals /\ t.m = n /\ t.cur_frame = r.frame /\ t.max = x
       /\ t.frame_path = Extended(path, r.frame, d)
  <2> DEFINE N == 0 .. NumFrames
             g == r.frame
             new == [path EXCEPT ![d] = g]
  <2>1. g \in N /\ g \in Frames  BY <1>0, <1>5 DEF Frames
  <2> HIDE DEF N
  <2>2. s \in [m : Memories, cur_frame : Frames, frame_path : [Levels -> N], max : Nat]
    BY DEF Locals, N
  <2>3. path \in [Levels -> N]  BY <1>0 DEF N
  <2> HIDE DEF g
  <2>4. new \in [Levels -> N]  BY <2>1, <2>3
  <2> HIDE DEF new
  <2>5. t = [s EXCEPT !.m = n, !.cur_frame = g, !.frame_path = new, !.max = x]
    BY <2>2 DEF new, path, g
  <2> HIDE DEF t
  <2>6. /\ t \in [m : Memories, cur_frame : Frames, frame_path : [Levels -> N], max : Nat]
        /\ t.m = n /\ t.max = x /\ t.cur_frame = g /\ t.frame_path = new
    BY <1>6, <1>8, <2>1, <2>2, <2>4, <2>5
  <2> QED  BY <2>6 DEF Locals, N, new, g, Extended
<1> HIDE DEF t
<1>12. Reaches(m, dep, pg, a, t, d + 1, e2, q2)
  BY <1>1, <1>7, <1>8, <1>9, <1>10, <1>11 DEF Reaches
<1>13. Reached(m, dep, pg, a, t, d + 1)  BY <1>11, <1>12 DEF Reached
<1> QED  BY <1>13 DEF t, n, x, r, path, cur, k

(* Each level of the loop comes one step further on the path.              *)
LEMMA DescendKeeps ==
  ASSUME NEW m, NEW dep, NEW pg, NEW a \in VirtualAddresses, NEW d \in Levels,
         NEW s, Reached(m, dep, pg, a, s, d)
  PROVE  Reached(m, dep, pg, a, Descend(s, d, a), d + 1)
<1> DEFINE i == split_virtual_address(a)[d]
           cur == s.cur_frame
           slot == cur * PageSize + i
           r == page_not_found(s.m, s.frame_path, s.max, Page(a))
           linked == PMwrite(r.m, slot, r.frame)
<1>1. s \in Locals  BY DEF Reached
<1>2. PICK e, q : Reaches(m, dep, pg, a, s, d, e, q)  BY DEF Reached
<1>3. i \in Offsets /\ cur \in Frames  BY <1>2, PrefixValue DEF Reaches, Path
<1>4. slot = Addr(cur, i) /\ slot \in RamAddresses /\ PMread(s.m, slot) = Word(s.m, cur, i)
  <2>1. Addr(cur, i) \in RamAddresses  BY <1>3, AddrOfWord
  <2> QED  BY <2>1 DEF Addr, PMread, Word
<1>5. CASE Word(s.m, cur, i) # 0
  <2> DEFINE g == Word(s.m, cur, i)
             t == [s EXCEPT !.cur_frame = g, !.frame_path[d] = g]
  <2>1. Descend(s, d, a) = t  BY <1>4, <1>5 DEF Descend
  <2>2. t \in Locals /\ Reaches(m, dep, pg, a, t, d + 1, e, q)
    <3> HIDE DEF i
    <3> QED  BY <1>1, <1>2, <1>3, <1>5, DescendHit DEF i
  <2> HIDE DEF t
  <2> QED  BY <2>1, <2>2 DEF Reached
<1>6. CASE Word(s.m, cur, i) = 0
  <2> DEFINE t == [s EXCEPT
                     !.m = Entered(PMwrite(r.m, Addr(cur, i), r.frame), r, a, d),
                     !.cur_frame = r.frame,
                     !.frame_path[d] = r.frame,
                     !.max = Max({r.frame, r.max})]
  <2>1. Descend(s, d, a) =
          [s EXCEPT !.m = IF d = Depth - 1 THEN PMrestore(linked, r.frame, Page(a)) ELSE linked,
                    !.cur_frame = r.frame,
                    !.frame_path[d] = r.frame,
                    !.max = Max({r.frame, r.max})]
    BY <1>4, <1>6 DEF Descend
  <2>2. Entered(PMwrite(r.m, Addr(cur, i), r.frame), r, a, d)
          = IF d = Depth - 1 THEN PMrestore(linked, r.frame, Page(a)) ELSE linked
    BY <1>4 DEF Entered
  <2>3. Descend(s, d, a) = t
    <3> HIDE DEF r, linked
    <3> QED  BY <2>1, <2>2
  <2>4. Reached(m, dep, pg, a, t, d + 1)
    <3> HIDE DEF i
    <3> QED  BY <1>1, <1>2, <1>3, <1>6, DescendMiss DEF i
  <2> QED  BY <2>3, <2>4
<1> QED  BY <1>5, <1>6

(* The whole loop.                                                         *)
Begun(m, frame_path) == [m |-> m, cur_frame |-> 0, frame_path |-> frame_path, max |-> 0]

Loop(u, m, a, frame_path) ==
    /\ u[0] = Begun(m, frame_path)
    /\ \A d \in Levels : u[d + 1] = Descend(u[d], d, a)

Ended(s, a) == [m |-> s.m, at |-> s.cur_frame * PageSize + (a % PageSize)]

(* The loop of gets_physical_address, as the sequence of its local states. *)
LEMMA TranslationRecursive ==
  ASSUME NEW m, NEW a, NEW frame_path
  PROVE  \E u : /\ gets_physical_address(m, a, frame_path) = Ended(u[Depth], a)
                /\ Loop(u, m, a, frame_path)
<1> USE Sizes
<1> DEFINE begin == Begun(m, frame_path)
           Step(above, d) == Descend(above, d, a)
           Body(n, f) == [d \in 0 .. n |-> IF d = 0 THEN begin ELSE Step(f[d - 1], d - 1)]
           upTo == CHOOSE f : f = Body(Depth, f)
           T == {n \in Nat : \E f : f = Body(n, f)}
<1>0. gets_physical_address(m, a, frame_path) = Ended(upTo[Depth], a)
  BY DEF gets_physical_address, Begun, Ended
<1> HIDE DEF Step, begin
<1>1. 0 \in T
  <2>1. \E f : f = Body(0, f)
    <3> WITNESS [d \in 0 .. 0 |-> begin]
    <3> QED  OBVIOUS
  <2> QED  BY <2>1
<1>2. ASSUME NEW n \in T  PROVE n + 1 \in T
  <2>1. PICK f : f = Body(n, f)  BY <1>2
  <2> DEFINE h == [d \in 0 .. n + 1 |-> IF d <= n THEN f[d] ELSE Step(f[n], n)]
  <2>2. h = Body(n + 1, h)
    <3>1. \A d \in 0 .. n + 1 : h[d] = Body(n + 1, h)[d]
      <4> TAKE d \in 0 .. n + 1
      <4>0. n \in Nat  BY <1>2
      <4>1. CASE d <= n
        <5>1. d \in 0 .. n /\ h[d] = f[d]  BY <4>0, <4>1
        <5>2. d # 0 => d - 1 \in 0 .. n + 1 /\ d - 1 <= n  BY <4>0, <4>1
        <5> QED  BY <2>1, <5>1, <5>2
      <4>2. CASE d = n + 1
        <5>1. h[d] = Step(f[n], d - 1)  BY <4>0, <4>2
        <5>2. h[d - 1] = f[n] /\ d # 0  BY <4>0, <4>2
        <5> QED  BY <5>1, <5>2
      <4> QED  BY <4>0, <4>1, <4>2
    <3> QED  BY <3>1
  <2> HIDE DEF h
  <2> QED  BY <1>2, <2>2
<1> HIDE DEF T
<1>3. T = Nat  BY <1>1, <1>2, NatSetInduction, T \in SUBSET Nat DEF T
<1>4. Depth \in T  BY <1>3
<1>5. upTo = Body(Depth, upTo)  BY <1>4 DEF T
<1> HIDE DEF upTo
<1>6. upTo[0] = begin  BY <1>5
<1>7. \A d \in Levels : upTo[d + 1] = Step(upTo[d], d)
  <2> TAKE d \in Levels
  <2>1. d + 1 \in 0 .. Depth /\ d + 1 # 0 /\ (d + 1) - 1 = d  BY DEF Levels
  <2> QED  BY <1>5, <2>1
<1>8. Loop(upTo, m, a, frame_path)  BY <1>6, <1>7 DEF begin, Step, Loop
<1> QED  BY <1>0, <1>8

(* Between calls: the tree is the root alone, or there is a page in it.    *)
Settled(m, dep, pg) ==
    /\ Tree(m, dep, pg)
    /\ Grown(dep) \/ Labelled(dep) = {0}

(* When nothing joins the tree, nothing is passed over.                    *)
LEMMA NothingPassed ==
  ASSUME NEW m, NEW dep
  PROVE  Excused(m, dep, dep)
<1> SUFFICES ASSUME NEW lost \in Frames, NEW g \in Labelled(dep), lost < g, g < lost
             PROVE  FALSE
  BY DEF Excused
<1>1. lost \in Nat /\ g \in Nat  BY Sizes DEF Labelled, Frames
<1> QED  BY <1>1

(* At the start of the loop the path is the root.                          *)
LEMMA Begins ==
  ASSUME NEW m, NEW dep, NEW pg, Settled(m, dep, pg), NEW a \in VirtualAddresses,
         NEW path \in [Levels -> 0 .. NumFrames],
         \A k \in Levels : ~ HidesTable(dep, path, 0, path[k])
  PROVE  Reached(m, dep, pg, a, Begun(m, path), 0)
<1> DEFINE s == Begun(m, path)
<1>0. /\ Depth \in Nat /\ Depth > 0 /\ Levels = 0 .. Depth - 1 /\ NumFrames \in Nat
      /\ 0 \in Frames
  BY Sizes DEF Levels, Frames
<1>1. Tree(m, dep, pg)  BY DEF Settled
<1>2. s.m = m /\ s.cur_frame = 0 /\ s.frame_path = path /\ s.max = 0  BY DEF Begun
<1>3. s \in Locals
  <2>1. m \in Memories  BY <1>1 DEF Tree
  <2> QED  BY <1>0, <2>1 DEF Locals, Begun
<1> HIDE DEF s
<1>4. Path(dep, pg, a, path, 0, 0)
  <2>1. dep[0] = 0 /\ pg[0] = Prefix(a, 0)  BY <1>1, PrefixValue DEF Tree, Root
  <2>2. \A k \in Levels : ~ (k < 0)  BY <1>0
  <2> QED  BY <1>0, <2>1, <2>2 DEF Path
<1>5. Roomy(dep, 0, 0)
  <2>1. CASE Labelled(dep) = {0}
    <3>1. dep[0] = 0  BY <1>1 DEF Tree, Root
    <3>2. 0 .. 0 = {0}  OBVIOUS
    <3>3. FirstCall(dep, 0, 0)  BY <2>1, <3>1, <3>2 DEF FirstCall
    <3> QED  BY <3>3 DEF Roomy
  <2> QED  BY <2>1 DEF Settled, Roomy
<1>6. SwappedLast(m, dep, pg, a, m, dep, pg)
  <2>1. Resides(dep, pg, Page(a)) => Page(a) \notin DOMAIN m.swap
    BY <1>1 DEF Resides, Holds, Tree, PagesHeld
  <2> QED  BY <2>1 DEF SwappedLast
<1>7. Searched(m, dep, m, dep, 0, 0)
  <2>1. 0 \in Labelled(dep)  BY <1>0, <1>1 DEF Labelled, Tree, Root
  <2>2. Excused(m, dep, dep)  BY NothingPassed
  <2> QED  BY <2>1, <2>2 DEF Searched
<1>9. Reaches(m, dep, pg, a, s, 0, dep, pg)
  BY <1>1, <1>2, <1>4, <1>5, <1>6, <1>7 DEF Reaches
<1>10. Reached(m, dep, pg, a, s, 0)  BY <1>3, <1>9 DEF Reached
<1> QED  BY <1>10 DEF s

(* What a translation gives: the page is in RAM, at the address found.     *)
Arrived(m, dep, pg, a, n, e, q, f) ==
    /\ Settled(n, e, q) /\ Grown(e)
    /\ f \in Frames /\ Holds(e, q, f, Page(a))
    /\ \A p \in Pages, j \in Offsets : Held(n, e, q, p, j) = Held(m, dep, pg, p, j)
    /\ SwappedLast(m, dep, pg, a, n, e, q)
    /\ Excused(m, dep, e)

Translated(m, dep, pg, a, found, e, q, f) ==
    Arrived(m, dep, pg, a, found.m, e, q, f) /\ found.at = Addr(f, a % PageSize)

(* After the loop the page is in RAM at the address returned.              *)
LEMMA TranslationExact ==
  ASSUME NEW m, NEW dep, NEW pg, Settled(m, dep, pg), NEW a \in VirtualAddresses,
         NEW path \in [Levels -> 0 .. NumFrames],
         \A k \in Levels : ~ HidesTable(dep, path, 0, path[k])
  PROVE  \E e, q, f : Translated(m, dep, pg, a, gets_physical_address(m, a, path), e, q, f)
<1> DEFINE found == gets_physical_address(m, a, path)
<1>0. Depth \in Nat /\ Levels = 0 .. Depth - 1 /\ Depth \in 0 .. Depth  BY Sizes DEF Levels
<1>1. PICK u : found = Ended(u[Depth], a) /\ Loop(u, m, a, path)  BY TranslationRecursive
<1> HIDE DEF found
<1> DEFINE T == {d \in 0 .. Depth : Reached(m, dep, pg, a, u[d], d)}
<1>2. 0 \in T
  <2>1. Reached(m, dep, pg, a, Begun(m, path), 0)  BY Begins
  <2>2. u[0] = Begun(m, path)  BY <1>1 DEF Loop
  <2> QED  BY <1>0, <2>1, <2>2
<1>3. ASSUME NEW d \in 0 .. Depth - 1, d \in T  PROVE d + 1 \in T
  <2>1. d \in Levels /\ d + 1 \in 0 .. Depth /\ Reached(m, dep, pg, a, u[d], d)  BY <1>0, <1>3
  <2>2. Reached(m, dep, pg, a, Descend(u[d], d, a), d + 1)  BY <2>1, DescendKeeps
  <2> QED  BY <1>1, <2>1, <2>2 DEF Loop
<1> HIDE DEF T
<1>4. Depth \in T  BY <1>0, <1>2, <1>3, UpToInduction
<1> DEFINE s == u[Depth]
           f == s.cur_frame
<1>5. PICK e, q : Reaches(m, dep, pg, a, s, Depth, e, q)  BY <1>4 DEF T, Reached
<1>6. found.m = s.m /\ found.at = Addr(f, a % PageSize)  BY <1>1 DEF Addr, Ended
<1> HIDE DEF s
<1>7. f \in Frames /\ Holds(e, q, f, Page(a))
  <2>1. Prefix(a, Depth) = Page(a)  BY PrefixValue
  <2> QED  BY <1>5, <2>1 DEF Reaches, Path, Holds
<1>8. Grown(e)
  <2>1. CASE FirstCall(e, Depth, s.max)
    <3>1. Cardinality(0 .. Depth) = Depth + 1  BY <1>0, UpToCardinality
    <3> QED  BY <1>0, <2>1, <3>1 DEF Grown, FirstCall
  <2> QED  BY <1>5, <2>1 DEF Reaches, Roomy
<1>9. Excused(m, dep, e)  BY <1>5 DEF Reaches, Searched
<1>10. Translated(m, dep, pg, a, found, e, q, f)
  BY <1>5, <1>6, <1>7, <1>8, <1>9 DEF Reaches, Translated, Arrived, Settled
<1> QED  BY <1>10 DEF found

-----------------------------------------------------------------------------
(* A word of a page is written.                                            *)
LEMMA WritePage ==
  ASSUME NEW m, NEW dep, NEW pg, Settled(m, dep, pg), NEW f \in Frames, NEW i \in Offsets,
         NEW b \in Pages, Holds(dep, pg, f, b), NEW w \in Data
  PROVE  LET n == PMwrite(m, Addr(f, i), w)
         IN  /\ Settled(n, dep, pg)
             /\ n.swap = m.swap
             /\ \A p \in Pages, j \in Offsets :
                  Held(n, dep, pg, p, j) = IF p = b /\ j = i THEN w ELSE Held(m, dep, pg, p, j)
<1> DEFINE n == PMwrite(m, Addr(f, i), w)
<1>1. Tree(m, dep, pg) /\ w \in Words /\ w \in Contained  BY WordsType DEF Settled, Words, Contained
<1>2. /\ n \in Memories /\ n.swap = m.swap
      /\ \A g \in Frames, j \in Offsets :
           Word(n, g, j) = IF g = f /\ j = i THEN w ELSE Word(m, g, j)
  BY <1>1, WriteWord DEF Tree
<1> HIDE DEF n
<1>3. dep[f] = Depth /\ pg[f] = b /\ dep[f] \notin Levels /\ Depth \in Nat
  BY Sizes DEF Holds, Levels
<1>4. Down(n, dep, pg)  BY <1>1, <1>2, <1>3 DEF Tree, Down, Refers
<1>5. Up(n, dep)
  <2> SUFFICES ASSUME NEW g \in Frames, dep[g] > 0
               PROVE  \E h \in Frames, j \in Offsets : dep[h] = dep[g] - 1 /\ Word(n, h, j) = g
    BY DEF Up
  <2>1. PICK h \in Frames, j \in Offsets : dep[h] = dep[g] - 1 /\ Word(m, h, j) = g
    BY <1>1 DEF Tree, Up
  <2>2. h # f
    <3>1. dep[g] \in -1 .. Depth  BY <1>1 DEF Tree, Labellings
    <3> QED  BY <1>3, <2>1, <3>1
  <2> QED  BY <1>2, <2>1, <2>2
<1>6. PagesHeld(n, dep, pg)  BY <1>1, <1>2 DEF Tree, PagesHeld
<1>7. Tree(n, dep, pg)  BY <1>1, <1>2, <1>4, <1>5, <1>6 DEF Tree
<1>8. ASSUME NEW p \in Pages, NEW j \in Offsets
      PROVE  Held(n, dep, pg, p, j) = IF p = b /\ j = i THEN w ELSE Held(m, dep, pg, p, j)
  <2>0. Distinct(dep, pg)  BY <1>1 DEF Tree
  <2>1. CASE Resides(dep, pg, p)
    <3>1. PICK g \in Frames : Holds(dep, pg, g, p)  BY <2>1 DEF Resides
    <3>2. Held(n, dep, pg, p, j) = Word(n, g, j) /\ Held(m, dep, pg, p, j) = Word(m, g, j)
      BY <2>0, <3>1, HeldIn
    <3>3. g = f <=> p = b  BY <1>3, <2>0, <3>1 DEF Holds, Distinct
    <3> QED  BY <1>2, <3>2, <3>3
  <2>2. CASE ~ Resides(dep, pg, p)
    <3>1. p # b  BY <2>2 DEF Resides
    <3>2. Held(n, dep, pg, p, j) = Stored(n, p, j) /\ Held(m, dep, pg, p, j) = Stored(m, p, j)
      BY <2>2 DEF Held, Resides
    <3> QED  BY <1>2, <3>1, <3>2 DEF Stored
  <2> QED  BY <2>1, <2>2
<1> QED  BY <1>2, <1>7, <1>8 DEF Settled, n

-----------------------------------------------------------------------------
(* The calls that find in the uninitialised array no number of a table,    *)
(* and the program whose calls are all of that kind.                       *)
Tables(m) == {m.ram[w.addr] : w \in {v \in Links(m) : v.depth < Depth - 1}}

Harmless ==
    {frame_path \in Uninitialised : \A d \in Levels : frame_path[d] \notin Tables(mem)}

HarmlessCalls == Calls(Called, Data, Harmless)

HarmlessSpec == Init /\ [][HarmlessCalls]_vars

(* Between calls the memory holds a tree.                                  *)
Answers == {<<>>, <<0>>, <<1>>} \cup {<<1, w>> : w \in Contained}

VMInv == answer \in Answers /\ \E dep, pg : Settled(mem, dep, pg)

(* No frame of the tree is referred to from two words.                     *)
LEMMA LinksValue ==
  ASSUME NEW m, NEW dep, NEW pg, Tree(m, dep, pg)
  PROVE  /\ \A w \in Links(m) : /\ m.ram[w.addr] \in Frames \ {0} /\ dep[m.ram[w.addr]] > 0
                                  /\ w.depth \in Int /\ dep[m.ram[w.addr]] = w.depth + 1
         /\ \A v, w \in Links(m) : m.ram[v.addr] = m.ram[w.addr] => v = w
         /\ \A g \in Frames : dep[g] > 0 => \E w \in Links(m) : m.ram[w.addr] = g
<1>0. Depth \in Nat /\ dep \in Labellings  BY Sizes DEF Tree
<1>1. ASSUME NEW w \in Links(m)
      PROVE  /\ w \in TreeWords(m) /\ w.depth \in 0 .. Depth /\ w.depth # Depth
             /\ m.ram[w.addr] \in Frames \ {0} /\ dep[m.ram[w.addr]] = w.depth + 1
  BY TreeWordValue, Sizes DEF Links
<1>2. ASSUME NEW v \in Links(m), NEW w \in Links(m), m.ram[v.addr] = m.ram[w.addr]
      PROVE  v = w
  <2> DEFINE f == v.addr \div PageSize
             i == v.addr % PageSize
             h == w.addr \div PageSize
             j == w.addr % PageSize
  <2>1. v.addr \in RamAddresses /\ w.addr \in RamAddresses /\ dep[f] = v.depth /\ dep[h] = w.depth
    BY <1>1, TreeWordValue
  <2>2. /\ f \in Frames /\ i \in Offsets /\ Addr(f, i) = v.addr
        /\ h \in Frames /\ j \in Offsets /\ Addr(h, j) = w.addr
    BY <2>1, WordOfAddr
  <2>3. dep[f] \in Levels /\ dep[h] \in Levels  BY <1>0, <1>1, <2>1 DEF Levels
  <2> HIDE DEF f, i, h, j
  <2>4. Word(m, f, i) # 0 /\ Word(m, f, i) = Word(m, h, j)  BY <1>1, <1>2, <2>2 DEF Word
  <2>5. f = h /\ i = j  BY <2>2, <2>3, <2>4, OneParent
  <2>6. v.addr = w.addr  BY <2>2, <2>5
  <2> QED  BY <1>1, <2>6, TreeWordsExact DEF Unique
<1>3. ASSUME NEW g \in Frames, dep[g] > 0
      PROVE  \E w \in Links(m) : m.ram[w.addr] = g
  <2>1. PICK f \in Frames, j \in Offsets : dep[f] = dep[g] - 1 /\ Word(m, f, j) = g
    BY <1>3 DEF Tree, Up
  <2>2. dep[f] \in 0 .. Depth /\ dep[f] < Depth  BY <1>0, <1>3, <2>1 DEF Labellings
  <2>3. PICK w \in TreeWords(m) : w.addr = Addr(f, j)  BY <2>2, TreeWordsExact DEF Complete
  <2>4. Addr(f, j) \div PageSize = f  BY AddrOfWord
  <2>5. w.depth = dep[f]  BY <2>3, <2>4, TreeWordValue
  <2>6. m.ram[w.addr] = g  BY <2>1, <2>3 DEF Word
  <2>7. g # 0  BY <1>3 DEF Tree, Root
  <2> QED  BY <2>2, <2>5, <2>6, <2>7 DEF Links
<1>4. \A w \in Links(m) : dep[m.ram[w.addr]] > 0
  <2> TAKE w \in Links(m)
  <2> DEFINE g == m.ram[w.addr]
             n == w.depth
  <2>1. dep[g] = n + 1 /\ n \in 0 .. Depth  BY <1>1
  <2> HIDE DEF g, n
  <2>2. dep[g] > 0  BY <1>0, <2>1
  <2> QED  BY <2>2 DEF g
<1> QED  BY <1>1, <1>2, <1>3, <1>4

(* What the array may hold at the start of the loop.                       *)
LEMMA HarmlessPath ==
  ASSUME NEW dep, NEW pg, Tree(mem, dep, pg), NEW path \in Harmless
  PROVE  /\ path \in [Levels -> 0 .. NumFrames]
         /\ \A k \in Levels : ~ HidesTable(dep, path, 0, path[k])
<1>0. Depth \in Nat /\ NumFrames \in Nat /\ Levels = 0 .. Depth - 1  BY Sizes DEF Levels
<1>1. path \in [Levels -> 0 .. NumFrames]
  <2>1. Stale \cup {NoFrame} \subseteq 0 .. NumFrames
    BY <1>0, TreeAssumption DEF NoFrame
  <2>2. path \in [Levels -> Stale \cup {NoFrame}]  BY DEF Harmless, Uninitialised
  <2> QED  BY <2>1, <2>2
<1>2. ASSUME NEW k \in Levels, HidesTable(dep, path, 0, path[k])  PROVE FALSE
  <2> DEFINE f == path[k]
  <2>1. f \in Frames /\ dep[f] \in Levels /\ f # 0  BY <1>2 DEF HidesTable, OnPath
  <2>2. f \notin Tables(mem)  BY DEF Harmless
  <2> HIDE DEF f
  <2>3. dep[f] > 0  BY <1>0, <2>1 DEF Tree, Root
  <2>4. PICK w \in Links(mem) : mem.ram[w.addr] = f  BY <2>1, <2>3, LinksValue
  <2>5. w.depth \in Int /\ dep[f] = w.depth + 1  BY <2>4, LinksValue
  <2>6. w.depth < Depth - 1  BY <1>0, <2>1, <2>5
  <2> QED  BY <2>2, <2>4, <2>6 DEF Tables
<1> QED  BY <1>1, <1>2

(* VMinitialize leaves a tree of the root alone, which holds only zeros.   *)
LEMMA StartsEmpty ==
  ASSUME NEW m, m = fill_frame_with_root_value(EmptyMemory, 0),
         NEW dep, dep = [f \in Frames |-> IF f = 0 THEN 0 ELSE -1],
         NEW pg, pg = [f \in Frames |-> 0]
  PROVE  /\ Settled(m, dep, pg)
         /\ \A p \in Pages, i \in Offsets : Held(m, dep, pg, p, i) = 0
<1>0. /\ Depth \in Nat /\ Depth > 0 /\ 0 \in Frames /\ 0 \in Words /\ 0 \in Nat
      /\ PagePower[0] = 1
  BY Sizes, WordsType, PagePowerValue DEF Frames
<1>1. EmptyMemory \in Memories /\ DOMAIN EmptyMemory.swap = {}
  <2> DEFINE none == <<>>
  <2>1. none \in [{} -> [Offsets -> Contained]] /\ DOMAIN none = {}  OBVIOUS
  <2> HIDE DEF none
  <2>2. {} \in SUBSET Pages  OBVIOUS
  <2>3. none \in Swaps  BY <2>1, <2>2, SwapIntro
  <2>4. EmptyMemory = [ram |-> [a \in RamAddresses |-> 0], swap |-> none, ok |-> TRUE]
    BY DEF EmptyMemory, none
  <2> QED  BY <1>0, <2>1, <2>3, <2>4 DEF Memories
<1>2. \A f \in Frames, i \in Offsets : Word(EmptyMemory, f, i) = 0
  BY AddrOfWord DEF EmptyMemory, Word
<1>3. /\ m \in Memories /\ DOMAIN m.swap = {}
      /\ \A f \in Frames, i \in Offsets : Word(m, f, i) = 0
  <2>1. /\ m \in Memories /\ m.swap = EmptyMemory.swap
        /\ \A f \in Frames, i \in Offsets :
             Word(m, f, i) = IF f = 0 THEN 0 ELSE Word(EmptyMemory, f, i)
    BY <1>0, <1>1, ClearFrame
  <2> QED  BY <1>1, <1>2, <2>1
<1>4. \A f \in Frames : dep[f] = (IF f = 0 THEN 0 ELSE -1) /\ pg[f] = 0  OBVIOUS
<1>5. dep \in Labellings /\ pg \in Numbers  BY <1>0 DEF Labellings, Numbers
<1>6. Root(dep, pg) /\ Down(m, dep, pg) /\ Up(m, dep) /\ Distinct(dep, pg)
  BY <1>0, <1>3, <1>4 DEF Root, Down, Refers, Up, Distinct
<1>7. Numbered(dep, pg) /\ PagesHeld(m, dep, pg)
  BY <1>0, <1>4 DEF Numbered, PagesHeld
<1>8. Labelled(dep) = {0} /\ {0} = 0 .. 0  BY <1>0, <1>4 DEF Labelled
<1>10. \A p \in Pages, i \in Offsets : Held(m, dep, pg, p, i) = 0
  <2> TAKE p \in Pages, i \in Offsets
  <2>1. \A f \in Frames : ~ Holds(dep, pg, f, p)  BY <1>0, <1>4 DEF Holds
  <2> QED  BY <1>3, <2>1 DEF Held, Stored
<1> QED  BY <1>3, <1>5, <1>6, <1>7, <1>8, <1>10 DEF Settled, Tree

(* An address has an offset and a page.                                    *)
LEMMA OffsetType ==
  ASSUME NEW a \in VirtualAddresses
  PROVE  a % PageSize \in Offsets /\ Page(a) \in Pages
<1>1. a \in Nat /\ PageSize \in Nat /\ PageSize > 0  BY Sizes DEF VirtualAddresses
<1> QED  BY <1>1, Quotient, PrefixValue DEF Offsets

(* Each translation does what it should.                                   *)
LEMMA HarmlessTranslation ==
  ASSUME NEW dep, NEW pg, Settled(mem, dep, pg), NEW a \in VirtualAddresses,
         NEW path \in Harmless
  PROVE  \E e, q, f :
            Translated(mem, dep, pg, a, gets_physical_address(mem, a, path), e, q, f)
<1>1. Tree(mem, dep, pg)  BY DEF Settled
<1>2. /\ path \in [Levels -> 0 .. NumFrames]
      /\ \A k \in Levels : ~ HidesTable(dep, path, 0, path[k])
  BY <1>1, HarmlessPath
<1> QED  BY <1>2, TranslationExact

(* What VMread does.                                                       *)
LEMMA ReadStep ==
  ASSUME NEW dep, NEW pg, Settled(mem, dep, pg), NEW a,
         NEW path \in Harmless, VMread(a, path)
  PROVE  /\ a \in VirtualAddresses
         /\ \E e, q, f : /\ Arrived(mem, dep, pg, a, mem', e, q, f)
                         /\ answer' = <<1, Word(mem', f, a % PageSize)>>
<1>1. a \in VirtualAddresses  BY DEF VMread, invalid_address
<1> DEFINE found == gets_physical_address(mem, a, path)
<1>2. /\ mem' = [found.m EXCEPT !.ok = @ /\ found.at \in RamAddresses]
      /\ answer' = <<1, PMread(found.m, found.at)>>
  BY DEF VMread
<1>3. PICK e, q, f : Translated(mem, dep, pg, a, found, e, q, f)  BY <1>1, HarmlessTranslation
<1> HIDE DEF found
<1> DEFINE k == found.m
           i == a % PageSize
<1>4. Arrived(mem, dep, pg, a, k, e, q, f) /\ found.at = Addr(f, i)  BY <1>3 DEF Translated
<1>5. f \in Frames /\ i \in Offsets  BY <1>1, <1>4, OffsetType DEF Arrived
<1>6. Addr(f, i) \in RamAddresses  BY <1>5, AddrOfWord
<1>7. k \in Memories  BY <1>4 DEF Arrived, Settled, Tree
<1>8. mem' = [k EXCEPT !.ok = @ /\ TRUE]  BY <1>2, <1>4, <1>6
<1> HIDE DEF k
<1>9. mem' = k  BY <1>7, <1>8 DEF Memories
<1>10. answer' = <<1, Word(k, f, i)>>  BY <1>2, <1>4, <1>6 DEF PMread, Word, k
<1> QED  BY <1>1, <1>4, <1>9, <1>10

(* What VMwrite does, before and with its last write.                      *)
LEMMA WriteStep ==
  ASSUME NEW dep, NEW pg, Settled(mem, dep, pg), NEW a, NEW word,
         NEW path \in Harmless, VMwrite(a, word, path)
  PROVE  /\ a \in VirtualAddresses /\ answer' = <<1>>
         /\ \E k, e, q, f : /\ Arrived(mem, dep, pg, a, k, e, q, f)
                            /\ mem' = PMwrite(k, Addr(f, a % PageSize), word)
<1>1. a \in VirtualAddresses /\ answer' = <<1>>  BY DEF VMwrite, invalid_address
<1> DEFINE found == gets_physical_address(mem, a, path)
<1>2. mem' = PMwrite(found.m, found.at, word)  BY DEF VMwrite
<1>3. PICK e, q, f : Translated(mem, dep, pg, a, found, e, q, f)  BY <1>1, HarmlessTranslation
<1> HIDE DEF found
<1> QED  BY <1>1, <1>2, <1>3 DEF Translated

(* The same for a write, with the memory after it.                         *)
LEMMA WriteStepExact ==
  ASSUME NEW dep, NEW pg, Settled(mem, dep, pg), NEW a, NEW word \in Data,
         NEW path \in Harmless, VMwrite(a, word, path)
  PROVE  \E e, q : /\ Settled(mem', e, q)
                   /\ SwappedLast(mem, dep, pg, a, mem', e, q)
                   /\ Excused(mem, dep, e)
                   /\ \A p \in Pages, j \in Offsets :
                        Held(mem', e, q, p, j) = IF p = Page(a) /\ j = a % PageSize THEN word
                                                 ELSE Held(mem, dep, pg, p, j)
<1>1. a \in VirtualAddresses  BY WriteStep
<1>2. PICK k, e, q, f : /\ Arrived(mem, dep, pg, a, k, e, q, f)
                        /\ mem' = PMwrite(k, Addr(f, a % PageSize), word)
  BY WriteStep
<1> DEFINE i == a % PageSize
           b == Page(a)
           n == PMwrite(k, Addr(f, i), word)
<1>3. i \in Offsets /\ b \in Pages  BY <1>1, OffsetType
<1>4. Settled(k, e, q) /\ f \in Frames /\ Holds(e, q, f, b)  BY <1>2 DEF Arrived
<1> HIDE DEF i, b
<1>5. /\ Settled(n, e, q) /\ n.swap = k.swap
      /\ \A p \in Pages, j \in Offsets :
           Held(n, e, q, p, j) = IF p = b /\ j = i THEN word ELSE Held(k, e, q, p, j)
  BY <1>3, <1>4, WritePage
<1> HIDE DEF n
<1>6. mem' = n  BY <1>2 DEF n, i
<1>7. SwappedLast(mem, dep, pg, a, n, e, q) /\ Excused(mem, dep, e)
  BY <1>2, <1>5 DEF Arrived, SwappedLast
<1>8. \A p \in Pages, j \in Offsets :
        Held(n, e, q, p, j) = IF p = b /\ j = i THEN word ELSE Held(mem, dep, pg, p, j)
  BY <1>2, <1>5 DEF Arrived
<1> QED  BY <1>5, <1>6, <1>7, <1>8 DEF i, b

(* The tree is well formed after VMinitialize.                             *)
LEMMA VMInvInit == Init => VMInv
<1> SUFFICES ASSUME Init  PROVE VMInv  OBVIOUS
<1> DEFINE dep == [f \in Frames |-> IF f = 0 THEN 0 ELSE -1]
           pg == [f \in Frames |-> 0]
<1>1. mem = fill_frame_with_root_value(EmptyMemory, 0) /\ answer = <<>>  BY DEF Init, VMinitialize
<1>2. Settled(mem, dep, pg)  BY <1>1, StartsEmpty
<1> HIDE DEF dep, pg
<1>3. answer \in Answers  BY <1>1 DEF Answers
<1> QED  BY <1>2, <1>3 DEF VMInv

(* Each call leaves it so.                                                 *)
LEMMA VMInvStep ==
  ASSUME VMInv, [HarmlessCalls]_vars
  PROVE  VMInv'
<1>0. answer \in Answers /\ \E dep, pg : Settled(mem, dep, pg)  BY DEF VMInv
<1>1. PICK dep, pg : Settled(mem, dep, pg)  BY <1>0
<1>2. ASSUME NEW a, NEW path \in Harmless, VMread(a, path)  PROVE VMInv'
  <2>1. a \in VirtualAddresses  BY <1>1, <1>2, ReadStep
  <2>2. PICK e, q, f : /\ Arrived(mem, dep, pg, a, mem', e, q, f)
                       /\ answer' = <<1, Word(mem', f, a % PageSize)>>
    BY <1>1, <1>2, ReadStep
  <2>3. Settled(mem', e, q) /\ f \in Frames /\ Holds(e, q, f, Page(a))  BY <2>2 DEF Arrived
  <2>4. Word(mem', f, a % PageSize) \in Contained
    BY <2>1, <2>3, OffsetType DEF Settled, Tree, PagesHeld, Holds
  <2>5. answer' \in Answers  BY <2>2, <2>4 DEF Answers
  <2> QED  BY <2>3, <2>5 DEF VMInv
<1>3. ASSUME NEW a, NEW word \in Data, NEW path \in Harmless, VMwrite(a, word, path)  PROVE VMInv'
  <2>1. answer' = <<1>>  BY <1>1, <1>3, WriteStep
  <2>2. PICK e, q : Settled(mem', e, q)  BY <1>1, <1>3, WriteStepExact
  <2> QED  BY <2>1, <2>2 DEF VMInv, Answers
<1>4. ASSUME NEW a, Refuse(a)  PROVE VMInv'
  BY <1>1, <1>4 DEF Refuse, VMInv, Answers
<1>5. CASE UNCHANGED vars  BY <1>0, <1>5 DEF vars, VMInv
<1> QED  BY <1>2, <1>3, <1>4, <1>5 DEF HarmlessCalls, Calls

(* The inductive invariant holds, for every size of page, RAM and memory.  *)
LEMMA VMInvHolds == HarmlessSpec => []VMInv
<1>1. Init => VMInv  BY VMInvInit
<1>2. VMInv /\ [HarmlessCalls]_vars => VMInv'  BY VMInvStep
<1> QED  BY <1>1, <1>2, PTL DEF HarmlessSpec

-----------------------------------------------------------------------------
(* The memory is made of words, and an answer is 0, 1, or 1 and a word.    *)
THEOREM VMTypeCorrect == HarmlessSpec => []VMTypeOK
<1>1. VMInv => VMTypeOK
  <2> SUFFICES ASSUME VMInv  PROVE VMTypeOK  OBVIOUS
  <2>1. PICK dep, pg : Settled(mem, dep, pg)  BY DEF VMInv
  <2>2. mem \in Memories  BY <2>1 DEF Settled, Tree
  <2>3. mem.swap \in Swaps /\ DOMAIN mem = {"ram", "swap", "ok"} /\ mem.ok = TRUE
        /\ mem.ram \in [RamAddresses -> Data \cup 0 .. NumFrames - 1]
    BY <2>2 DEF Memories, Words, Frames
  <2>4. /\ DOMAIN mem.swap \subseteq Pages
        /\ \A p \in DOMAIN mem.swap : mem.swap[p] \in [Offsets -> Data \cup {0}]
    BY <2>3, SwapType DEF Contained
  <2> QED  BY <2>3, <2>4 DEF VMTypeOK, VMInv, Answers, Contained
<1> QED  BY <1>1, VMInvHolds, PTL

(* No assertion of the physical memory fails, no address being out of RAM  *)
(* and no page swapped out twice, unless a call finds the number of a      *)
(* table in the frame_path it never initialises: nothing else makes one    *)
(* fail, and such a call does (run StalePath).                             *)
THEOREM AssertionsCorrect == HarmlessSpec => []AssertionsHold
<1>1. VMInv => AssertionsHold
  BY DEF VMInv, Settled, Tree, Memories, AssertionsHold
<1> QED  BY <1>1, VMInvHolds, PTL

(* The page tables form a tree: each word of a table refers to a frame of  *)
(* RAM, and no two words to the same one.                                  *)
THEOREM TreeCorrect == HarmlessSpec => []TreeWellFormed
<1>1. VMInv => TreeWellFormed
  <2> SUFFICES ASSUME VMInv  PROVE TreeWellFormed  OBVIOUS
  <2>1. PICK dep, pg : Tree(mem, dep, pg)  BY DEF VMInv, Settled
  <2>2. \A w \in Links(mem) : mem.ram[w.addr] \in Frames  BY <2>1, LinksValue
  <2>3. \A w \in Links(mem) : mem.ram[w.addr] < NumFrames  BY <2>2, Sizes DEF Frames
  <2>4. \A v, w \in Links(mem) : mem.ram[v.addr] = mem.ram[w.addr] => v.addr = w.addr
    BY <2>1, LinksValue
  <2> QED  BY <2>3, <2>4 DEF TreeWellFormed
<1> QED  BY <1>1, VMInvHolds, PTL

(* The frames in use are those of the tree.                                *)
LEMMA FramesInUseValue ==
  ASSUME NEW m, NEW dep, NEW pg, Tree(m, dep, pg)
  PROVE  FramesInUse(m) = Labelled(dep) \ {0}
<1>0. dep \in Labellings /\ \A f \in Frames : dep[f] \in Int /\ (dep[f] = 0 <=> f = 0)
  BY Sizes DEF Tree, Root, Labellings
<1>1. ASSUME NEW w \in Links(m)  PROVE m.ram[w.addr] \in Labelled(dep) \ {0}
  <2> DEFINE g == m.ram[w.addr]
  <2>1. g \in Frames \ {0} /\ dep[g] > 0  BY LinksValue
  <2> HIDE DEF g
  <2>2. g \in Labelled(dep) \ {0}  BY <1>0, <2>1 DEF Labelled
  <2> QED  BY <2>2 DEF g
<1>2. ASSUME NEW g \in Labelled(dep) \ {0}  PROVE g \in FramesInUse(m)
  <2>1. g \in Frames /\ dep[g] > 0  BY <1>0 DEF Labelled
  <2>2. PICK w \in Links(m) : m.ram[w.addr] = g  BY <2>1, LinksValue
  <2> QED  BY <2>2 DEF FramesInUse
<1>3. \A g \in FramesInUse(m) : g \in Labelled(dep) \ {0}  BY <1>1 DEF FramesInUse
<1> QED  BY <1>2, <1>3

(* A frame that is passed over, and lost, is lost to a written word.       *)
THEOREM LostToWordsCorrect == HarmlessSpec => LostToWords
<1> DEFINE written == {mem.ram[w.addr] : w \in {v \in TreeWords(mem) : v.depth = Depth}}
           Lost == \A lost \in 1 .. NumFrames - 1 :
                     /\ \A used \in FramesInUse(mem) : used < lost
                     /\ lost \notin FramesInUse(mem')
                     /\ \E used \in FramesInUse(mem') : lost < used
                     => \E word \in written : lost <= word /\ word + 1 \in FramesInUse(mem')
<1>0. NumFrames \in Nat /\ Depth \in Nat /\ Frames = 0 .. NumFrames - 1 /\ 0 \in Frames
  BY Sizes DEF Frames
<1>1. ASSUME NEW dep, NEW pg, Tree(mem, dep, pg), NEW e, NEW q, Tree(mem', e, q),
             Excused(mem, dep, e)
      PROVE  Lost
  <2>1. FramesInUse(mem) = Labelled(dep) \ {0} /\ FramesInUse(mem') = Labelled(e) \ {0}
    BY <1>1, FramesInUseValue
  <2> SUFFICES ASSUME NEW lost \in 1 .. NumFrames - 1,
                      \A used \in Labelled(dep) \ {0} : used < lost,
                      lost \notin Labelled(e) \ {0},
                      NEW used \in Labelled(e) \ {0}, lost < used
               PROVE  \E word \in written : lost <= word /\ word + 1 \in Labelled(e) \ {0}
    BY <2>1
  <2> HIDE DEF written
  <2>2. lost \in Frames /\ lost \notin Labelled(e) /\ lost > 0  BY <1>0
  <2>3. \A f \in Labelled(dep) : f < lost  BY <2>2
  <2>4. PICK v \in Nat : PassedFor(mem, dep, e, lost, v)  BY <1>1, <2>2, <2>3 DEF Excused
  <2>5. v \in written
    <3>1. PICK f \in Frames, j \in Offsets : dep[f] = Depth /\ Word(mem, f, j) = v
      BY <2>4 DEF PassedFor, PageWord
    <3>2. PICK w \in TreeWords(mem) : w.addr = Addr(f, j)
      BY <1>0, <1>1, <3>1, TreeWordsExact DEF Complete
    <3>3. Addr(f, j) \div PageSize = f  BY AddrOfWord
    <3>4. w.depth = Depth  BY <1>1, <3>1, <3>2, <3>3, TreeWordValue
    <3>5. mem.ram[w.addr] = v  BY <3>1, <3>2 DEF Word
    <3> QED  BY <3>4, <3>5 DEF written
  <2> QED  BY <2>4, <2>5 DEF PassedFor
<1>2. ASSUME VMInv, [HarmlessCalls]_vars  PROVE [Lost]_vars
  <2>1. PICK dep, pg : Settled(mem, dep, pg)  BY <1>2 DEF VMInv
  <2>2. ASSUME NEW e, NEW q, Settled(mem', e, q), Excused(mem, dep, e)  PROVE Lost
    <3>1. Tree(mem, dep, pg) /\ Tree(mem', e, q)  BY <2>1, <2>2 DEF Settled
    <3> HIDE DEF Lost
    <3> QED  BY <1>1, <2>2, <3>1
  <2>3. Excused(mem, dep, dep)  BY <2>1, NothingPassed DEF Settled
  <2> HIDE DEF Lost
  <2>4. ASSUME NEW a, NEW path \in Harmless, VMread(a, path)  PROVE Lost
    <3>1. PICK e, q, f : Arrived(mem, dep, pg, a, mem', e, q, f)  BY <2>1, <2>4, ReadStep
    <3> QED  BY <2>2, <3>1 DEF Arrived
  <2>5. ASSUME NEW a, NEW word \in Data, NEW path \in Harmless, VMwrite(a, word, path)
        PROVE  Lost
    <3>1. PICK e, q : Settled(mem', e, q) /\ Excused(mem, dep, e)  BY <2>1, <2>5, WriteStepExact
    <3> QED  BY <2>2, <3>1
  <2>6. ASSUME NEW a, Refuse(a)  PROVE Lost
    <3>1. mem' = mem  BY <2>6 DEF Refuse
    <3> QED  BY <2>1, <2>2, <2>3, <3>1
  <2> QED  BY <1>2, <2>4, <2>5, <2>6 DEF HarmlessCalls, Calls
<1>3. VMInv /\ [HarmlessCalls]_vars => [Lost]_vars  BY <1>2
<1> QED  BY <1>3, VMInvHolds, PTL DEF HarmlessSpec, LostToWords

(* A page that the search sees in RAM is in a frame of the tree.            *)
LEMMA ResidentValue ==
  ASSUME NEW dep, NEW pg, Tree(mem, dep, pg)
  PROVE  \A p \in Resident : p \in Pages /\ Resides(dep, pg, p)
<1> SUFFICES ASSUME NEW w \in TreeWords(mem), w.depth = Depth
             PROVE  w.p \in Pages /\ Resides(dep, pg, w.p)
  BY DEF Resident
<1> DEFINE f == w.addr \div PageSize
<1>1. f \in Frames /\ dep[f] = Depth /\ pg[f] = w.p  BY TreeWordValue, WordOfAddr
<1> HIDE DEF f
<1>2. pg[f] \in Pages  BY <1>1, PageNumber
<1> QED  BY <1>1, <1>2 DEF Resides, Holds

(* No page is in RAM and in the swap file at once.                         *)
THEOREM OneCopyCorrect == HarmlessSpec => []OneCopy
<1>1. VMInv => OneCopy
  <2> SUFFICES ASSUME VMInv, NEW p \in Resident, p \in DOMAIN mem.swap  PROVE FALSE
    BY DEF OneCopy
  <2>1. PICK dep, pg : Tree(mem, dep, pg)  BY DEF VMInv, Settled
  <2>2. Resides(dep, pg, p)  BY <2>1, ResidentValue
  <2> QED  BY <2>1, <2>2 DEF Resides, Holds, Tree, PagesHeld
<1> QED  BY <1>1, VMInvHolds, PTL

(* A call evicts the pages with the largest numbers: find_cyclic_distance  *)
(* does not measure the distance to the page asked for, since the          *)
(* difference it takes is unsigned.                                        *)
THEOREM EvictsLargestCorrect == HarmlessSpec => EvictsLargest
<1> DEFINE Evicts == \A p \in DOMAIN mem'.swap \ DOMAIN mem.swap :
                        \A q \in Resident \ DOMAIN mem'.swap : q < p
<1>1. ASSUME VMInv, [HarmlessCalls]_vars  PROVE [Evicts]_vars
  <2>1. PICK dep, pg : Settled(mem, dep, pg)  BY <1>1 DEF VMInv
  <2>2. Tree(mem, dep, pg)  BY <2>1 DEF Settled
  <2>3. ASSUME NEW a, NEW e, NEW q, SwappedLast(mem, dep, pg, a, mem', e, q)
        PROVE  Evicts
    BY <2>2, <2>3, ResidentValue DEF SwappedLast
  <2> HIDE DEF Evicts
  <2>4. ASSUME NEW a, NEW path \in Harmless, VMread(a, path)  PROVE Evicts
    <3>1. PICK e, q, f : Arrived(mem, dep, pg, a, mem', e, q, f)  BY <2>1, <2>4, ReadStep
    <3> QED  BY <2>3, <3>1 DEF Arrived
  <2>5. ASSUME NEW a, NEW word \in Data, NEW path \in Harmless, VMwrite(a, word, path)
        PROVE  Evicts
    <3>1. PICK e, q : SwappedLast(mem, dep, pg, a, mem', e, q)  BY <2>1, <2>5, WriteStepExact
    <3> QED  BY <2>3, <3>1
  <2>6. ASSUME NEW a, Refuse(a)  PROVE Evicts  BY <2>6 DEF Refuse, Evicts
  <2> QED  BY <1>1, <2>4, <2>5, <2>6 DEF HarmlessCalls, Calls
<1>2. VMInv /\ [HarmlessCalls]_vars => [Evicts]_vars  BY <1>1
<1> QED  BY <1>2, VMInvHolds, PTL DEF HarmlessSpec, EvictsLargest

-----------------------------------------------------------------------------
(* The frame that the tables lead to is the page's.                        *)
OnWay(dep, pg, a, d, f) == f \in Frames /\ dep[f] = d /\ pg[f] = Prefix(a, d)

Leads(dep, pg, a, d, f) ==
    IF \E g \in Frames : OnWay(dep, pg, a, d, g) THEN OnWay(dep, pg, a, d, f)
    ELSE d > 0 /\ f = 0

NextFrame(m, a, above, d) ==
    IF d > 1 /\ above = 0 THEN 0
    ELSE PMread(m, above * PageSize + split_virtual_address(a)[d - 1])

(* The path that FrameOf follows, as a sequence of frames.                 *)
LEMMA FrameOfRecursive ==
  ASSUME NEW m, NEW a
  PROVE  \E u : /\ FrameOf(m, a) = u[Depth]
                /\ u[0] = 0
                /\ \A d \in Levels : u[d + 1] = NextFrame(m, a, u[d], d + 1)
<1> USE Sizes
<1> DEFINE Step(above, d) == NextFrame(m, a, above, d)
           Body(n, f) == [d \in 0 .. n |-> IF d = 0 THEN 0 ELSE Step(f[d - 1], d)]
           frame == CHOOSE f : f = Body(Depth, f)
           T == {n \in Nat : \E f : f = Body(n, f)}
<1>0. FrameOf(m, a) = frame[Depth]  BY DEF FrameOf, NextFrame
<1> HIDE DEF Step
<1>1. 0 \in T
  <2>1. \E f : f = Body(0, f)
    <3> WITNESS [d \in 0 .. 0 |-> 0]
    <3> QED  OBVIOUS
  <2> QED  BY <2>1
<1>2. ASSUME NEW n \in T  PROVE n + 1 \in T
  <2>1. PICK f : f = Body(n, f)  BY <1>2
  <2> DEFINE h == [d \in 0 .. n + 1 |-> IF d <= n THEN f[d] ELSE Step(f[n], n + 1)]
  <2>2. h = Body(n + 1, h)
    <3>1. \A d \in 0 .. n + 1 : h[d] = Body(n + 1, h)[d]
      <4> TAKE d \in 0 .. n + 1
      <4>0. n \in Nat  BY <1>2
      <4>1. CASE d <= n
        <5>1. d \in 0 .. n /\ h[d] = f[d]  BY <4>0, <4>1
        <5>2. d # 0 => d - 1 \in 0 .. n + 1 /\ d - 1 <= n  BY <4>0, <4>1
        <5> QED  BY <2>1, <5>1, <5>2
      <4>2. CASE d = n + 1
        <5>1. h[d] = Step(f[n], d)  BY <4>0, <4>2
        <5>2. h[d - 1] = f[n] /\ d # 0  BY <4>0, <4>2
        <5> QED  BY <5>1, <5>2
      <4> QED  BY <4>0, <4>1, <4>2
    <3> QED  BY <3>1
  <2> HIDE DEF h
  <2> QED  BY <1>2, <2>2
<1> HIDE DEF T
<1>3. T = Nat  BY <1>1, <1>2, NatSetInduction, T \in SUBSET Nat DEF T
<1>4. Depth \in T  BY <1>3
<1>5. frame = Body(Depth, frame)  BY <1>4 DEF T
<1> HIDE DEF frame
<1>6. frame[0] = 0  BY <1>5
<1>7. \A d \in Levels : frame[d + 1] = Step(frame[d], d + 1)
  <2> TAKE d \in Levels
  <2>1. d + 1 \in 0 .. Depth /\ d + 1 # 0 /\ (d + 1) - 1 = d  BY DEF Levels
  <2> QED  BY <1>5, <2>1
<1> QED  BY <1>0, <1>6, <1>7 DEF Step

(* Each of its steps follows the tree, as long as there is one to follow.  *)
LEMMA NextFrameLeads ==
  ASSUME NEW m, NEW dep, NEW pg, Tree(m, dep, pg), NEW a \in VirtualAddresses,
         NEW d \in Levels, NEW g, Leads(dep, pg, a, d, g)
  PROVE  Leads(dep, pg, a, d + 1, NextFrame(m, a, g, d + 1))
<1> DEFINE i == split_virtual_address(a)[d]
           h == NextFrame(m, a, g, d + 1)
<1>0. /\ d \in Nat /\ d < Depth /\ Depth \in Nat /\ (d + 1) - 1 = d
      /\ (d + 1 > 1 <=> d # 0) /\ d + 1 > 0 /\ i \in Offsets
      /\ Prefix(a, d + 1) = Number(Prefix(a, d), i)
  BY Sizes, PrefixValue DEF Levels, Number
<1>1. CASE \E f \in Frames : OnWay(dep, pg, a, d, f)
  <2>1. g \in Frames /\ dep[g] = d /\ pg[g] = Prefix(a, d)  BY <1>1 DEF Leads, OnWay
  <2>2. ~ (d + 1 > 1 /\ g = 0)  BY <1>0, <2>1 DEF Tree, Root
  <2>3. Addr(g, i) \in RamAddresses  BY <1>0, <2>1, AddrOfWord
  <2>4. h = Word(m, g, i)  BY <1>0, <2>2, <2>3 DEF NextFrame, PMread, Word, Addr
  <2> HIDE DEF h, i
  <2>5. CASE h # 0
    <3>1. Refers(m, dep, pg, g, i)  BY <1>0, <2>1 DEF Tree, Down
    <3>2. OnWay(dep, pg, a, d + 1, h)  BY <1>0, <2>1, <2>4, <2>5, <3>1 DEF Refers, OnWay
    <3>3. h \in Frames  BY <3>2 DEF OnWay
    <3>4. Leads(dep, pg, a, d + 1, h)  BY <3>2, <3>3 DEF Leads
    <3> QED  BY <3>4 DEF h
  <2>6. CASE h = 0
    <3>1. \A f \in Frames : ~ OnWay(dep, pg, a, d + 1, f)
      <4> SUFFICES ASSUME NEW f \in Frames, dep[f] = d + 1, pg[f] = Prefix(a, d + 1)
                   PROVE  FALSE
        BY DEF OnWay
      <4>1. PICK x \in Frames : /\ dep[x] = d /\ pg[x] = Prefix(a, d)
                                /\ Word(m, x, split_virtual_address(a)[d]) = f
        BY ParentOnPath
      <4>2. x = g  BY <1>0, <2>1, <4>1 DEF Tree, Distinct
      <4>3. f = 0  BY <2>4, <2>6, <4>1, <4>2 DEF i
      <4> QED  BY <1>0, <4>3 DEF Tree, Root
    <3> QED  BY <1>0, <2>6, <3>1 DEF Leads, h
  <2> QED  BY <2>5, <2>6
<1>2. CASE \A f \in Frames : ~ OnWay(dep, pg, a, d, f)
  <2>1. d > 0 /\ g = 0  BY <1>2 DEF Leads
  <2>2. h = 0  BY <1>0, <2>1 DEF NextFrame
  <2>3. \A f \in Frames : ~ OnWay(dep, pg, a, d + 1, f)
    <3> SUFFICES ASSUME NEW f \in Frames, dep[f] = d + 1, pg[f] = Prefix(a, d + 1)
                 PROVE  FALSE
      BY DEF OnWay
    <3>1. PICK x \in Frames : dep[x] = d /\ pg[x] = Prefix(a, d)  BY ParentOnPath
    <3> QED  BY <1>2, <3>1 DEF OnWay
  <2> HIDE DEF h
  <2> QED  BY <1>0, <2>2, <2>3 DEF Leads, h
<1> QED  BY <1>1, <1>2

(* The word that the tables and the swap file give is the one the memory   *)
(* holds.                                                                  *)
LEMMA WordAtExact ==
  ASSUME NEW m, NEW dep, NEW pg, Tree(m, dep, pg), NEW a \in VirtualAddresses
  PROVE  WordAt(m, a) = Held(m, dep, pg, Page(a), a % PageSize)
<1> DEFINE i == a % PageSize
           f == FrameOf(m, a)
<1>0. Depth \in Nat /\ Depth > 0 /\ Levels = 0 .. Depth - 1 /\ Depth \in 0 .. Depth
  BY Sizes DEF Levels
<1>1. PICK u : /\ f = u[Depth] /\ u[0] = 0
               /\ \A d \in Levels : u[d + 1] = NextFrame(m, a, u[d], d + 1)
  BY FrameOfRecursive
<1> HIDE DEF f
<1> DEFINE T == {d \in 0 .. Depth : Leads(dep, pg, a, d, u[d])}
<1>2. 0 \in T
  <2>1. 0 \in Frames /\ Prefix(a, 0) = 0  BY WordsType, PrefixValue
  <2>2. OnWay(dep, pg, a, 0, 0)  BY <2>1 DEF Tree, Root, OnWay
  <2>3. Leads(dep, pg, a, 0, 0)  BY <2>1, <2>2 DEF Leads
  <2>4. 0 \in 0 .. Depth  BY <1>0
  <2> QED  BY <1>1, <2>3, <2>4
<1>3. ASSUME NEW d \in 0 .. Depth - 1, d \in T  PROVE d + 1 \in T
  <2>1. d \in Levels /\ d + 1 \in 0 .. Depth /\ Leads(dep, pg, a, d, u[d])  BY <1>0, <1>3
  <2> DEFINE x == u[d]
             y == NextFrame(m, a, x, d + 1)
  <2>2. u[d + 1] = y  BY <1>1, <2>1
  <2> HIDE DEF x
  <2>3. Leads(dep, pg, a, d + 1, y)  BY <2>1, NextFrameLeads DEF x
  <2> QED  BY <2>1, <2>2, <2>3
<1> HIDE DEF T
<1>4. Leads(dep, pg, a, Depth, f)
  <2>1. Depth \in T  BY <1>0, <1>2, <1>3, UpToInduction
  <2> QED  BY <1>1, <2>1 DEF T
<1>5. i \in Offsets /\ Prefix(a, Depth) = Page(a)  BY OffsetType, PrefixValue
<1>6. \A g : OnWay(dep, pg, a, Depth, g) <=> g \in Frames /\ Holds(dep, pg, g, Page(a))
  BY <1>5 DEF OnWay, Holds
<1> HIDE DEF i
<1>7. CASE Resides(dep, pg, Page(a))
  <2>1. f \in Frames /\ Holds(dep, pg, f, Page(a))
    BY <1>4, <1>6, <1>7 DEF Leads, Resides
  <2>2. f # 0  BY <1>0, <2>1 DEF Holds, Tree, Root
  <2>3. Addr(f, i) \in RamAddresses  BY <1>5, <2>1, AddrOfWord
  <2>4. WordAt(m, a) = Word(m, f, i)
    BY <2>2, <2>3 DEF WordAt, PMread, Word, Addr, f, i
  <2>5. Held(m, dep, pg, Page(a), i) = Word(m, f, i)  BY <2>1, HeldIn DEF Tree
  <2> QED  BY <2>4, <2>5 DEF i
<1>8. CASE ~ Resides(dep, pg, Page(a))
  <2>1. f = 0  BY <1>4, <1>6, <1>8 DEF Leads, Resides
  <2>2. Held(m, dep, pg, Page(a), i) = Stored(m, Page(a), i)  BY <1>8 DEF Held, Resides
  <2> QED  BY <2>1, <2>2 DEF WordAt, Stored, f, i
<1> QED  BY <1>7, <1>8

(* A page and an offset determine an address.                              *)
LEMMA AddressesDiffer ==
  ASSUME NEW a \in VirtualAddresses, NEW b \in VirtualAddresses,
         Page(a) = Page(b), a % PageSize = b % PageSize
  PROVE  a = b
<1>1. a \in Nat /\ b \in Nat /\ PageSize \in Nat /\ PageSize > 0  BY Sizes DEF VirtualAddresses
<1>2. ((a \div PageSize) * PageSize) + (a % PageSize) = a  BY <1>1, Quotient
<1>3. ((b \div PageSize) * PageSize) + (b % PageSize) = b  BY <1>1, Quotient
<1> QED  BY <1>2, <1>3 DEF Page

-----------------------------------------------------------------------------
(* What the memory contains is what it holds at the addresses in use.      *)
Usable == Called \cap VirtualAddresses

LEMMA ContentsHeld ==
  /\ \A dep, pg : Settled(mem, dep, pg) =>
       Contents = [a \in Usable |-> Held(mem, dep, pg, Page(a), a % PageSize)]
  /\ \A dep, pg : Settled(mem', dep, pg) =>
       Contents' = [a \in Usable |-> Held(mem', dep, pg, Page(a), a % PageSize)]
<1>1. ASSUME NEW m, NEW dep, NEW pg, Settled(m, dep, pg)
      PROVE  \A a \in Usable : WordAt(m, a) = Held(m, dep, pg, Page(a), a % PageSize)
  <2>1. Tree(m, dep, pg)  BY <1>1 DEF Settled
  <2> QED  BY <2>1, WordAtExact DEF Usable
<1> QED  BY <1>1 DEF Contents, Usable

(* VMread returns the word that the memory contains, and changes nothing   *)
(* of what it contains.                                                    *)
LEMMA ReadReturns ==
  ASSUME VMInv, NEW a \in Called, NEW path \in Harmless, VMread(a, path)
  PROVE  a \in Usable /\ answer' = <<1, Contents[a]>> /\ Contents' = Contents
<1>1. PICK dep, pg : Settled(mem, dep, pg)  BY DEF VMInv
<1>2. PICK e, q, f : /\ Arrived(mem, dep, pg, a, mem', e, q, f)
                     /\ answer' = <<1, Word(mem', f, a % PageSize)>>
  BY <1>1, ReadStep
<1>3. a \in Usable  BY <1>1, ReadStep DEF Usable
<1>4. /\ Settled(mem', e, q) /\ f \in Frames /\ Holds(e, q, f, Page(a))
      /\ \A p \in Pages, j \in Offsets : Held(mem', e, q, p, j) = Held(mem, dep, pg, p, j)
  BY <1>2 DEF Arrived
<1>5. \A b \in Usable : b % PageSize \in Offsets /\ Page(b) \in Pages  BY OffsetType DEF Usable
<1>6. /\ Contents = [b \in Usable |-> Held(mem, dep, pg, Page(b), b % PageSize)]
      /\ Contents' = [b \in Usable |-> Held(mem', e, q, Page(b), b % PageSize)]
  BY <1>1, <1>4, ContentsHeld
<1>7. Contents' = Contents  BY <1>4, <1>5, <1>6
<1>8. Held(mem', e, q, Page(a), a % PageSize) = Word(mem', f, a % PageSize)
  BY <1>4, HeldIn DEF Settled, Tree
<1>9. Contents[a] = Word(mem', f, a % PageSize)  BY <1>3, <1>6, <1>7, <1>8
<1> QED  BY <1>2, <1>3, <1>7, <1>9

(* VMwrite changes the word at its address, and no other.                  *)
LEMMA WriteStores ==
  ASSUME VMInv, NEW a \in Called, NEW word \in Data,
         NEW path \in Harmless, VMwrite(a, word, path)
  PROVE  /\ a \in Usable /\ answer' = <<1>>
         /\ Contents' = [Contents EXCEPT ![a] = word]
<1>1. PICK dep, pg : Settled(mem, dep, pg)  BY DEF VMInv
<1>2. PICK e, q : /\ Settled(mem', e, q)
                  /\ \A p \in Pages, j \in Offsets :
                       Held(mem', e, q, p, j) = IF p = Page(a) /\ j = a % PageSize THEN word
                                                ELSE Held(mem, dep, pg, p, j)
  BY <1>1, WriteStepExact
<1>3. a \in Usable /\ answer' = <<1>>  BY <1>1, WriteStep DEF Usable
<1>4. \A b \in Usable : b % PageSize \in Offsets /\ Page(b) \in Pages  BY OffsetType DEF Usable
<1>5. /\ Contents = [b \in Usable |-> Held(mem, dep, pg, Page(b), b % PageSize)]
      /\ Contents' = [b \in Usable |-> Held(mem', e, q, Page(b), b % PageSize)]
  BY <1>1, <1>2, ContentsHeld
<1>6. \A b \in Usable : Contents'[b] = IF b = a THEN word ELSE Contents[b]
  <2> TAKE b \in Usable
  <2>1. b # a => ~ (Page(b) = Page(a) /\ b % PageSize = a % PageSize)
    BY <1>3, AddressesDiffer DEF Usable
  <2> QED  BY <1>2, <1>4, <1>5, <2>1
<1> QED  BY <1>3, <1>5, <1>6

(* The memory is the flat memory of the header, step by step.              *)
LEMMA FlatStep ==
  ASSUME VMInv, [HarmlessCalls]_vars
  PROVE  [Flat!Next]_(Flat!vars)
<1>1. Contents \in [Usable -> {Contents[a] : a \in Usable}]  BY DEF Contents, Usable
<1>2. ASSUME NEW a \in Called, NEW path \in Harmless, VMread(a, path)  PROVE Flat!Next
  <2>1. a \in Usable /\ answer' = <<1, Contents[a]>> /\ Contents' = Contents  BY <1>2, ReadReturns
  <2> QED  BY <2>1 DEF Flat!Next, Flat!Read, Usable
<1>3. ASSUME NEW a \in Called, NEW word \in Data, NEW path \in Harmless, VMwrite(a, word, path)
      PROVE  Flat!Next
  <2>1. a \in Usable /\ answer' = <<1>> /\ Contents' = [Contents EXCEPT ![a] = word]
    BY <1>3, WriteStores
  <2>2. Contents'[a] = word  BY <1>1, <2>1
  <2> QED  BY <2>1, <2>2 DEF Flat!Next, Flat!Write, Usable
<1>4. ASSUME NEW a \in Called, Refuse(a)  PROVE Flat!Next
  <2>1. answer' = <<0>> /\ a \in Called \ VirtualAddresses /\ mem' = mem
    BY <1>4 DEF Refuse, invalid_address
  <2>2. Contents' = Contents  BY <2>1 DEF Contents
  <2> QED  BY <2>1, <2>2 DEF Flat!Next, Flat!Fail
<1>5. CASE UNCHANGED vars
  <2>1. Contents' = Contents /\ answer' = answer  BY <1>5 DEF vars, Contents
  <2> QED  BY <2>1 DEF Flat!vars
<1> QED  BY <1>2, <1>3, <1>4, <1>5 DEF HarmlessCalls, Calls

(* At first, it is empty.                                                  *)
LEMMA FlatInit == Init => Flat!Init
<1> SUFFICES ASSUME Init  PROVE Flat!Init  OBVIOUS
<1> DEFINE dep == [f \in Frames |-> IF f = 0 THEN 0 ELSE -1]
           pg == [f \in Frames |-> 0]
<1>1. mem = fill_frame_with_root_value(EmptyMemory, 0) /\ answer = <<>>
  BY DEF Init, VMinitialize
<1>2. /\ Settled(mem, dep, pg)
      /\ \A p \in Pages, i \in Offsets : Held(mem, dep, pg, p, i) = 0
  BY <1>1, StartsEmpty
<1> HIDE DEF dep, pg
<1>3. \A a \in VirtualAddresses : WordAt(mem, a) = 0
  BY <1>2, WordAtExact, OffsetType DEF Settled
<1> QED  BY <1>1, <1>3 DEF Flat!Init, Contents

(* The memory is the flat memory that the header promises: whatever moves  *)
(* between RAM and the swap file, each read returns the last word written  *)
(* to its address, or 0, and no call disturbs another address.             *)
THEOREM FlatMemoryImplemented == HarmlessSpec => ImplementsFlatMemory
<1>1. Init => Flat!Init  BY FlatInit
<1>2. VMInv /\ [HarmlessCalls]_vars => [Flat!Next]_(Flat!vars)  BY FlatStep
<1> QED  BY <1>1, <1>2, VMInvHolds, PTL DEF HarmlessSpec, ImplementsFlatMemory, Flat!Spec

-----------------------------------------------------------------------------
(* The programs that use the memory.                                       *)
Program == {"any", "yaara", "simple"}

ProgramInv ==
    /\ program \in Program
    /\ program = "any" => step = 0
    /\ program = "yaara" => YaaraConstants

(* The tests, when no call finds the number of a table in its array.       *)
HarmlessTestSpec == TestInit /\ [][TestCalls(Harmless)]_testVars

(* The calls of SimpleTest.                                                *)
LEMMA SimpleCalls ==
  /\ Len(simple) = 4 * NumFrames /\ DOMAIN simple = 1 .. 4 * NumFrames
  /\ \A i \in 1 .. 2 * NumFrames :
       /\ simple[i] = write(Stride * (i - 1) * PageSize, (i - 1) * 100)
       /\ simple[2 * NumFrames + i] = read(Stride * (i - 1) * PageSize)
<1> DEFINE n == 2 * NumFrames
           Written(i) == write(Stride * (i - 1) * PageSize, (i - 1) * 100)
           Read(i) == read(Stride * (i - 1) * PageSize)
           W == [i \in 1 .. n |-> Written(i)]
           R == [i \in 1 .. n |-> Read(i)]
           S == {Written(i) : i \in 1 .. n} \cup {Read(i) : i \in 1 .. n}
<1>0. n \in Nat /\ n + n = 4 * NumFrames  BY Sizes
<1>1. simple = W \o R  BY DEF simple
<1> HIDE DEF n, Written, Read
<1>2. W \in Seq(S) /\ R \in Seq(S)  BY <1>0
<1>3. Len(W) = n /\ Len(R) = n  BY <1>0
<1>4. \A i \in 1 .. n : W[i] = Written(i) /\ R[i] = Read(i)  OBVIOUS
<1> HIDE DEF W, R, S
<1>5. /\ W \o R \in Seq(S) /\ Len(W \o R) = n + n
      /\ \A i \in 1 .. n + n : (W \o R)[i] = IF i <= n THEN W[i] ELSE R[i - n]
  <2>1. /\ W \o R \in Seq(S) /\ Len(W \o R) = Len(W) + Len(R)
        /\ \A i \in 1 .. Len(W) + Len(R) :
             (W \o R)[i] = IF i <= Len(W) THEN W[i] ELSE R[i - Len(W)]
    BY <1>2, ConcatProperties
  <2> QED  BY <1>3, <2>1
<1>6. DOMAIN (W \o R) = 1 .. n + n  BY <1>5, LenProperties
<1>7. ASSUME NEW i \in 1 .. n
      PROVE  simple[i] = Written(i) /\ simple[n + i] = Read(i)
  <2>1. i \in 1 .. n + n /\ n + i \in 1 .. n + n /\ i <= n /\ ~ (n + i <= n) /\ (n + i) - n = i
    BY <1>0, <1>7
  <2> QED  BY <1>1, <1>5, <1>4, <2>1
<1> QED  BY <1>0, <1>1, <1>5, <1>6, <1>7 DEF n, Written, Read

(* The programs keep to Called and Data.                                   *)
LEMMA ScriptCalls ==
  ASSUME ProgramInv
  PROVE  /\ Len(Script) \in Nat /\ DOMAIN Script = 1 .. Len(Script)
         /\ InScope(Script)
<1>1. CASE program = "any"
  <2>1. Script = <<>>  BY <1>1 DEF Script
  <2> QED  BY <2>1 DEF InScope
<1>2. CASE program = "yaara"
  <2>1. Script = yaara /\ YaaraConstants  BY <1>2 DEF Script, ProgramInv
  <2>2. Len(yaara) = 6 /\ DOMAIN yaara = 1 .. 6  BY DEF yaara
  <2> QED  BY <2>1, <2>2, ScriptsAssumption
<1>3. CASE program = "simple"
  <2>1. Script = simple  BY <1>3 DEF Script
  <2> QED  BY <2>1, SimpleCalls, ScriptsAssumption, Sizes
<1> QED  BY <1>1, <1>2, <1>3 DEF ProgramInv, Program

LEMMA ScriptedCall ==
  ASSUME ProgramInv, NEW n \in 0 .. Len(Script) - 1
  PROVE  /\ Script[n + 1].a \in Called
         /\ Script[n + 1].word # <<>> => Script[n + 1].word[1] \in Data
<1>1. n + 1 \in DOMAIN Script  BY ScriptCalls
<1> QED  BY <1>1, ScriptCalls DEF InScope

(* Whatever they do is what a program that uses the memory may do: what is *)
(* proved of Spec holds of the test programs.                              *)
LEMMA ProgramStep ==
  ASSUME NEW STATE paths, ProgramInv, step \in Nat, [TestCalls(paths)]_testVars
  PROVE  ProgramInv' /\ step' \in Nat /\ [Calls(Called, Data, paths)]_vars
<1>1. CASE AnyCalls(paths)
  <2>1. PICK a \in AnyCalled :
          \/ Refuse(a)
          \/ \E path \in paths :
               VMread(a, path) \/ \E word \in AnyData : VMwrite(a, word, path)
    BY <1>1 DEF AnyCalls, Calls
  <2>2. a \in Called /\ AnyData \subseteq Data  BY TestsAssumption
  <2>3. Calls(Called, Data, paths)  BY <1>1, <2>1, <2>2 DEF AnyCalls, Calls
  <2> QED  BY <1>1, <2>3 DEF AnyCalls, ProgramInv, YaaraConstants
<1>2. CASE Scripted(paths)
  <2> DEFINE call == Script[step + 1]
  <2>1. /\ mem.ok /\ step < Len(Script) /\ step' = step + 1 /\ program' = program
        /\ MakeCall(call, paths)
    BY <1>2 DEF Scripted
  <2>2. step \in 0 .. Len(Script) - 1  BY <2>1, ScriptCalls
  <2>3. call.a \in Called /\ (call.word # <<>> => call.word[1] \in Data)
    BY <2>2, ScriptedCall
  <2> HIDE DEF call
  <2>4. Calls(Called, Data, paths)  BY <2>1, <2>3 DEF MakeCall, Calls
  <2>5. program # "any"
    <3> SUFFICES ASSUME program = "any"  PROVE FALSE  OBVIOUS
    <3>1. Len(Script) = 0  BY DEF Script
    <3> QED  BY <2>1, <3>1
  <2> QED  BY <2>1, <2>2, <2>4, <2>5 DEF ProgramInv, YaaraConstants
<1>3. CASE Done \/ UNCHANGED testVars
  BY <1>3 DEF Done, testVars, ProgramInv, YaaraConstants
<1> QED  BY <1>1, <1>2, <1>3 DEF TestCalls

LEMMA ProgramInvHolds ==
  /\ TestSpec => [](ProgramInv /\ step \in Nat)
  /\ HarmlessTestSpec => [](ProgramInv /\ step \in Nat)
<1>1. TestInit => ProgramInv /\ step \in Nat  BY DEF TestInit, ProgramInv, Program
<1>2. /\ ProgramInv /\ step \in Nat
      /\ [TestCalls(Uninitialised)]_testVars \/ [TestCalls(Harmless)]_testVars
      => (ProgramInv /\ step \in Nat)'
  BY ProgramStep
<1> QED  BY <1>1, <1>2, PTL DEF TestSpec, HarmlessTestSpec

(* What is proved of every program that uses the memory holds of the tests *)
(* (SimpleTest.cpp:8-18, yaara_test/YaaraTest.cpp:58-109), whose runs TLC  *)
(* checks: each of their steps is a call that Spec allows.                 *)
THEOREM TestsUseMemory == (TestSpec => Spec) /\ (HarmlessTestSpec => HarmlessSpec)
<1>1. TestInit => Init  BY DEF TestInit
<1>2. ProgramInv /\ step \in Nat =>
        /\ [TestCalls(Uninitialised)]_testVars => [Next]_vars
        /\ [TestCalls(Harmless)]_testVars => [HarmlessCalls]_vars
  BY ProgramStep DEF Next, HarmlessCalls
<1> QED  BY <1>1, <1>2, ProgramInvHolds, PTL DEF TestSpec, HarmlessTestSpec, Spec, HarmlessSpec

-----------------------------------------------------------------------------
(* What the tests read.                                                    *)
Writes(call, a) == call.a = a /\ call.word # <<>>

(* The last word that the first n calls of a script write to a, or 0.      *)
LastWritten(script, n, a, w) ==
    \/ w = 0 /\ \A i \in 1 .. n : ~ Writes(script[i], a)
    \/ \E i \in 1 .. n :
         /\ Writes(script[i], a) /\ w = script[i].word[1]
         /\ \A j \in i + 1 .. n : ~ Writes(script[j], a)

LEMMA LastWrittenStep ==
  ASSUME NEW script, NEW n \in Nat, NEW a, NEW w
  PROVE  /\ Writes(script[n + 1], a) /\ w = script[n + 1].word[1]
            => LastWritten(script, n + 1, a, w)
         /\ ~ Writes(script[n + 1], a) /\ LastWritten(script, n, a, w)
            => LastWritten(script, n + 1, a, w)
<1>1. ASSUME Writes(script[n + 1], a), w = script[n + 1].word[1]
      PROVE  LastWritten(script, n + 1, a, w)
  <2>1. n + 1 \in 1 .. n + 1 /\ (n + 1) + 1 .. n + 1 = {}  OBVIOUS
  <2> QED  BY <1>1, <2>1 DEF LastWritten
<1>2. ASSUME ~ Writes(script[n + 1], a), LastWritten(script, n, a, w)
      PROVE  LastWritten(script, n + 1, a, w)
  <2>1. \A j \in 1 .. n + 1 : j \in 1 .. n \/ j = n + 1  OBVIOUS
  <2>2. CASE w = 0 /\ \A i \in 1 .. n : ~ Writes(script[i], a)
    BY <1>2, <2>1, <2>2 DEF LastWritten
  <2>3. ASSUME NEW i \in 1 .. n, Writes(script[i], a), w = script[i].word[1],
               \A j \in i + 1 .. n : ~ Writes(script[j], a)
        PROVE  LastWritten(script, n + 1, a, w)
    <3>1. i \in 1 .. n + 1  OBVIOUS
    <3>2. \A j \in i + 1 .. n + 1 : j \in i + 1 .. n \/ j = n + 1  OBVIOUS
    <3>3. \A j \in i + 1 .. n + 1 : ~ Writes(script[j], a)  BY <1>2, <2>3, <3>2
    <3> QED  BY <2>3, <3>1, <3>3 DEF LastWritten
  <2> QED  BY <1>2, <2>2, <2>3 DEF LastWritten
<1> QED  BY <1>1, <1>2

(* The memory contains what the script wrote last, and what was read was   *)
(* there.                                                                  *)
ScriptInv ==
    program # "any" =>
        /\ step \in 0 .. Len(Script)
        /\ \A a \in Usable : LastWritten(Script, step, a, Contents[a])
        /\ step > 0 /\ Script[step].word = <<>> =>
             /\ Script[step].a \in Usable
             /\ answer = <<1, Contents[Script[step].a]>>

LEMMA ScriptInvStep ==
  ASSUME VMInv, ProgramInv, step \in Nat, ScriptInv, [TestCalls(Harmless)]_testVars
  PROVE  ScriptInv'
<1>1. CASE AnyCalls(Harmless)  BY <1>1 DEF AnyCalls, ScriptInv
<1>2. CASE Scripted(Harmless)
  <2> DEFINE call == Script[step + 1]
  <2>1. /\ step < Len(Script) /\ step' = step + 1 /\ program' = program /\ Script' = Script
        /\ MakeCall(call, Harmless)
    BY <1>2 DEF Scripted, Script
  <2>2. step \in 0 .. Len(Script) - 1 /\ step' \in 0 .. Len(Script)  BY <2>1, ScriptCalls
  <2>3. call.a \in Called /\ (call.word # <<>> => call.word[1] \in Data)
    BY <2>2, ScriptedCall
  <2>4. program # "any"
    <3> SUFFICES ASSUME program = "any"  PROVE FALSE  OBVIOUS
    <3>1. Len(Script) = 0  BY DEF Script
    <3> QED  BY <2>1, <3>1
  <2>5. \A a \in Usable : LastWritten(Script, step, a, Contents[a])  BY <2>4 DEF ScriptInv
  <2> HIDE DEF call
  <2>6. CASE call.word = <<>>
    <3>1. PICK path \in Harmless : VMread(call.a, path)  BY <2>1, <2>6 DEF MakeCall
    <3>2. call.a \in Usable /\ answer' = <<1, Contents[call.a]>> /\ Contents' = Contents
      BY <2>3, <3>1, ReadReturns
    <3>3. \A a : ~ Writes(call, a)  BY <2>6 DEF Writes
    <3>4. \A a \in Usable : LastWritten(Script, step + 1, a, Contents'[a])
      BY <2>5, <3>2, <3>3, LastWrittenStep DEF call
    <3> QED  BY <2>1, <2>2, <3>2, <3>4 DEF ScriptInv, call
  <2>7. CASE call.word # <<>>
    <3> DEFINE word == call.word[1]
    <3>1. PICK path \in Harmless : VMwrite(call.a, word, path)  BY <2>1, <2>7 DEF MakeCall
    <3>2. call.a \in Usable /\ Contents' = [Contents EXCEPT ![call.a] = word]
      BY <2>3, <2>7, <3>1, WriteStores
    <3>3. Contents = [a \in Usable |-> Contents[a]]  BY DEF Contents, Usable
    <3>4. \A a \in Usable : LastWritten(Script, step + 1, a, Contents'[a])
      <4> TAKE a \in Usable
      <4>1. CASE a = call.a
        <5>1. Contents'[a] = word  BY <3>2, <3>3, <4>1
        <5>2. Writes(call, a)  BY <2>7, <4>1 DEF Writes
        <5> QED  BY <5>1, <5>2, LastWrittenStep DEF call
      <4>2. CASE a # call.a
        <5>1. Contents'[a] = Contents[a]  BY <3>2, <3>3, <4>2
        <5>2. ~ Writes(call, a)  BY <4>2 DEF Writes
        <5> QED  BY <2>5, <5>1, <5>2, LastWrittenStep DEF call
      <4> QED  BY <4>1, <4>2
    <3> QED  BY <2>1, <2>2, <2>7, <3>4 DEF ScriptInv, call
  <2> QED  BY <2>6, <2>7
<1>3. CASE Done \/ UNCHANGED testVars
  <2>1. /\ Script' = Script /\ step' = step /\ program' = program /\ answer' = answer
        /\ Contents' = Contents
    BY <1>3 DEF Done, testVars, vars, Script, Contents
  <2> QED  BY <2>1 DEF ScriptInv
<1> QED  BY <1>1, <1>2, <1>3 DEF TestCalls

LEMMA ScriptInvHolds == HarmlessTestSpec => []ScriptInv
<1>1. TestInit => ScriptInv
  <2> SUFFICES ASSUME TestInit  PROVE ScriptInv  OBVIOUS
  <2>1. ProgramInv /\ step = 0 /\ Init  BY DEF TestInit, ProgramInv, Program
  <2>2. Flat!Init  BY <2>1, FlatInit
  <2>3. \A a \in Usable : Contents[a] = 0  BY <2>2 DEF Flat!Init, Usable
  <2>4. step \in 0 .. Len(Script)  BY <2>1, ScriptCalls
  <2> QED  BY <2>1, <2>3, <2>4 DEF ScriptInv, LastWritten
<1>2. VMInv /\ (ProgramInv /\ step \in Nat) /\ ScriptInv /\ [TestCalls(Harmless)]_testVars => ScriptInv'
  <2> SUFFICES ASSUME VMInv, ProgramInv, step \in Nat, ScriptInv, [TestCalls(Harmless)]_testVars
               PROVE  ScriptInv'
    OBVIOUS
  <2> QED  BY ScriptInvStep
<1> QED  BY <1>1, <1>2, VMInvHolds, ProgramInvHolds, TestsUseMemory, PTL DEF HarmlessTestSpec

(* Each read of a test returns the last word that the test has written to  *)
(* that address, or 0: YaaraTest.cpp:76, 108 and SimpleTest.cpp:17.        *)
ReadsBack ==
    program # "any" /\ step > 0 /\ Script[step].word = <<>> =>
        \E w : LastWritten(Script, step, Script[step].a, w) /\ answer = <<1, w>>

(* For every size of memory, both tests read what they wrote: no fault,    *)
(* eviction or restored page comes between (YaaraTest.cpp:58-109,          *)
(* SimpleTest.cpp:8-18).                                                   *)
THEOREM TestsReadBack == HarmlessTestSpec => []ReadsBack
<1>1. ScriptInv => ReadsBack  BY DEF ScriptInv, ReadsBack
<1> QED  BY <1>1, ScriptInvHolds, PTL

(* The pages that SimpleTest touches are distinct: no write overrides      *)
(* another (SimpleTest.cpp:13-18).                                         *)
LEMMA SimpleAddresses ==
  ASSUME NEW i \in Nat, NEW j \in Nat, Stride * i * PageSize = Stride * j * PageSize
  PROVE  i = j
<1>1. Stride \in Nat /\ Stride > 0 /\ PageSize \in Nat /\ PageSize > 0
  BY TestsAssumption, Sizes
<1>2. Stride * i \in Nat /\ Stride * j \in Nat  BY <1>1
<1>3. ASSUME NEW x \in Nat, NEW y \in Nat, NEW k \in Nat, k > 0, x < y  PROVE x * k # y * k
  <2>1. (x + 1) * k <= y * k  BY <1>3, TimesMonotone
  <2>2. (x + 1) * k = (x * k) + k /\ x * k \in Nat /\ y * k \in Nat  BY <1>3
  <2> QED  BY <1>3, <2>1, <2>2
<1>4. Stride * i = Stride * j  BY <1>1, <1>2, <1>3
<1>5. Stride * i = i * Stride /\ Stride * j = j * Stride  BY <1>1
<1> QED  BY <1>1, <1>3, <1>4, <1>5

(* So each read of the second half finds what the first half wrote there.  *)
LEMMA SimpleReads ==
  ASSUME ScriptInv, ProgramInv, program # "yaara"
  PROVE  TestsPass
<1>1. CASE program = "simple" /\ step > 2 * NumFrames
  <2> DEFINE n == 2 * NumFrames
             i == step - n
             a == Stride * (i - 1) * PageSize
  <2>1. Script = simple  BY <1>1 DEF Script
  <2>2. Len(simple) = n + n /\ n \in Nat  BY SimpleCalls, Sizes
  <2>3. step \in 0 .. Len(simple)  BY <1>1, <2>1 DEF ScriptInv
  <2>4. i \in 1 .. n /\ n + i = step  BY <1>1, <2>2, <2>3
  <2>5. \A k \in 1 .. n : /\ simple[k] = write(Stride * (k - 1) * PageSize, (k - 1) * 100)
                          /\ simple[n + k] = read(Stride * (k - 1) * PageSize)
    BY SimpleCalls
  <2> HIDE DEF n, i
  <2>6. simple[step] = read(a)  BY <2>4, <2>5
  <2>7. a \in Usable /\ answer = <<1, Contents[a]>>
    BY <1>1, <2>1, <2>4, <2>6, <2>2 DEF ScriptInv, read
  <2> HIDE DEF a
  <2>8. \A k \in 1 .. n : Writes(simple[k], a) => k = i
    <3> SUFFICES ASSUME NEW k \in 1 .. n, Writes(simple[k], a)  PROVE k = i  OBVIOUS
    <3> DEFINE x == Stride * (k - 1) * PageSize
               w == (k - 1) * 100
    <3>0. simple[k] = write(x, w)  BY <2>5
    <3> HIDE DEF x, w
    <3>1. x = a  BY <3>0 DEF Writes, write
    <3>2. k - 1 \in Nat /\ i - 1 \in Nat  BY <2>2, <2>4
    <3>3. k - 1 = i - 1  BY <3>1, <3>2, SimpleAddresses DEF x, a
    <3> QED  BY <2>2, <2>4, <3>3
  <2>9. \A k \in n + 1 .. step : ~ Writes(simple[k], a)
    <3> TAKE k \in n + 1 .. step
    <3>1. k - n \in 1 .. n /\ n + (k - n) = k  BY <2>2, <2>4
    <3>2. simple[k] = read(Stride * ((k - n) - 1) * PageSize)  BY <2>5, <3>1
    <3> QED  BY <3>2 DEF Writes, read
  <2>10. Writes(simple[i], a) /\ simple[i].word[1] = (i - 1) * 100
    <3> DEFINE w == (i - 1) * 100
    <3>1. simple[i] = write(a, w)  BY <2>4, <2>5 DEF a
    <3> HIDE DEF w
    <3>2. simple[i].a = a /\ simple[i].word = <<w>> /\ <<w>> # <<>> /\ <<w>>[1] = w
      BY <3>1 DEF write
    <3> QED  BY <3>2 DEF Writes, w
  <2>11. LastWritten(simple, step, a, Contents[a])
    BY <1>1, <2>1, <2>7 DEF ScriptInv
  <2>12. i \in 1 .. step  BY <2>2, <2>4
  <2>13. \A k \in 1 .. step : Writes(simple[k], a) => k = i
    <3> TAKE k \in 1 .. step
    <3>1. k \in 1 .. n \/ k \in n + 1 .. step  BY <2>2, <2>4
    <3> QED  BY <2>8, <2>9, <3>1
  <2>14. Contents[a] = (i - 1) * 100  BY <2>10, <2>11, <2>12, <2>13 DEF LastWritten
  <2>15. answer = <<1, (step - n - 1) * 100>>  BY <2>7, <2>14 DEF i
  <2> QED  BY <1>1, <2>15 DEF TestsPass, n
<1>2. CASE ~ (program = "simple" /\ step > 2 * NumFrames)  BY <1>2 DEF TestsPass
<1> QED  BY <1>1, <1>2

(* SimpleTest reads back what it wrote to twice as many pages as there are *)
(* frames, for every number of frames and size of page                     *)
(* (SimpleTest.cpp:13-18).  The pages it touches are distinct: no write    *)
(* overrides another.                                                      *)
THEOREM SimpleTestCorrect == HarmlessTestSpec => [](program # "yaara" => TestsPass)
<1>1. ScriptInv /\ ProgramInv => (program # "yaara" => TestsPass)  BY SimpleReads
<1> QED  BY <1>1, ScriptInvHolds, ProgramInvHolds, PTL
=============================================================================
