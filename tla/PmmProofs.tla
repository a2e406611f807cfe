----------------------------- MODULE PmmProofs -----------------------------
(***************************************************************************)
(* For every address size, page size, memory map and list of modules: the  *)
(* bitmap keeps its type through pmm_initialize, it implements a page      *)
(* allocator that never hands out a page twice, nor page 0, with a map of  *)
(* whole pages it hands out spare memory only, and initialisation ends     *)
(* only when no loop's address wraps around.                               *)
(***************************************************************************)
EXTENDS Pmm, SequenceTheorems, TLAPS

-----------------------------------------------------------------------------
(* Arithmetic of addresses.                                                 *)

(* The remainder of a number less than twice the divisor.                   *)
LEMMA ModOnce ==
  ASSUME NEW n \in Nat \ {0}, NEW k \in Nat, k < 2 * n
  PROVE  k % n = IF k < n THEN k ELSE k - n
  OBVIOUS

(* There is a page 0.                                                       *)
LEMMA PageZero == 0 \in Page /\ Page \subseteq Nat
<1>1. ASSUME NEW w \in Nat \ {0}, NEW s \in Nat \ {0}, w % s = 0
      PROVE  w \div s \in Nat /\ w \div s # 0
  BY <1>1
<1>2. WordSize \div PageSize \in Nat /\ WordSize \div PageSize # 0
  BY <1>1, PmmAssumption
<1>3. PICK n \in Nat : n = WordSize \div PageSize
  BY <1>2
<1>4. QED
  BY <1>2, <1>3 DEF Page

(* A machine word is an address.                                            *)
LEMMA WordIs ==
  ASSUME NEW n \in Nat
  PROVE  Word(n) \in Address
<1>1. ASSUME NEW w \in Nat \ {0}, NEW m \in Nat
      PROVE  m % w \in 0 .. w - 1
  OBVIOUS
<1>2. QED
  BY <1>1, PmmAssumption DEF Word, Address

(* A sum that leaves the address space once wraps around once.              *)
LEMMA WordWraps ==
  ASSUME NEW n \in Nat, n < 2 * WordSize
  PROVE  Word(n) = IF n < WordSize THEN n ELSE n - WordSize
<1>1. WordSize \in Nat \ {0}
  BY PmmAssumption
<1>2. QED
  BY <1>1, ModOnce DEF Word

LEMMA AddressIs ==
  /\ Address \subseteq Nat
  /\ 0 \in Address
  /\ KernelStart \in Address
  BY PmmAssumption DEF Address

(* The loops' address stays a word when a page is added to it.              *)
LEMMA NextAddress ==
  ASSUME NEW a \in Address
  PROVE  Word(a + PageSize) \in Address
<1>1. a + PageSize \in Nat
  BY AddressIs, PmmAssumption
<1>2. QED
  BY <1>1, WordIs

-----------------------------------------------------------------------------
(* The map and the modules never change.                                    *)
BootInv == /\ map \in Maps
           /\ mods \in ModuleLists
           /\ pc = "map" => idx >= 1
           /\ pc = "clear" => idx \in 1..Len(map)
           /\ pc = "mods" => idx \in 1..Len(mods)

(* Before the allocator is ready nothing has been handed out; afterwards a  *)
(* page handed out, and page 0, are taken.                                  *)
OwnedInv == /\ pc # "ready" => owned = {} /\ got = 0
            /\ pc = "ready" => bitmap[0] = 1
            /\ 0 \notin owned
            /\ \A p \in owned : bitmap[p] = 1

IInv == TypeOK /\ BootInv /\ OwnedInv

LEMMA InvInit == Init => IInv
<1> SUFFICES ASSUME Init
             PROVE  IInv
  OBVIOUS
<1>1. TypeOK
  BY PageZero, AddressIs DEF Init, TypeOK
<1>2. QED
  BY <1>1 DEF Init, IInv, BootInv, OwnedInv

(* The fields the loops read.                                               *)
LEMMA RegionIs ==
  ASSUME BootInv, NEW i \in 1..Len(map)
  PROVE  RegionStart(map[i]) \in Address /\ RegionEnd(map[i]) \in Address
<1>1. map \in Seq(MapEntry)
  BY PmmAssumption DEF BootInv
<1>2. map[i] \in MapEntry
  BY <1>1, ElementOfSeq
<1>3. map[i].base \in Nat /\ map[i].len \in Nat
  BY <1>2 DEF MapEntry
<1>4. Word(map[i].base) + Word(map[i].len) \in Nat
  <2>1. PICK b \in Nat, l \in Nat : b = Word(map[i].base) /\ l = Word(map[i].len)
    BY <1>3, WordIs, AddressIs
  <2>2. QED
    BY <2>1
<1>5. QED
  BY <1>3, <1>4, WordIs DEF RegionStart, RegionEnd

LEMMA ModuleIs ==
  ASSUME BootInv, NEW i \in 1..Len(mods)
  PROVE  mods[i].start \in Address /\ mods[i].end \in Address
<1>1. mods \in Seq(ModuleEntry)
  BY PmmAssumption DEF BootInv
<1>2. mods[i] \in ModuleEntry
  BY <1>1, ElementOfSeq
<1>3. QED
  BY <1>2 DEF ModuleEntry, Address

LEMMA InvStep == IInv /\ [Next]_vars => IInv'
<1> SUFFICES ASSUME IInv, [Next]_vars
             PROVE  IInv'
  OBVIOUS
<1> USE DEF IInv, boot
<1>0. Len(map) \in Nat /\ Len(mods) \in Nat
  BY PmmAssumption DEF BootInv
<1>1. CASE MarkAll
  BY <1>1, AddressIs DEF MarkAll, TypeOK, BootInv, OwnedInv
<1>2. CASE NextRegion
  <2>1. idx \in 1..Len(map)
    BY <1>0, <1>2 DEF NextRegion, TypeOK, BootInv
  <2>2. RegionStart(map[idx]) \in Address
    BY <2>1, RegionIs
  <2>3. QED
    BY <1>2, <2>1, <2>2 DEF NextRegion, TypeOK, BootInv, OwnedInv
<1>3. CASE ClearPage
  BY <1>3, NextAddress DEF ClearPage, TypeOK, BootInv, OwnedInv
<1>4. CASE RegionDone
  BY <1>4 DEF RegionDone, TypeOK, BootInv, OwnedInv
<1>5. CASE MapDone
  BY <1>5, AddressIs DEF MapDone, TypeOK, BootInv, OwnedInv
<1>6. CASE SetKernel
  BY <1>6, NextAddress DEF SetKernel, TypeOK, BootInv, OwnedInv
<1>7. CASE KernelDone
  <2>1. CASE mods = <<>>
    BY <1>7, <2>1 DEF KernelDone, TypeOK, BootInv, OwnedInv
  <2>2. CASE mods # <<>>
    <3>1. 1 \in 1..Len(mods)
      BY <1>0, <2>2, PmmAssumption, EmptySeq DEF BootInv
    <3>2. QED
      BY <1>7, <2>2, <3>1, ModuleIs DEF KernelDone, TypeOK, BootInv, OwnedInv
  <2>3. QED
    BY <2>1, <2>2
<1>8. CASE SetModule
  BY <1>8, NextAddress DEF SetModule, TypeOK, BootInv, OwnedInv
<1>9. CASE ModuleDone
  <2>1. CASE idx < Len(mods)
    <3>1. idx + 1 \in 1..Len(mods)
      BY <1>0, <1>9, <2>1 DEF ModuleDone, BootInv
    <3>2. QED
      BY <1>9, <2>1, <3>1, ModuleIs DEF ModuleDone, TypeOK, BootInv, OwnedInv
  <2>2. CASE ~(idx < Len(mods))
    BY <1>9, <2>2 DEF ModuleDone, TypeOK, BootInv, OwnedInv
  <2>3. QED
    BY <2>1, <2>2
<1>10. CASE SetZero
  BY <1>10, PageZero DEF SetZero, TypeOK, BootInv, OwnedInv
<1>11. ASSUME NEW p \in Page, AllocPage(p)
       PROVE  IInv'
  <2>1. pc = "ready" /\ bitmap[p] = 0
    BY <1>11 DEF AllocPage, FirstFree
  <2>2. p # 0
    BY <2>1 DEF OwnedInv
  <2>3. TypeOK'
    BY <1>11 DEF AllocPage, TypeOK
  <2>4. BootInv'
    BY <1>11 DEF AllocPage, BootInv
  <2>5. OwnedInv'
    BY <1>11, <2>1, <2>2, PageZero DEF AllocPage, TypeOK, OwnedInv
  <2>6. QED
    BY <2>3, <2>4, <2>5
<1>12. ASSUME NEW p \in Page, FreePage(p)
       PROVE  IInv'
  <2>1. TypeOK'
    BY <1>12 DEF FreePage, TypeOK
  <2>2. BootInv'
    BY <1>12 DEF FreePage, BootInv
  <2>3. OwnedInv'
    BY <1>12, PageZero DEF FreePage, TypeOK, OwnedInv
  <2>4. QED
    BY <2>1, <2>2, <2>3
<1>13. CASE OutOfMemory
  BY <1>13, PageZero DEF OutOfMemory, TypeOK, BootInv, OwnedInv
<1>14. CASE UNCHANGED vars
  BY <1>14 DEF vars, TypeOK, BootInv, OwnedInv
<1>15. QED
  BY <1>1, <1>2, <1>3, <1>4, <1>5, <1>6, <1>7, <1>8, <1>9, <1>10, <1>11,
     <1>12, <1>13, <1>14 DEF Next, Initialise

LEMMA InvAlways == Spec => []IInv
<1>1. Init => IInv
  BY InvInit
<1>2. IInv /\ [Next]_vars => IInv'
  BY InvStep
<1>3. QED
  BY <1>1, <1>2, PTL DEF Spec

(* No loop of pmm_initialize leaves the address space or the lists it       *)
(* walks, and the bitmap stays a bitmap.                                    *)
THEOREM TypeCorrect == Spec => []TypeOK
<1>1. IInv => TypeOK
  BY DEF IInv
<1>2. QED
  BY <1>1, InvAlways, PTL

-----------------------------------------------------------------------------
(* The bitmap implements the allocator.                                     *)

LEMMA Simulation ==
  ASSUME IInv, IInv', [Next]_vars
  PROVE  [Allocator!Next]_(Allocator!vars)
<1> USE DEF IInv, boot, Allocator!vars
<1> DEFINE Free == {p \in Page : bitmap[p] = 0}
           Same == UNCHANGED Allocator!vars
<1>1. CASE MarkAll
  BY <1>1 DEF MarkAll
<1>2. CASE NextRegion
  BY <1>2 DEF NextRegion
<1>3. CASE ClearPage
  BY <1>3 DEF ClearPage
<1>4. CASE RegionDone
  BY <1>4 DEF RegionDone
<1>5. CASE MapDone
  BY <1>5 DEF MapDone
<1>6. CASE SetKernel
  BY <1>6 DEF SetKernel
<1>7. CASE KernelDone
  BY <1>7 DEF KernelDone
<1>8. CASE SetModule
  BY <1>8 DEF SetModule
<1>9. CASE ModuleDone
  BY <1>9 DEF ModuleDone
<1>10. CASE SetZero
  <2>1. pc = "zero" /\ pc' = "ready" /\ owned' = owned /\ got' = got
    BY <1>10 DEF SetZero
  <2>2. bitmap'[0] = 1
    BY <2>1 DEF OwnedInv
  <2>3. Free' \in SUBSET (Page \ {0})
    BY <2>2
  <2>4. Allocator!Open
    BY <2>1, <2>3 DEF Allocator!Open
  <2>5. QED
    BY <2>4 DEF Allocator!Next
<1>11. ASSUME NEW p \in Page, AllocPage(p)
       PROVE  Allocator!Next
  <2>1. p \in Free /\ pc = "ready" /\ pc' = "ready"
    BY <1>11 DEF AllocPage, FirstFree
  <2>2. Free' = Free \ {p}
    BY <1>11 DEF AllocPage, TypeOK
  <2>3. Allocator!Allocate(p)
    BY <1>11, <2>1, <2>2 DEF AllocPage, Allocator!Allocate
  <2>4. QED
    BY <2>3 DEF Allocator!Next
<1>12. ASSUME NEW p \in Page, FreePage(p)
       PROVE  Allocator!Next
  <2>1. Free' = Free \cup {p}
    BY <1>12 DEF FreePage, TypeOK
  <2>2. Allocator!Release(p)
    BY <1>12, <2>1 DEF FreePage, Allocator!Release
  <2>3. QED
    BY <2>2 DEF Allocator!Next
<1>13. CASE OutOfMemory
  <2>1. Free = {}
    BY <1>13 DEF OutOfMemory
  <2>2. Allocator!Exhausted
    BY <1>13, <2>1 DEF OutOfMemory, Allocator!Exhausted
  <2>3. QED
    BY <2>2 DEF Allocator!Next
<1>14. CASE UNCHANGED vars
  BY <1>14 DEF vars
<1>15. QED
  BY <1>1, <1>2, <1>3, <1>4, <1>5, <1>6, <1>7, <1>8, <1>9, <1>10, <1>11,
     <1>12, <1>13, <1>14 DEF Next, Initialise

(* pmm_alloc_page and pmm_free_page, called with pages it handed out, never *)
(* give a page to two owners, never give out page 0, and answer 0 only when *)
(* every page is taken.                                                     *)
THEOREM Refinement == Spec => ImplementsAllocator
<1>1. Init => Allocator!Init
  BY DEF Init, Allocator!Init
<1>2. IInv /\ IInv' /\ [Next]_vars => [Allocator!Next]_(Allocator!vars)
  BY Simulation
<1>3. QED
  BY <1>1, <1>2, InvAlways, PTL DEF Spec, ImplementsAllocator, Allocator!Spec
-----------------------------------------------------------------------------
(* Only spare memory is handed out, if the map is made of whole pages.      *)

Aligned(a) == a % PageSize = 0

\* Available regions are whole pages of the address space that no other
\* region claims, and the kernel and the modules begin with a page.
WholePages ==
  /\ \A m \in Maps : \A i \in DOMAIN m :
       m[i].type = Available =>
         /\ Aligned(m[i].base) /\ Aligned(m[i].base + m[i].len)
         /\ m[i].base + m[i].len <= WordSize
         /\ \A j \in DOMAIN m, a \in Address :
              /\ m[j].type # Available
              /\ Covers(m[i].base, m[i].base + m[i].len, a)
              => ~Covers(m[j].base, m[j].base + m[j].len, a)
  /\ Aligned(KernelStart)
  /\ \A l \in ModuleLists : \A i \in DOMAIN l : Aligned(l[i].start)

(* An aligned address is the first of its page, and the last page ends      *)
(* where the address space does.                                            *)
LEMMA AlignedIs ==
  ASSUME NEW a \in Nat, Aligned(a)
  PROVE  PageOf(a) \in Nat /\ a = PageOf(a) * PageSize
<1>1. ASSUME NEW s \in Nat \ {0}, NEW n \in Nat, n % s = 0
      PROVE  n \div s \in Nat /\ n = (n \div s) * s
  BY <1>1
<1>2. QED
  BY <1>1, PmmAssumption DEF Aligned, PageOf

LEMMA WordSizeIs ==
  /\ WordSize \div PageSize \in Nat
  /\ WordSize = (WordSize \div PageSize) * PageSize
<1>1. Aligned(WordSize) /\ WordSize \in Nat
  BY PmmAssumption DEF Aligned
<1>2. QED
  BY <1>1, AlignedIs DEF PageOf

(* Multiplication keeps the order of pages.                                 *)
LEMMA PagesInOrder ==
  ASSUME NEW p \in Nat, NEW q \in Nat, p < q
  PROVE  p * PageSize \in Nat /\ p * PageSize + PageSize <= q * PageSize
<1>1. ASSUME NEW s \in Nat, NEW d \in Nat
      PROVE  d * s \in Nat /\ (p + 1 + d) * s = p * s + s + d * s /\ p * s \in Nat
  OBVIOUS
<1>2. PICK d \in Nat : q = p + 1 + d
  <2>1. q - p - 1 \in Nat /\ q = p + 1 + (q - p - 1)
    OBVIOUS
  <2>2. QED
    BY <2>1
<1>3. PageSize \in Nat
  BY PmmAssumption
<1>4. d * PageSize \in Nat /\ p * PageSize \in Nat
      /\ q * PageSize = p * PageSize + PageSize + d * PageSize
  BY <1>1, <1>2, <1>3
<1>5. QED
  BY <1>3, <1>4

LEMMA BytesAre ==
  ASSUME NEW p \in Page, NEW a \in PageBytes(p)
  PROVE  /\ p \in Nat /\ p * PageSize \in Nat /\ a \in Address
         /\ p * PageSize <= a /\ a < p * PageSize + PageSize
<1>1. p \in Nat /\ PageSize \in Nat \ {0}
  BY PageZero, PmmAssumption
<1>2. p * PageSize \in Nat
  BY <1>1
<1>3. PICK i \in 0 .. PageSize - 1 : a = p * PageSize + i
  BY DEF PageBytes
<1>4. a \in Nat /\ p * PageSize <= a /\ a < p * PageSize + PageSize
  BY <1>1, <1>2, <1>3
<1>5. p < WordSize \div PageSize
  BY WordSizeIs DEF Page
<1>6. p * PageSize + PageSize <= WordSize
  BY <1>1, <1>5, WordSizeIs, PagesInOrder
<1>7. QED
  BY <1>1, <1>2, <1>4, <1>6, PmmAssumption DEF Address

(* A byte from an aligned address on, in another page, is beyond the page.  *)
LEMMA OtherPage ==
  ASSUME NEW b \in Address, Aligned(b),
         NEW p \in Page, p # PageOf(b), NEW a \in PageBytes(p), b <= a
  PROVE  b + PageSize <= a
<1>1. b \in Nat /\ PageSize \in Nat
  BY AddressIs, PmmAssumption
<1>2. PageOf(b) \in Nat /\ b = PageOf(b) * PageSize
  BY <1>1, AlignedIs
<1>3. /\ p \in Nat /\ p * PageSize \in Nat /\ a \in Nat
      /\ p * PageSize <= a /\ a < p * PageSize + PageSize
  BY BytesAre, AddressIs
<1>4. CASE p < PageOf(b)
  <2>1. p * PageSize + PageSize <= b
    BY <1>2, <1>3, <1>4, PagesInOrder
  <2>2. QED
    BY <1>1, <1>3, <2>1
<1>5. CASE PageOf(b) < p
  <2>1. b + PageSize <= p * PageSize
    BY <1>2, <1>3, <1>5, PagesInOrder
  <2>2. QED
    BY <1>1, <1>3, <2>1
<1>6. QED
  BY <1>2, <1>3, <1>4, <1>5

(* The next page is aligned; it is the one behind or, after the last, the   *)
(* first.                                                                   *)
LEMMA NextPage ==
  ASSUME NEW b \in Address, Aligned(b)
  PROVE  /\ Aligned(Word(b + PageSize))
         /\ \/ Word(b + PageSize) = b + PageSize
            \/ b + PageSize = WordSize /\ Word(b + PageSize) = 0
<1>1. b \in Nat /\ PageSize \in Nat \ {0} /\ WordSize \in Nat \ {0} /\ b < WordSize
  BY AddressIs, PmmAssumption DEF Address
<1>2. PageOf(b) \in Nat /\ b = PageOf(b) * PageSize
  BY <1>1, AlignedIs
<1>3. PageOf(b) < WordSize \div PageSize
  <2>1. SUFFICES ASSUME ~(PageOf(b) < WordSize \div PageSize)
                 PROVE  FALSE
    OBVIOUS
  <2>2. CASE PageOf(b) = WordSize \div PageSize
    BY <1>1, <1>2, <2>2, WordSizeIs
  <2>3. CASE WordSize \div PageSize < PageOf(b)
    <3>1. WordSize <= b
      BY <1>1, <1>2, <2>3, WordSizeIs, PagesInOrder
    <3>2. QED
      BY <1>1, <3>1
  <2>4. QED
    BY <1>2, <2>1, <2>2, <2>3, WordSizeIs
<1>4. b + PageSize <= WordSize
  BY <1>2, <1>3, WordSizeIs, PagesInOrder
<1>6. Word(b + PageSize) = IF b + PageSize = WordSize THEN 0 ELSE b + PageSize
  <2>1. PICK n \in Nat : n = b + PageSize
    BY <1>1
  <2>2. n <= WordSize /\ n < 2 * WordSize
    BY <1>1, <1>4, <2>1
  <2>3. Word(n) = IF n < WordSize THEN n ELSE n - WordSize
    BY <2>2, WordWraps
  <2>4. QED
    BY <1>1, <2>1, <2>2, <2>3
<1>7. ASSUME NEW s \in Nat \ {0}, NEW n \in Nat, n % s = 0
      PROVE  (n + s) % s = 0 /\ 0 % s = 0
  <2>1. n = (n \div s) * s /\ n \div s \in Nat
    BY <1>7
  <2>2. PICK k \in Nat : n = k * s
    BY <2>1
  <2>3. n + s = (k + 1) * s /\ k + 1 \in Nat
    BY <2>2
  <2>4. \A j \in Nat : (j * s) % s = 0
    OBVIOUS
  <2>5. (n + s) % s = 0
    BY <2>3, <2>4
  <2>6. QED
    BY <2>5
<1>8. QED
  BY <1>1, <1>6, <1>7 DEF Aligned

-----------------------------------------------------------------------------
\* What is known of a byte of a free page as the loops go on: the kernel's
\* and the modules' bytes behind the loop's address are no longer free.
Ram(a) ==
  /\ \E i \in DOMAIN map : /\ map[i].type = Available
                           /\ Covers(map[i].base, map[i].base + map[i].len, a)
  /\ \A i \in DOMAIN map :
       map[i].type # Available =>
         ~Covers(map[i].base, map[i].base + map[i].len, a)

KernelAhead(a) ==
  Covers(KernelStart, KernelEnd, a) =>
    pc \in {"map", "clear"} \/ (pc = "kernel" /\ addr <= a)

ModulesAhead(a) ==
  \A i \in DOMAIN mods :
    Covers(mods[i].start, mods[i].end, a) =>
      \/ pc \in {"map", "clear", "kernel"}
      \/ pc = "mods" /\ (idx < i \/ (idx = i /\ addr <= a))

SpareSoFar(a) == Ram(a) /\ KernelAhead(a) /\ ModulesAhead(a)

SpareInv ==
  pc # "start" =>
    \A p \in Page : bitmap[p] = 0 \/ p \in owned =>
      \A a \in PageBytes(p) : SpareSoFar(a)

\* The loops walk along the beginnings of pages.
WalkInv == /\ pc \in {"clear", "kernel", "mods"} => Aligned(addr)
           /\ pc = "clear" => /\ map[idx].type = Available
                              /\ RegionEnd(map[idx]) # 0 => map[idx].base <= addr

MInv == IInv /\ SpareInv /\ WalkInv

(* An available region's loop runs over the region, or not at all when the  *)
(* region ends where the address space does.                                *)
LEMMA WholeRegion ==
  ASSUME WholePages, BootInv, NEW i \in 1..Len(map), map[i].type = Available
  PROVE  /\ map[i].base \in Nat /\ map[i].len \in Nat
         /\ Aligned(RegionStart(map[i])) /\ Aligned(map[i].base + map[i].len)
         /\ \/ /\ map[i].base + map[i].len < WordSize
               /\ RegionStart(map[i]) = map[i].base
               /\ RegionEnd(map[i]) = map[i].base + map[i].len
            \/ RegionEnd(map[i]) = 0
<1>1. map \in Seq(MapEntry) /\ map \in Maps
  BY PmmAssumption DEF BootInv
<1>2. map[i] \in MapEntry
  BY <1>1, ElementOfSeq
<1>3. PICK b \in Nat, l \in Nat : b = map[i].base /\ l = map[i].len
  BY <1>2 DEF MapEntry
<1>4. Aligned(b) /\ Aligned(b + l) /\ b + l <= WordSize
  BY <1>1, <1>3 DEF WholePages
<1>6. WordSize \in Nat \ {0}
  BY PmmAssumption
<1>7. \A n \in Nat : n <= WordSize => Word(n) = IF n < WordSize THEN n ELSE 0
  <2>1. TAKE n \in Nat
  <2>2. HAVE n <= WordSize
  <2>3. n < 2 * WordSize
    BY <1>6, <2>2
  <2>4. Word(n) = IF n < WordSize THEN n ELSE n - WordSize
    BY <2>3, WordWraps
  <2>5. QED
    BY <1>6, <2>2, <2>4
<1>8. Aligned(0)
  <2>1. \A s \in Nat \ {0} : 0 % s = 0
    OBVIOUS
  <2>2. QED
    BY <2>1, PmmAssumption DEF Aligned
<1>9. RegionStart(map[i]) = IF b < WordSize THEN b ELSE 0
  BY <1>3, <1>4, <1>6, <1>7 DEF RegionStart
<1>10. RegionEnd(map[i]) = IF b + l < WordSize THEN b + l ELSE 0
  <2>1. Word(b) + Word(l) <= WordSize /\ Word(b) + Word(l) \in Nat
    BY <1>4, <1>6, <1>7
  <2>2. CASE b + l < WordSize
    BY <1>3, <1>6, <1>7, <2>2 DEF RegionEnd
  <2>3. CASE b + l = WordSize
    <3>1. Word(b) + Word(l) \in {0, WordSize}
      BY <1>6, <1>7, <2>3
    <3>2. Word(Word(b) + Word(l)) = 0
      BY <1>6, <1>7, <3>1
    <3>3. QED
      BY <1>3, <1>6, <2>3, <3>2 DEF RegionEnd
  <2>4. QED
    BY <1>4, <1>6, <2>2, <2>3
<1>11. CASE b + l < WordSize
  BY <1>3, <1>4, <1>6, <1>9, <1>10, <1>11
<1>12. CASE ~(b + l < WordSize)
  BY <1>3, <1>4, <1>6, <1>8, <1>9, <1>10, <1>12
<1>13. QED
  BY <1>11, <1>12

(* The page a region's loop frees is the region's, to its last byte, and no *)
(* other region's.                                                          *)
LEMMA ClearedIsRam ==
  ASSUME WholePages, IInv, WalkInv, ClearPage, NEW a \in PageBytes(PageOf(addr))
  PROVE  /\ Ram(a)
         /\ Aligned(Word(addr + PageSize))
         /\ Word(addr + PageSize) = addr + PageSize
<1>1. idx \in 1..Len(map) /\ addr \in Address /\ Aligned(addr)
      /\ pc = "clear" /\ addr < RegionEnd(map[idx])
  BY DEF IInv, TypeOK, BootInv, WalkInv, ClearPage, InRegion
<1>2. map[idx].type = Available /\ map[idx].base <= addr
  <2>1. RegionEnd(map[idx]) # 0
    BY <1>1 DEF Address
  <2>2. QED
    BY <1>1, <2>1 DEF WalkInv
<1> DEFINE b == map[idx].base
           e == map[idx].base + map[idx].len
<1>3. /\ b \in Nat /\ e \in Nat /\ Aligned(e)
      /\ RegionEnd(map[idx]) \in {0, e} /\ (e < WordSize \/ RegionEnd(map[idx]) = 0)
  BY <1>1, <1>2, WholeRegion DEF IInv
<1>4. addr \in Nat /\ PageSize \in Nat \ {0} /\ WordSize \in Nat
  BY <1>1, AddressIs, PmmAssumption
<1> HIDE DEF b, e
<1>5. addr < e /\ e < WordSize
  BY <1>1, <1>3, <1>4
<1>6. PageOf(addr) \in Nat /\ addr = PageOf(addr) * PageSize
  BY <1>1, <1>4, AlignedIs
<1>7. PageOf(e) \in Nat /\ e = PageOf(e) * PageSize
  BY <1>3, AlignedIs
<1>8. PageOf(addr) < PageOf(e)
  <2>1. SUFFICES ASSUME ~(PageOf(addr) < PageOf(e))
                 PROVE  FALSE
    OBVIOUS
  <2>2. CASE PageOf(addr) = PageOf(e)
    BY <1>5, <1>6, <1>7, <2>2, <1>4
  <2>3. CASE PageOf(e) < PageOf(addr)
    <3>1. e + PageSize <= addr
      BY <1>6, <1>7, <2>3, PagesInOrder
    <3>2. QED
      BY <1>3, <1>4, <1>5, <3>1
  <2>4. QED
    BY <1>6, <1>7, <2>1, <2>2, <2>3
<1>9. addr + PageSize <= e
  BY <1>6, <1>7, <1>8, PagesInOrder
<1>10. Word(addr + PageSize) = addr + PageSize /\ Aligned(Word(addr + PageSize))
  BY <1>1, <1>3, <1>4, <1>5, <1>9, NextPage
<1>11. PageOf(addr) < WordSize \div PageSize
  <2>1. SUFFICES ASSUME ~(PageOf(addr) < WordSize \div PageSize)
                 PROVE  FALSE
    OBVIOUS
  <2>2. CASE PageOf(addr) = WordSize \div PageSize
    BY <1>4, <1>5, <1>6, <1>3, <2>2, WordSizeIs
  <2>3. CASE WordSize \div PageSize < PageOf(addr)
    <3>1. WordSize + PageSize <= addr
      BY <1>6, <2>3, WordSizeIs, PagesInOrder
    <3>2. QED
      BY <1>3, <1>4, <1>5, <3>1
  <2>4. QED
    BY <1>6, <2>1, <2>2, <2>3, WordSizeIs
<1>12. PageOf(addr) \in Page
  BY <1>6, <1>11, WordSizeIs DEF Page
<1>13. a \in Address /\ addr <= a /\ a < addr + PageSize
  BY <1>6, <1>12, BytesAre
<1>14. Covers(b, e, a)
  BY <1>2, <1>3, <1>4, <1>9, <1>13, AddressIs DEF Covers, b
<1>15. map \in Seq(MapEntry) /\ map \in Maps /\ idx \in DOMAIN map
  BY <1>1, PmmAssumption DEF IInv, BootInv
<1>16. Ram(a)
  BY <1>2, <1>13, <1>14, <1>15 DEF Ram, WholePages, b, e
<1>17. QED
  BY <1>10, <1>16

(* Taking the page at the loop's address leaves only bytes beyond it free.  *)
LEMMA TakenBehind ==
  ASSUME NEW b \in Address, Aligned(b),
         NEW p \in Page, NEW a \in PageBytes(p), p # PageOf(b), b <= a
  PROVE  Word(b + PageSize) <= a
<1>1. b + PageSize <= a /\ a \in Nat
  BY OtherPage, BytesAre, AddressIs
<1>2. Word(b + PageSize) = b + PageSize \/ Word(b + PageSize) = 0
  BY NextPage
<1>3. QED
  BY <1>1, <1>2

LEMMA SpareInit == Init => MInv
<1>1. Init => IInv
  BY InvInit
<1>2. QED
  BY <1>1 DEF Init, MInv, SpareInv, WalkInv

LEMMA SpareStep ==
  ASSUME WholePages
  PROVE  MInv /\ [Next]_vars => MInv'
<1> SUFFICES ASSUME MInv, [Next]_vars
             PROVE  MInv'
  OBVIOUS
<1> USE DEF boot
<1>0. IInv /\ IInv'
  BY InvStep DEF MInv
<1>1. /\ TypeOK /\ BootInv /\ OwnedInv /\ SpareInv /\ WalkInv
      /\ addr \in Address /\ owned \subseteq Page
  BY <1>0 DEF MInv, IInv, TypeOK
<1>2. Len(map) \in Nat /\ Len(mods) \in Nat
      /\ DOMAIN map = 1..Len(map) /\ DOMAIN mods = 1..Len(mods)
  BY <1>1, PmmAssumption DEF BootInv
<1>3. KernelStart \in Nat /\ KernelEnd \in Nat
      /\ \A i \in DOMAIN mods : mods[i].start \in Nat /\ mods[i].end \in Nat
  <2>1. \A i \in 1..Len(mods) : mods[i] \in ModuleEntry
    BY <1>1, PmmAssumption, ElementOfSeq DEF BootInv
  <2>2. QED
    BY <1>2, <2>1, PmmAssumption DEF ModuleEntry
<1>4. \A p \in Page : \A a \in PageBytes(p) : a \in Nat
  BY BytesAre, AddressIs
\* Steps after which no other page is free and no other byte is behind.
<1>5. ASSUME pc # "start", map' = map, mods' = mods,
             \A p \in Page : bitmap'[p] = 0 \/ p \in owned' =>
               bitmap[p] = 0 \/ p \in owned,
             \A p \in Page : \A a \in PageBytes(p) :
               /\ bitmap'[p] = 0 \/ p \in owned'
               /\ Ram(a) /\ KernelAhead(a) /\ ModulesAhead(a)
               => KernelAhead(a)' /\ ModulesAhead(a)'
      PROVE  SpareInv'
  BY <1>1, <1>5 DEF SpareInv, SpareSoFar, Ram
<1>6. CASE MarkAll
  <2>1. WalkInv'
    BY <1>6 DEF MarkAll, WalkInv, WholePages
  <2>2. \A p \in Page : ~(bitmap'[p] = 0 \/ p \in owned')
    BY <1>1, <1>6 DEF MarkAll, OwnedInv
  <2>3. QED
    BY <1>0, <2>1, <2>2 DEF MInv, SpareInv
<1>7. CASE NextRegion
  <2>1. idx \in 1..Len(map) /\ pc = "map" /\ pc' \in {"map", "clear"}
    BY <1>1, <1>2, <1>7 DEF NextRegion, TypeOK, BootInv
  <2>2. SpareInv'
    BY <1>5, <1>7, <2>1 DEF NextRegion, KernelAhead, ModulesAhead
  <2>3. CASE map[idx].type = Available
    <3>1. /\ map' = map /\ idx' = idx /\ pc' = "clear"
          /\ addr' = RegionStart(map[idx])
      BY <1>7, <2>3 DEF NextRegion
    <3>2. /\ Aligned(RegionStart(map[idx]))
          /\ RegionEnd(map[idx]) # 0 => RegionStart(map[idx]) = map[idx].base
          /\ map[idx].base \in Nat
      BY <1>1, <2>1, <2>3, WholeRegion
    <3>3. WalkInv'
      BY <2>3, <3>1, <3>2 DEF WalkInv, RegionEnd
    <3>4. QED
      BY <1>0, <2>2, <3>3 DEF MInv
  <2>4. CASE map[idx].type # Available
    <3>1. pc' = "map"
      BY <1>7, <2>4 DEF NextRegion
    <3>2. QED
      BY <1>0, <2>2, <3>1 DEF MInv, WalkInv
  <2>5. QED
    BY <2>3, <2>4
<1>8. CASE ClearPage
  <2>1. /\ pc = "clear" /\ pc' = "clear" /\ idx' = idx /\ map' = map
        /\ mods' = mods /\ owned' = owned /\ addr' = Word(addr + PageSize)
        /\ bitmap' = [bitmap EXCEPT ![PageOf(addr)] = 0]
    BY <1>8 DEF ClearPage
  <2>2. \A a \in PageBytes(PageOf(addr)) : Ram(a)
    BY <1>0, <1>1, <1>8, ClearedIsRam
  <2>3. Aligned(addr') /\ addr' = addr + PageSize
    <3>1. addr \in PageBytes(PageOf(addr))
      <4>1. /\ addr \in Nat /\ PageSize \in Nat \ {0} /\ Aligned(addr)
        BY <1>1, <2>1, AddressIs, PmmAssumption DEF WalkInv
      <4>2. addr = PageOf(addr) * PageSize + 0 /\ 0 \in 0 .. PageSize - 1
        BY <4>1, AlignedIs
      <4>3. QED
        BY <4>2 DEF PageBytes
    <3>2. QED
      BY <1>0, <1>1, <1>8, <2>1, <3>1, ClearedIsRam
  <2>4. SpareInv'
    <3>1. SUFFICES ASSUME NEW p \in Page, bitmap'[p] = 0 \/ p \in owned',
                          NEW a \in PageBytes(p)
                   PROVE  SpareSoFar(a)'
      BY DEF SpareInv
    <3>2. Ram(a)
      <4>1. CASE p = PageOf(addr)
        BY <2>2, <4>1
      <4>2. CASE p # PageOf(addr)
        BY <1>1, <2>1, <3>1, <4>2 DEF TypeOK, SpareInv, SpareSoFar
      <4>3. QED
        BY <4>1, <4>2
    <3>3. QED
      BY <2>1, <3>2 DEF SpareSoFar, Ram, KernelAhead, ModulesAhead
  <2>5. WalkInv'
    <3>1. idx \in 1..Len(map) /\ map[idx].type = Available
      BY <1>1, <2>1 DEF BootInv, WalkInv
    <3>2. map[idx].base \in Nat /\ addr \in Nat /\ PageSize \in Nat
      BY <1>1, <3>1, WholeRegion, AddressIs, PmmAssumption
    <3>3. RegionEnd(map[idx]) # 0 => map[idx].base <= addr'
      BY <1>1, <2>1, <2>3, <3>2 DEF WalkInv
    <3>4. QED
      BY <2>1, <2>3, <3>1, <3>3 DEF WalkInv, RegionEnd
  <2>6. QED
    BY <1>0, <2>4, <2>5 DEF MInv
<1>9. CASE RegionDone
  <2>1. SpareInv'
    BY <1>5, <1>9 DEF RegionDone, KernelAhead, ModulesAhead
  <2>2. WalkInv'
    BY <1>9 DEF RegionDone, WalkInv
  <2>3. QED
    BY <1>0, <2>1, <2>2 DEF MInv
<1>10. CASE MapDone
  <2>1. pc = "map" /\ pc' = "kernel" /\ addr' = KernelStart
    BY <1>10 DEF MapDone
  <2>2. SpareInv'
    BY <1>5, <1>10, <2>1 DEF MapDone, KernelAhead, ModulesAhead, Covers
  <2>3. WalkInv'
    BY <2>1 DEF WalkInv, WholePages
  <2>4. QED
    BY <1>0, <2>2, <2>3 DEF MInv
<1>11. CASE SetKernel
  <2>1. /\ pc = "kernel" /\ pc' = "kernel" /\ map' = map /\ mods' = mods
        /\ idx' = idx /\ owned' = owned /\ addr' = Word(addr + PageSize)
        /\ bitmap' = [bitmap EXCEPT ![PageOf(addr)] = 1]
    BY <1>11 DEF SetKernel
  <2>2. Aligned(addr) /\ Aligned(addr')
    BY <1>1, <2>1, NextPage DEF WalkInv
  <2>3. \A p \in Page : bitmap'[p] = 0 \/ p \in owned' =>
          (bitmap[p] = 0 \/ p \in owned) /\ p # PageOf(addr)
    BY <1>1, <2>1 DEF TypeOK, OwnedInv
  <2>4. \A p \in Page : \A a \in PageBytes(p) :
          (bitmap'[p] = 0 \/ p \in owned') /\ addr <= a => addr' <= a
    BY <1>1, <2>1, <2>2, <2>3, TakenBehind
  <2>5. SpareInv'
    BY <1>5, <2>1, <2>3, <2>4 DEF KernelAhead, ModulesAhead
  <2>6. WalkInv'
    BY <2>1, <2>2 DEF WalkInv
  <2>7. QED
    BY <1>0, <2>5, <2>6 DEF MInv
<1>12. CASE KernelDone
  <2>1. /\ pc = "kernel" /\ addr > KernelEnd /\ addr \in Nat
        /\ map' = map /\ mods' = mods /\ owned' = owned /\ bitmap' = bitmap
    BY <1>1, <1>12, AddressIs DEF KernelDone
  <2>2. \A a \in Nat : KernelAhead(a) => ~Covers(KernelStart, KernelEnd, a)
    BY <1>3, <2>1 DEF KernelAhead, Covers
  <2>3. \A a \in Nat : KernelAhead(a) => KernelAhead(a)'
    BY <2>2 DEF KernelAhead
  <2>4. CASE mods = <<>>
    <3>1. pc' = "zero" /\ DOMAIN mods = {}
      BY <1>12, <2>4 DEF KernelDone
    <3>2. SpareInv'
      BY <1>4, <1>5, <2>1, <2>3, <3>1 DEF ModulesAhead
    <3>3. QED
      BY <1>0, <3>1, <3>2 DEF MInv, WalkInv
  <2>5. CASE mods # <<>>
    <3>1. pc' = "mods" /\ idx' = 1 /\ addr' = mods[1].start /\ 1 \in DOMAIN mods
      <4>1. Len(mods) # 0
        BY <1>1, <2>5, PmmAssumption, EmptySeq DEF BootInv
      <4>2. QED
        BY <1>2, <1>12, <2>5, <4>1 DEF KernelDone
    <3>2. \A a \in Nat : ModulesAhead(a)'
      BY <1>2, <1>3, <2>1, <3>1 DEF ModulesAhead, Covers
    <3>3. SpareInv'
      BY <1>4, <1>5, <2>1, <2>3, <3>2
    <3>4. WalkInv'
      BY <1>1, <3>1 DEF WalkInv, WholePages, BootInv
    <3>5. QED
      BY <1>0, <3>3, <3>4 DEF MInv
  <2>6. QED
    BY <2>4, <2>5
<1>13. CASE SetModule
  <2>1. /\ pc = "mods" /\ pc' = "mods" /\ map' = map /\ mods' = mods
        /\ idx' = idx /\ owned' = owned /\ addr' = Word(addr + PageSize)
        /\ bitmap' = [bitmap EXCEPT ![PageOf(addr)] = 1]
    BY <1>13 DEF SetModule
  <2>2. Aligned(addr) /\ Aligned(addr')
    BY <1>1, <2>1, NextPage DEF WalkInv
  <2>3. \A p \in Page : bitmap'[p] = 0 \/ p \in owned' =>
          (bitmap[p] = 0 \/ p \in owned) /\ p # PageOf(addr)
    BY <1>1, <2>1 DEF TypeOK, OwnedInv
  <2>4. \A p \in Page : \A a \in PageBytes(p) :
          (bitmap'[p] = 0 \/ p \in owned') /\ addr <= a => addr' <= a
    BY <1>1, <2>1, <2>2, <2>3, TakenBehind
  <2>5. SpareInv'
    BY <1>5, <2>1, <2>3, <2>4 DEF KernelAhead, ModulesAhead
  <2>6. WalkInv'
    BY <2>1, <2>2 DEF WalkInv
  <2>7. QED
    BY <1>0, <2>5, <2>6 DEF MInv
<1>14. CASE ModuleDone
  <2>1. /\ pc = "mods" /\ idx \in DOMAIN mods /\ addr > mods[idx].end
        /\ addr \in Nat /\ idx \in Nat
        /\ map' = map /\ mods' = mods /\ owned' = owned /\ bitmap' = bitmap
    <3>1. pc = "mods" /\ idx \in 1..Len(mods) /\ DOMAIN mods = 1..Len(mods)
          /\ addr \in Nat /\ idx \in Nat
      BY <1>1, <1>2, <1>14, AddressIs DEF ModuleDone, BootInv
    <3>2. mods[idx].end \in Nat
      BY <1>1, <3>1, ModuleIs, AddressIs
    <3>3. QED
      BY <1>14, <3>1, <3>2 DEF ModuleDone, InModule
  <2>2. \A a \in Nat : ModulesAhead(a) =>
          \A i \in DOMAIN mods :
            Covers(mods[i].start, mods[i].end, a) => idx < i
    BY <1>3, <2>1 DEF ModulesAhead, Covers
  <2>3. \A a \in Nat : KernelAhead(a) => KernelAhead(a)'
    BY <1>14, <2>1 DEF ModuleDone, KernelAhead
  <2>4. CASE idx < Len(mods)
    <3>1. /\ pc' = "mods" /\ idx' = idx + 1 /\ addr' = mods[idx + 1].start
          /\ idx + 1 \in DOMAIN mods
      BY <1>2, <1>14, <2>1, <2>4 DEF ModuleDone
    <3>2. \A a \in Nat : ModulesAhead(a) => ModulesAhead(a)'
      BY <1>2, <1>3, <2>1, <2>2, <3>1 DEF ModulesAhead, Covers
    <3>3. SpareInv'
      BY <1>4, <1>5, <2>1, <2>3, <3>2
    <3>4. WalkInv'
      BY <1>1, <3>1 DEF WalkInv, WholePages, BootInv
    <3>5. QED
      BY <1>0, <3>3, <3>4 DEF MInv
  <2>5. CASE ~(idx < Len(mods))
    <3>1. pc' = "zero"
      BY <1>14, <2>5 DEF ModuleDone
    <3>2. \A a \in Nat : ModulesAhead(a) => ModulesAhead(a)'
      BY <1>2, <2>1, <2>2, <2>5 DEF ModulesAhead
    <3>3. SpareInv'
      BY <1>4, <1>5, <2>1, <2>3, <3>2
    <3>4. QED
      BY <1>0, <3>1, <3>3 DEF MInv, WalkInv
  <2>6. QED
    BY <2>4, <2>5
<1>15. CASE SetZero
  <2>1. /\ pc = "zero" /\ pc' = "ready" /\ map' = map /\ mods' = mods
        /\ owned' = owned /\ bitmap' = [bitmap EXCEPT ![0] = 1]
    BY <1>15 DEF SetZero
  <2>2. \A p \in Page : bitmap'[p] = 0 => bitmap[p] = 0
    BY <1>1, <2>1 DEF TypeOK
  <2>3. SpareInv'
    BY <1>5, <2>1, <2>2 DEF KernelAhead, ModulesAhead
  <2>4. QED
    BY <1>0, <2>1, <2>3 DEF MInv, WalkInv
<1>16. ASSUME NEW p \in Page, AllocPage(p) \/ FreePage(p)
       PROVE  MInv'
  <2>1. /\ pc = "ready" /\ pc' = "ready" /\ map' = map /\ mods' = mods
    BY <1>16 DEF AllocPage, FreePage
  <2>2. \A q \in Page : bitmap'[q] = 0 \/ q \in owned' =>
          bitmap[q] = 0 \/ q \in owned
    <3>1. CASE AllocPage(p)
      BY <1>1, <3>1 DEF AllocPage, FirstFree, TypeOK
    <3>2. CASE FreePage(p)
      BY <1>1, <3>2 DEF FreePage, TypeOK
    <3>3. QED
      BY <1>16, <3>1, <3>2
  <2>3. SpareInv'
    BY <1>5, <2>1, <2>2 DEF KernelAhead, ModulesAhead
  <2>4. QED
    BY <1>0, <2>1, <2>3 DEF MInv, WalkInv
<1>17. CASE OutOfMemory
  <2>1. SpareInv'
    BY <1>5, <1>17 DEF OutOfMemory, KernelAhead, ModulesAhead
  <2>2. QED
    BY <1>0, <1>17, <2>1 DEF OutOfMemory, MInv, WalkInv
<1>18. CASE UNCHANGED vars
  BY <1>0, <1>1, <1>18 DEF vars, MInv, SpareInv, SpareSoFar, Ram, KernelAhead,
     ModulesAhead, WalkInv, RegionEnd
<1>19. QED
  BY <1>6, <1>7, <1>8, <1>9, <1>10, <1>11, <1>12, <1>13, <1>14, <1>15,
     <1>16, <1>17, <1>18 DEF Next, Initialise

(* pmm_initialize leaves free, and pmm_alloc_page hands out, spare memory   *)
(* only, when the map's available regions are whole pages that no other     *)
(* region claims.  The first two findings are maps that are not so.         *)
THEOREM OnlySpare ==
  ASSUME WholePages
  PROVE  Spec => []OnlySpareMemory
<1>1. Init => MInv
  BY SpareInit
<1>2. MInv /\ [Next]_vars => MInv'
  BY SpareStep
<1>3. MInv => OnlySpareMemory
  BY DEF MInv, SpareInv, SpareSoFar, Ram, KernelAhead, ModulesAhead,
     OnlySpareMemory, IsSpare
<1>4. QED
  BY <1>1, <1>2, <1>3, PTL DEF Spec

-----------------------------------------------------------------------------
(* The end of pmm_initialize.                                               *)

(* Quotient and remainder are unique.                                       *)
LEMMA OffsetIs ==
  ASSUME NEW s \in Nat \ {0}, NEW q \in Nat, NEW o \in 0 .. s - 1
  PROVE  (q * s + o) % s = o
<1> DEFINE n == q * s + o
<1>1. n \in Nat /\ n % s \in 0 .. s - 1 /\ n \div s \in Nat
      /\ n = (n \div s) * s + (n % s)
  OBVIOUS
<1>2. PICK d \in Nat, m \in 0 .. s - 1 : d = n \div s /\ m = n % s
  BY <1>1
<1>3. (q - d) * s = m - o
  BY <1>1, <1>2
<1>4. q - d <= 0 /\ q - d >= 0
  BY <1>2, <1>3
<1>5. QED
  BY <1>2, <1>3, <1>4

(* A page further on, around the end of the address space or not, an        *)
(* address has the same offset in its page; and no address with that offset *)
(* is behind the last page's.                                               *)
LEMMA OffsetStays ==
  ASSUME NEW a \in Address
  PROVE  /\ Word(a + PageSize) % PageSize = a % PageSize
         /\ a <= WordSize - PageSize + (a % PageSize)
<1> DEFINE q == a \div PageSize
           o == a % PageSize
           k == WordSize \div PageSize
<1>1. /\ PageSize \in Nat \ {0} /\ WordSize \in Nat /\ a \in Nat /\ a < WordSize
  BY PmmAssumption DEF Address
<1>2. /\ q \in Nat /\ o \in 0 .. PageSize - 1 /\ a = q * PageSize + o
  <2>1. ASSUME NEW s \in Nat \ {0}, NEW n \in Nat
        PROVE  n \div s \in Nat /\ n % s \in 0 .. s - 1 /\ n = (n \div s) * s + (n % s)
    OBVIOUS
  <2>2. QED
    BY <1>1, <2>1
<1>3. k \in Nat /\ WordSize = k * PageSize
  BY WordSizeIs
<1> HIDE DEF q, o, k
<1>4. \A m, n \in Nat : m < n => /\ m * PageSize \in Nat /\ n * PageSize \in Nat
                                 /\ m * PageSize + PageSize <= n * PageSize
  <2>1. TAKE m, n \in Nat
  <2>2. n * PageSize \in Nat
    BY <1>1
  <2>3. QED
    BY <2>2, PagesInOrder
<1>5. q * PageSize \in Nat
  BY <1>1, <1>2
<1>6. q < k
  <2>1. k # q
    BY <1>1, <1>2, <1>3, <1>5
  <2>2. ~(k < q)
    BY <1>1, <1>2, <1>3, <1>4, <1>5
  <2>3. QED
    BY <1>2, <1>3, <2>1, <2>2
<1>7. q * PageSize + PageSize <= WordSize
  BY <1>2, <1>3, <1>4, <1>6
<1>8. a <= WordSize - PageSize + o
  BY <1>1, <1>2, <1>5, <1>7
<1>9. (q + 1) * PageSize = q * PageSize + PageSize /\ q + 1 \in Nat
  BY <1>1, <1>2
<1>10. Word(a + PageSize) % PageSize = o
  <2>1. PageSize <= WordSize
    BY <1>1, <1>5, <1>7
  <2>2. Word(a + PageSize) = IF a + PageSize < WordSize THEN a + PageSize
                             ELSE a + PageSize - WordSize
    <3>1. PICK n \in Nat : n = a + PageSize /\ n < 2 * WordSize
      BY <1>1, <2>1
    <3>2. Word(n) = IF n < WordSize THEN n ELSE n - WordSize
      BY <3>1, WordWraps
    <3>3. QED
      BY <1>1, <3>1, <3>2
  <2>3. CASE a + PageSize < WordSize
    <3>1. Word(a + PageSize) = (q + 1) * PageSize + o
      BY <1>1, <1>2, <1>5, <1>9, <2>2, <2>3
    <3>2. QED
      BY <1>1, <1>2, <1>9, <3>1, OffsetIs
  <2>4. CASE ~(a + PageSize < WordSize)
    <3>1. q + 1 = k
      <4>1. ~(q + 1 < k)
        <5> SUFFICES ASSUME q + 1 < k PROVE FALSE
          OBVIOUS
        <5>1. (q + 1) * PageSize + PageSize <= k * PageSize
          BY <1>3, <1>4, <1>9
        <5>2. QED
          BY <1>1, <1>2, <1>3, <1>5, <1>9, <2>4, <5>1
      <4>2. QED
        BY <1>2, <1>3, <1>6, <4>1
    <3>2. Word(a + PageSize) = o
      BY <1>1, <1>2, <1>3, <1>5, <1>9, <2>2, <2>4, <3>1
    <3>3. o % PageSize = o
      BY <1>1, <1>2
    <3>4. QED
      BY <3>2, <3>3
  <2>5. QED
    BY <2>3, <2>4
<1>11. QED
  BY <1>8, <1>10 DEF o

(* So a loop that has come to an address that is not before its end could   *)
(* stop.                                                                    *)
LEMMA HasStopped ==
  ASSUME NEW a \in Address, NEW start \in Address, NEW end \in Nat,
         a % PageSize = start % PageSize, end <= a
  PROVE  Stops(start, end)
<1>1. a <= WordSize - PageSize + (start % PageSize)
  BY OffsetStays
<1>2. /\ a \in Nat /\ WordSize \in Nat /\ PageSize \in Nat \ {0}
      /\ start % PageSize \in Nat
  <2>1. ASSUME NEW s \in Nat \ {0}, NEW n \in Nat PROVE n % s \in Nat
    OBVIOUS
  <2>2. QED
    BY <2>1, AddressIs, PmmAssumption
<1>3. end <= WordSize - PageSize + (start % PageSize)
  BY <1>1, <1>2
<1>4. QED
  BY <1>3 DEF Stops

SameOffset(a, b) == a % PageSize = b % PageSize

MapBehind(n) == \A i \in 1..Len(map) : i < n => MapStops(i)
ModulesBehind(n) == \A i \in 1..Len(mods) : i < n => ModuleStops(i)

\* The loops behind stopped, and the one that runs keeps its offset.
EndInv ==
  /\ pc \in {"map", "clear"} => MapBehind(idx)
  /\ pc \notin {"start", "map", "clear"} /\ flagMap =>
       \A i \in 1..Len(map) : MapStops(i)
  /\ pc = "clear" => SameOffset(addr, RegionStart(map[idx]))
  /\ pc = "kernel" => SameOffset(addr, KernelStart)
  /\ pc \in {"mods", "zero", "ready"} => Stops(KernelStart, KernelEnd + 1)
  /\ pc = "mods" => ModulesBehind(idx) /\ SameOffset(addr, mods[idx].start)
  /\ pc \in {"zero", "ready"} => \A i \in 1..Len(mods) : ModuleStops(i)

(* One turn of any of the loops.                                            *)
LEMMA TurnOffset ==
  ASSUME NEW a \in Address, NEW b, SameOffset(a, b)
  PROVE  SameOffset(Word(a + PageSize), b)
  BY OffsetStays DEF SameOffset

(* What stopped once has stopped.                                           *)
LEMMA SameBehind ==
  ASSUME UNCHANGED boot
  PROVE  /\ flagMap' = flagMap /\ map' = map /\ mods' = mods
         /\ \A i : MapStops(i)' = MapStops(i) /\ ModuleStops(i)' = ModuleStops(i)
  BY DEF boot, MapStops, ModuleStops, Stops, RegionStart, RegionEnd, Word

(* No loop has stopped at the start.                                        *)
LEMMA EndInit == Init => EndInv
  BY DEF Init, EndInv

(* A step leaves the loops behind as they are, keeps its loop's offset, and *)
(* leaves a loop only where it could stop.                                  *)
LEMMA EndStep == IInv /\ EndInv /\ [Next]_vars => EndInv'
<1> SUFFICES ASSUME IInv, EndInv, [Next]_vars
             PROVE  EndInv'
  OBVIOUS
<1>0. /\ Len(map) \in Nat /\ Len(mods) \in Nat /\ TypeOK /\ BootInv
      /\ addr \in Address /\ idx \in Nat
  BY PmmAssumption DEF IInv, BootInv, TypeOK
<1>1. UNCHANGED boot
  BY DEF vars, Next, Initialise, MarkAll, NextRegion, ClearPage, RegionDone, MapDone,
         SetKernel, KernelDone, SetModule, ModuleDone, SetZero, AllocPage, FreePage,
         OutOfMemory
<1>2. /\ flagMap' = flagMap /\ map' = map /\ mods' = mods
      /\ \A i : MapStops(i)' = MapStops(i) /\ ModuleStops(i)' = ModuleStops(i)
      /\ \A i : RegionStart(map[i])' = RegionStart(map[i])
  BY <1>1, SameBehind DEF RegionStart, Word
<1> USE DEF EndInv, MapBehind, ModulesBehind
<1>3. CASE MarkAll
  BY <1>2, <1>3 DEF MarkAll, SameOffset
<1>4. CASE NextRegion
  <2>1. pc = "map" /\ idx \in 1..Len(map) /\ MapBehind(idx)
    BY <1>0, <1>4 DEF NextRegion, BootInv
  <2>2. CASE map[idx].type = Available
    BY <1>2, <1>4, <2>1, <2>2 DEF NextRegion, SameOffset
  <2>3. CASE map[idx].type # Available
    <3>1. MapStops(idx) /\ pc' = pc /\ idx' = idx + 1
      BY <1>4, <2>3 DEF NextRegion, MapStops
    <3>2. \A i \in 1..Len(map) : i < idx + 1 => MapStops(i)
      BY <1>0, <2>1, <3>1
    <3>3. QED
      BY <1>2, <2>1, <3>1, <3>2
  <2>4. QED
    BY <2>2, <2>3
<1>5. CASE ClearPage
  <2>1. SameOffset(Word(addr + PageSize), RegionStart(map[idx]))
    BY <1>0, <1>5, TurnOffset DEF ClearPage
  <2>2. QED
    BY <1>2, <1>5, <2>1 DEF ClearPage
<1>6. CASE RegionDone
  <2>1. /\ pc = "clear" /\ idx \in 1..Len(map) /\ MapBehind(idx)
        /\ SameOffset(addr, RegionStart(map[idx]))
        /\ pc' = "map" /\ idx' = idx + 1
    BY <1>0, <1>6 DEF RegionDone, BootInv
  <2>2. RegionStart(map[idx]) \in Address /\ RegionEnd(map[idx]) \in Address
    BY <1>0, <2>1, RegionIs
  <2>3. RegionEnd(map[idx]) <= addr
    <3>1. PICK e \in Nat : e = RegionEnd(map[idx])
      BY <2>2, AddressIs
    <3>2. addr \in Nat /\ ~(addr < e)
      BY <1>0, <1>6, <3>1, AddressIs DEF RegionDone, InRegion
    <3>3. QED
      BY <3>1, <3>2
  <2>4. MapStops(idx)
    BY <1>0, <2>1, <2>2, <2>3, AddressIs, HasStopped DEF MapStops, SameOffset
  <2>5. \A i \in 1..Len(map) : i < idx + 1 => MapStops(i)
    BY <1>0, <2>1, <2>4
  <2>6. QED
    BY <1>2, <2>1, <2>5
<1>7. CASE MapDone
  <2>1. \A i \in 1..Len(map) : MapStops(i)
    BY <1>0, <1>7 DEF MapDone
  <2>2. QED
    BY <1>2, <1>7, <2>1 DEF MapDone, SameOffset
<1>8. CASE SetKernel
  <2>1. SameOffset(Word(addr + PageSize), KernelStart)
    BY <1>0, <1>8, TurnOffset DEF SetKernel
  <2>2. QED
    BY <1>2, <1>8, <2>1 DEF SetKernel
<1>9. CASE KernelDone
  <2>1. KernelEnd + 1 <= addr /\ KernelEnd + 1 \in Nat
    BY <1>0, <1>9, AddressIs, PmmAssumption DEF KernelDone
  <2>2. Stops(KernelStart, KernelEnd + 1)
    BY <1>0, <1>9, <2>1, AddressIs, HasStopped DEF KernelDone, SameOffset
  <2>3. CASE mods = <<>>
    BY <1>2, <1>9, <2>2, <2>3 DEF KernelDone
  <2>4. CASE mods # <<>>
    BY <1>2, <1>9, <2>2, <2>4 DEF KernelDone, SameOffset
  <2>5. QED
    BY <2>3, <2>4
<1>10. CASE SetModule
  <2>1. SameOffset(Word(addr + PageSize), mods[idx].start)
    BY <1>0, <1>10, TurnOffset DEF SetModule
  <2>2. QED
    BY <1>2, <1>10, <2>1 DEF SetModule
<1>11. CASE ModuleDone
  <2>1. /\ pc = "mods" /\ idx \in 1..Len(mods) /\ ModulesBehind(idx)
        /\ SameOffset(addr, mods[idx].start)
    BY <1>0, <1>11 DEF ModuleDone, BootInv
  <2>2. mods[idx].start \in Address /\ mods[idx].end \in Address
    BY <1>0, <2>1, ModuleIs
  <2>3. mods[idx].end + 1 <= addr /\ mods[idx].end + 1 \in Nat
    BY <1>0, <1>11, <2>2, AddressIs DEF ModuleDone, InModule
  <2>4. ModuleStops(idx)
    BY <1>0, <2>1, <2>2, <2>3, HasStopped DEF ModuleStops, SameOffset
  <2>5. \A i \in 1..Len(mods) : i < idx + 1 => ModuleStops(i)
    BY <1>0, <2>1, <2>4
  <2>6. CASE idx < Len(mods)
    BY <1>2, <1>11, <2>1, <2>5, <2>6 DEF ModuleDone, SameOffset
  <2>7. CASE ~(idx < Len(mods))
    <3>1. \A i \in 1..Len(mods) : ModuleStops(i)
      BY <1>0, <2>1, <2>5, <2>7
    <3>2. QED
      BY <1>2, <1>11, <2>7, <3>1 DEF ModuleDone
  <2>8. QED
    BY <2>6, <2>7
<1>12. CASE SetZero
  BY <1>2, <1>12 DEF SetZero
<1>13. ASSUME NEW p \in Page, AllocPage(p) \/ FreePage(p)
       PROVE  EndInv'
  <2>1. pc' = pc /\ idx' = idx /\ addr' = addr
    BY <1>13 DEF AllocPage, FreePage
  <2>2. QED
    BY <1>2, <2>1
<1>14. CASE OutOfMemory
  BY <1>2, <1>14 DEF OutOfMemory
<1>15. CASE UNCHANGED vars
  BY <1>2, <1>15 DEF vars
<1> HIDE DEF EndInv, MapBehind, ModulesBehind
<1>16. QED
  BY <1>3, <1>4, <1>5, <1>6, <1>7, <1>8, <1>9, <1>10, <1>11, <1>12, <1>13,
     <1>14, <1>15 DEF Next, Initialise

(* pmm_initialize comes to its end only when no region or module makes the  *)
(* address of its loop wrap around.                                         *)
THEOREM WrapsNeverEnd == Spec => []EndsWithoutWrap
<1>1. Init => IInv /\ EndInv
  BY InvInit, EndInit
<1>2. IInv /\ EndInv /\ [Next]_vars => (IInv /\ EndInv)'
  BY InvStep, EndStep
<1>3. EndInv => EndsWithoutWrap
  BY DEF EndInv, EndsWithoutWrap, LoopsStop
<1>4. QED
  BY <1>1, <1>2, <1>3, PTL DEF Spec
=============================================================================
