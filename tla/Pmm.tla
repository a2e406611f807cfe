-------------------------------- MODULE Pmm --------------------------------
(***************************************************************************)
(* memory.c: the physical page bitmap.  pmm_initialize marks every page    *)
(* taken, frees the pages of the available regions of the Multiboot memory *)
(* map, and takes back the kernel's, the modules' and page 0; then pages   *)
(* are allocated lowest first and given back.  Each loop is one step per   *)
(* turn, with the unsigned address wrapping as a machine word does.  The   *)
(* caller of pmm_free_page is one that keeps the contract of memory.h and  *)
(* gives back only pages it was handed (the kernel itself never calls it). *)
(***************************************************************************)
EXTENDS Naturals, Sequences

CONSTANTS WordSize,     \* 2^32: addresses are unsigned int
          PageSize,     \* PAGE_SIZE
          Maps,         \* memory maps: sequences of [base, len, type] records
          ModuleLists,  \* sequences of [start, end] records
          KernelStart,  \* KERNEL_START and KERNEL_END, physical
          KernelEnd

\* multiboot_memory_map_t and multiboot_mod_t, as far as they are read.
MapEntry == [base : Nat, len : Nat, type : Nat]
ModuleEntry == [start : 0 .. WordSize - 1, end : 0 .. WordSize - 1]

ASSUME PmmAssumption ==
  /\ WordSize \in Nat \ {0}
  /\ PageSize \in Nat \ {0}
  /\ WordSize % PageSize = 0
  /\ Maps \subseteq Seq(MapEntry)
  /\ ModuleLists \subseteq Seq(ModuleEntry)
  /\ KernelStart \in 0 .. WordSize - 1
  /\ KernelEnd \in 0 .. WordSize - 1

VARIABLES flagMap,   \* mbinfo->flags & MULTIBOOT_FLAG_MEMMAP
          map,       \* the map at mbinfo->mmap_addr
          mods,      \* the modules, <<>> when there are none
          bitmap,    \* pmm_bitmap, one entry per bit: 1 is taken
          pc,        \* which loop runs
          idx,       \* which entry of the map or the module list
          addr,      \* the loop's address
          owned,     \* the pages handed out and not given back
          got        \* what the last pmm_alloc_page returned

boot == <<flagMap, map, mods>>
vars == <<boot, bitmap, pc, idx, addr, owned, got>>

Address == 0 .. WordSize - 1
Page == 0 .. (WordSize \div PageSize) - 1
Available == 1

Word(n) == n % WordSize
PageOf(a) == a \div PageSize

\* The code reads the low words of a region and nothing else.
RegionStart(e) == Word(e.base)

\* Fault: the end is taken for the last byte.
RegionEndLast(e) == Word(Word(e.base) + Word(e.len) + 1)

RegionEnd(e) == Word(Word(e.base) + Word(e.len))

-----------------------------------------------------------------------------
Init == /\ flagMap \in BOOLEAN
        /\ map \in Maps
        /\ mods \in ModuleLists
        /\ bitmap = [p \in Page |-> 0]
        /\ pc = "start"
        /\ idx = 0
        /\ addr = 0
        /\ owned = {}
        /\ got = 0

\* Step 1.  Without a memory map no page is ever freed.
MarkAll == /\ pc = "start"
           /\ bitmap' = [p \in Page |-> 1]
           /\ pc' = IF flagMap THEN "map" ELSE "kernel"
           /\ idx' = 1
           /\ addr' = IF flagMap THEN addr ELSE KernelStart
           /\ UNCHANGED <<boot, owned, got>>

\* Step 2: the next map entry, if it is available memory.
NextRegion == /\ pc = "map"
              /\ idx <= Len(map)
              /\ IF map[idx].type = Available
                 THEN /\ pc' = "clear"
                      /\ addr' = RegionStart(map[idx])
                      /\ UNCHANGED idx
                 ELSE /\ idx' = idx + 1
                      /\ UNCHANGED <<pc, addr>>
              /\ UNCHANGED <<boot, bitmap, owned, got>>

\* Fault: the end is taken for a byte of the region.
InRegionIncl == addr <= RegionEnd(map[idx])

\* The condition of the loop that frees a region's pages.
InRegion == addr < RegionEnd(map[idx])

\* One turn of it.
ClearPage == /\ pc = "clear"
             /\ InRegion
             /\ bitmap' = [bitmap EXCEPT ![PageOf(addr)] = 0]
             /\ addr' = Word(addr + PageSize)
             /\ UNCHANGED <<boot, pc, idx, owned, got>>

RegionDone == /\ pc = "clear"
              /\ ~InRegion
              /\ pc' = "map"
              /\ idx' = idx + 1
              /\ UNCHANGED <<boot, bitmap, addr, owned, got>>

MapDone == /\ pc = "map"
           /\ idx > Len(map)
           /\ pc' = "kernel"
           /\ addr' = KernelStart
           /\ UNCHANGED <<boot, bitmap, idx, owned, got>>

\* Fault: the bit is added, not or-ed.
SetKernelAdd == /\ pc = "kernel"
                /\ addr <= KernelEnd
                /\ bitmap' = [bitmap EXCEPT ![PageOf(addr)] = @ + 1]
                /\ addr' = Word(addr + PageSize)
                /\ UNCHANGED <<boot, pc, idx, owned, got>>

\* Step 3: the kernel's pages, up to and including KERNEL_END's.
SetKernel == /\ pc = "kernel"
             /\ addr <= KernelEnd
             /\ bitmap' = [bitmap EXCEPT ![PageOf(addr)] = 1]
             /\ addr' = Word(addr + PageSize)
             /\ UNCHANGED <<boot, pc, idx, owned, got>>

KernelDone == /\ pc = "kernel"
              /\ addr > KernelEnd
              /\ IF mods = <<>>
                 THEN pc' = "zero" /\ UNCHANGED <<idx, addr>>
                 ELSE pc' = "mods" /\ idx' = 1 /\ addr' = mods[1].start
              /\ UNCHANGED <<boot, bitmap, owned, got>>

\* Fault: mod_end is taken for the first byte behind the module.
InModuleExcl == addr < mods[idx].end

\* The condition of the loop that takes a module's pages.
InModule == addr <= mods[idx].end

\* Step 4: the modules' pages.
SetModule == /\ pc = "mods"
             /\ InModule
             /\ bitmap' = [bitmap EXCEPT ![PageOf(addr)] = 1]
             /\ addr' = Word(addr + PageSize)
             /\ UNCHANGED <<boot, pc, idx, owned, got>>

ModuleDone == /\ pc = "mods"
              /\ ~InModule
              /\ IF idx < Len(mods)
                 THEN /\ idx' = idx + 1
                      /\ addr' = mods[idx + 1].start
                      /\ UNCHANGED pc
                 ELSE pc' = "zero" /\ UNCHANGED <<idx, addr>>
              /\ UNCHANGED <<boot, bitmap, owned, got>>

\* Fault: page 0 stays free.
SetNoZero == /\ pc = "zero"
             /\ pc' = "ready"
             /\ UNCHANGED <<boot, bitmap, idx, addr, owned, got>>

SetZero == /\ pc = "zero"
           /\ bitmap' = [bitmap EXCEPT ![0] = 1]
           /\ pc' = "ready"
           /\ UNCHANGED <<boot, idx, addr, owned, got>>

-----------------------------------------------------------------------------
FirstFree(p) == bitmap[p] = 0 /\ \A q \in Page : q < p => bitmap[q] = 1

\* pmm_alloc_page: the lowest free page, or 0 when every bit is set.
AllocPage(p) == /\ pc = "ready"
                /\ FirstFree(p)
                /\ bitmap' = [bitmap EXCEPT ![p] = 1]
                /\ owned' = owned \cup {p}
                /\ got' = p
                /\ UNCHANGED <<boot, pc, idx, addr>>

OutOfMemory == /\ pc = "ready"
               /\ \A p \in Page : bitmap[p] = 1
               /\ got' = 0
               /\ UNCHANGED <<boot, bitmap, pc, idx, addr, owned>>

\* pmm_free_page, called with a page it handed out.
FreePage(p) == /\ pc = "ready"
               /\ p \in owned
               /\ bitmap' = [bitmap EXCEPT ![p] = 0]
               /\ owned' = owned \ {p}
               /\ UNCHANGED <<boot, pc, idx, addr, got>>

Initialise == \/ MarkAll
              \/ NextRegion
              \/ ClearPage
              \/ RegionDone
              \/ MapDone
              \/ SetKernel
              \/ KernelDone
              \/ SetModule
              \/ ModuleDone
              \/ SetZero

Next == \/ Initialise
        \/ \E p \in Page : AllocPage(p) \/ FreePage(p)
        \/ OutOfMemory

\* pmm_initialize is straight-line code of the only thread.
Spec == Init /\ [][Next]_vars /\ WF_vars(Initialise)

-----------------------------------------------------------------------------
(* Every variable keeps its type: the loops' address stays a machine word.  *)
TypeOK == /\ bitmap \in [Page -> {0, 1}]
          /\ pc \in {"start", "map", "clear", "kernel", "mods", "zero", "ready"}
          /\ idx \in Nat
          /\ addr \in Address
          /\ owned \subseteq Page
          /\ got \in Page

Covers(start, end, a) == start <= a /\ a < end
PageBytes(p) == {p * PageSize + i : i \in 0 .. PageSize - 1}

\* A byte the map says is RAM and nothing else, outside the kernel and the
\* modules.
IsSpare(a) ==
  /\ \E i \in DOMAIN map : /\ map[i].type = Available
                           /\ Covers(map[i].base, map[i].base + map[i].len, a)
  /\ \A i \in DOMAIN map :
       map[i].type # Available =>
         ~Covers(map[i].base, map[i].base + map[i].len, a)
  /\ ~Covers(KernelStart, KernelEnd, a)
  /\ \A i \in DOMAIN mods : ~Covers(mods[i].start, mods[i].end, a)

(* Once pmm_initialize is done, every page that is or can be handed out is  *)
(* spare memory to its last byte, the "areas seguras de RAM livre" of       *)
(* memory.c:39.  It holds for maps whose available regions are whole pages  *)
(* of the address space that no other entry claims a byte of, with a kernel *)
(* and modules that start on page boundaries.                               *)
OnlySpareMemory ==
  pc = "ready" =>
    \A p \in Page : bitmap[p] = 0 \/ p \in owned =>
      \A a \in PageBytes(p) : IsSpare(a)

\* A loop from start in steps of a page, while the address is below end, comes
\* to an address that is not before it wraps around to where it started from.
Stops(start, end) == \/ start >= end
                     \/ end <= WordSize - PageSize + (start % PageSize)

MapStops(i) == map[i].type = Available =>
                 Stops(RegionStart(map[i]), RegionEnd(map[i]))
ModuleStops(i) == Stops(mods[i].start, mods[i].end + 1)
LoopsStop == /\ flagMap => \A i \in 1..Len(map) : MapStops(i)
             /\ Stops(KernelStart, KernelEnd + 1)
             /\ \A i \in 1..Len(mods) : ModuleStops(i)

(* pmm_initialize ends, and the allocator can be used, when no available    *)
(* region ends inside the last page of the address space, counted from the  *)
(* region's start, and neither a module nor the kernel reaches into it      *)
(* (memory.c:55, 72, 82).                                                   *)
InitialiseEnds == LoopsStop => <>(pc = "ready")

(* And only then: a region that ends inside the last page, or a module      *)
(* whose mod_end is in it, makes the address wrap around and the loop run   *)
(* for ever.                                                                *)
EndsWithoutWrap == pc = "ready" => LoopsStop

(* The bitmap implements an allocator: no page is handed out twice or lost, *)
(* page 0, whose address means failure, never is, and 0 is returned only    *)
(* when every page is taken.                                                *)
Allocator == INSTANCE PageAllocator
               WITH Zero <- 0,
                    open <- pc = "ready",
                    free <- IF pc = "ready" THEN {p \in Page : bitmap[p] = 0}
                            ELSE {}

ImplementsAllocator == Allocator!Spec
=============================================================================
