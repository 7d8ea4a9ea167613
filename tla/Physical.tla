------------------------------ MODULE Physical ------------------------------
(***************************************************************************)
(* Physical memory: the boot memory map (kernel/Core/Memory.cpp) and the   *)
(* bitmap of free pages it fills (kernel/Core/Memory_Physical.cpp).        *)
(* Addresses and lengths count in units of which a page holds PageUnits,   *)
(* so that entries of the map may begin and end inside a page.  The set    *)
(* free stands for the bitmap, the numbers of the pages whose bit is 1.    *)
(***************************************************************************)
EXTENDS Integers, Sequences, FiniteSets

CONSTANTS PageUnits,     \* PAGE_SIZE, in units
          Word,          \* 2^32, in units: where u32 addresses wrap
          BitmapPages,   \* the pages that memoryBitmap has bits for
          ByteBits,      \* the bits of one of its bytes
          KernelBeg, KernelEnd,   \* _kernel_beg, _kernel_end (physical)
          Reserved,      \* the fixed regions <<address, length>> of CreateMemoryMap
          BootMaps       \* the memory maps that the loader may pass on

Entry == [base : Nat, length : Nat, type : Nat]

ASSUME PhysicalAssumption ==
  /\ PageUnits \in Nat \ {0}
  /\ Word \in Nat \ {0}
  /\ BitmapPages \in Nat
  /\ ByteBits \in Nat \ {0}
  /\ KernelBeg \in Nat
  /\ KernelEnd \in Nat \ {0}
  /\ Reserved \subseteq Nat \X Nat /\ IsFiniteSet(Reserved)
  /\ BootMaps \subseteq Seq(Entry)

VARIABLES bootMap,         \* what the loader has passed on
          memoryEntries,   \* the same, as the kernel sorts and trims it
          booted,          \* the part of Memory::Init to be done next, or "done"
          free,            \* memoryBitmap
          maxMemoryIndex

bootVars == <<bootMap, memoryEntries, booted, maxMemoryIndex>>
physicalVars == <<bootVars, free>>

-----------------------------------------------------------------------------
(* The bitmap.                                                             *)

Down(n) == (n \div PageUnits) * PageUnits
Up(n) == Down(n + PageUnits - 1)
Aligned(n) == n % PageUnits = 0

\* Bits, without the test of the bound.
MutantBits(first, count) == first..(first + count - 1)

\* The pages whose bits a loop over count pages reaches: the test of its bound
\* lets the byte after the bitmap through.
Bits(first, count) == (first..(first + count - 1)) \cap (0..(BitmapPages + ByteBits - 1))

\* AddFreeMemory: a page that does not begin inside the region is left out.
Added(address, len) ==
  LET part == IF Aligned(address) THEN 0 ELSE 1
  IN Bits(address \div PageUnits + part, len \div PageUnits - part)

\* The index it compares is one of bytes, so that the last region decides.
MaxAdded(max, address, len) ==
  IF (address + len) % Word > max THEN ((address + len) % Word) \div PageUnits ELSE max

\* ReserveMemory
Taken(address, len) == Bits(address \div PageUnits, Up(len) \div PageUnits)

MaxReserved(max, address, len) ==
  IF (address + len) \div PageUnits > max THEN (address + len) \div PageUnits ELSE max

\* Where Alloc and AllocPage look: within the bitmap.
Pages == 0..(BitmapPages - 1)

\* Alloc: the first run of count free pages.
Runs(count) == {p \in Pages : p + count <= BitmapPages /\ (p..(p + count - 1)) \subseteq free}

IsFirst(p, pages) == p \in pages /\ \A q \in pages : p <= q

-----------------------------------------------------------------------------
(* The memory map.                                                         *)

PhysicalInit ==
  /\ bootMap \in BootMaps
  /\ memoryEntries = bootMap
  /\ booted = "SortEntries"
  /\ free = {}
  /\ maxMemoryIndex = 0

\* One pass of the bubble sort: what it has carried as far as entry k, the first of
\* those with the greatest base; equal bases are exchanged too.
Bubble(entries, k) ==
  entries[CHOOSE j \in 1..k : \A i \in 1..k : \/ entries[i].base < entries[j].base
                                              \/ entries[i].base = entries[j].base /\ j <= i]

Exchanged(entries) ==
  {k \in DOMAIN entries \ {1} : entries[k].base <= Bubble(entries, k - 1).base}

\* Passed, had the exchange not been stored.
MutantPassed(entries) == entries

Passed(entries) ==
  [k \in DOMAIN entries |->
     IF k + 1 \in Exchanged(entries) THEN entries[k + 1] ELSE Bubble(entries, k)]

\* SortEntries, left out.
MutantSortEntries ==
  /\ booted = "SortEntries"
  /\ booted' = "FixEntries"
  /\ UNCHANGED <<bootMap, memoryEntries, free, maxMemoryIndex>>

SortEntries ==
  /\ booted = "SortEntries"
  /\ memoryEntries' = Passed(memoryEntries)
  /\ booted' = IF Exchanged(memoryEntries) = {} THEN "FixEntries" ELSE "SortEntries"
  /\ UNCHANGED <<bootMap, free, maxMemoryIndex>>

\* Above, had the cut been forgotten.
MutantAbove(e) == e

\* FixEntries: what lies below the kernel's end is cut off ...
Above(e) ==
  IF e.base >= KernelEnd THEN e
  ELSE [e EXCEPT !.base = KernelEnd,
                 !.length = IF e.length < KernelEnd - e.base THEN 0
                            ELSE e.length - (KernelEnd - e.base)]

\* Rounded, with memory rounded outwards as well.
MutantRounded(e) == [e EXCEPT !.base = Down(e.base), !.length = Up(e.length)]

\* ... and the rest is rounded to pages: inwards for memory, whose length may
\* become negative, and outwards for the rest, whose difference is unsigned.
Rounded(e) ==
  IF e.type = 1
  THEN [e EXCEPT !.base = Up(e.base), !.length = Down(e.length - (Up(e.base) - e.base))]
  ELSE [e EXCEPT !.base = Down(e.base),
                 !.length = Up(e.length + ((Down(e.base) - e.base) % Word))]

Fixed(e) ==
  IF (e.base < KernelEnd /\ e.length < KernelEnd - e.base)
     \/ (Aligned(Above(e).base) /\ Aligned(Above(e).length))
  THEN Above(e) ELSE Rounded(Above(e))

FixEntries ==
  /\ booted = "FixEntries"
  /\ memoryEntries' = [k \in DOMAIN memoryEntries |-> Fixed(memoryEntries[k])]
  /\ booted' = "CreateMemoryMap"
  /\ UNCHANGED <<bootMap, free, maxMemoryIndex>>

Usable(e) == e.type = 1 /\ e.length # 0 /\ e.base < Word

\* What AddFreeMemory is told of an entry: an unsigned number of 32 bits.
Length(e) == (IF e.base + e.length >= Word THEN Word - 1 - e.base ELSE e.length) % Word

KernelRegion == <<KernelBeg, KernelEnd - KernelBeg>>
Regions == Reserved \cup {KernelRegion}

FreedPages ==
  UNION {Added(memoryEntries[k].base, Length(memoryEntries[k])) :
           k \in {n \in DOMAIN memoryEntries : Usable(memoryEntries[n])}}

\* The maximum after the first k entries.
maxUpTo[k \in 0..Len(memoryEntries)] ==
  IF k = 0 THEN 0
  ELSE IF Usable(memoryEntries[k])
       THEN MaxAdded(maxUpTo[k - 1], memoryEntries[k].base, Length(memoryEntries[k]))
       ELSE maxUpTo[k - 1]

MaxFreed == maxUpTo[Len(memoryEntries)]

CreateMemoryMap ==
  /\ booted = "CreateMemoryMap"
  /\ free' = FreedPages \ UNION {Taken(r[1], r[2]) : r \in Regions}
  /\ LET ends == {MaxReserved(MaxFreed, r[1], r[2]) : r \in Regions}
     IN maxMemoryIndex' = CHOOSE end \in ends : \A e \in ends : e <= end
  /\ booted' = "done"
  /\ UNCHANGED <<bootMap, memoryEntries>>

Boot == SortEntries \/ FixEntries \/ CreateMemoryMap

-----------------------------------------------------------------------------
\* The memory an entry describes, and whether its length stays positive when its
\* beginning is rounded up.
Units(e) == e.base..(e.base + e.length - 1)
PageLeft(e) == e.base + e.length < KernelEnd \/ Up(Above(e).base) <= e.base + e.length

\* No page that the kernel reaches into is ever free, however the entries
\* overlap it (Memory.cpp:74, 148).
KernelKept == \A p \in free : p * PageUnits >= KernelEnd

\* Every free page is memory, wholly inside one entry that says so: entries are
\* rounded inwards (Memory.cpp:91-100).  The exception is a map with memory that
\* begins and ends inside one page, for which the length turns negative and all
\* the rest of the bitmap is freed.
FreeIsMemory ==
  (\A k \in DOMAIN bootMap :
     bootMap[k].type = 1 => PageLeft(bootMap[k]))
  => \A p \in free : \E k \in DOMAIN bootMap :
       /\ bootMap[k].type = 1
       /\ (p * PageUnits)..((p + 1) * PageUnits - 1) \subseteq Units(bootMap[k])

\* PrintMemoryMap (Memory_Physical.cpp:107) stops at maxMemoryIndex: no free page
\* lies beyond.  AddFreeMemory lets the last region decide, so that this rests on
\* the entries having been sorted; overlapping ones are excepted.
MapShown ==
  (\A j, k \in DOMAIN bootMap : j # k => Units(bootMap[j]) \cap Units(bootMap[k]) = {})
  /\ (\A k \in DOMAIN bootMap : PageLeft(bootMap[k]))
  => \A p \in free : p < maxMemoryIndex

\* The bubble sort ends, and with it the boot, if no two entries have one base
\* (Memory.cpp:55 exchanges equal ones for ever).
BootEnds ==
  (\A j, k \in DOMAIN bootMap : j # k => bootMap[j].base # bootMap[k].base)
  ~> booted = "done"
=============================================================================
