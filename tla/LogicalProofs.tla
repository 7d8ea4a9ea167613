----------------------------- MODULE LogicalProofs -----------------------------
(***************************************************************************)
(* Proofs about physical and logical memory (modules Physical and          *)
(* Logical), for any memory map, any sizes of pages, bitmap and tables and *)
(* any requests.                                                           *)
(***************************************************************************)
EXTENDS Logical, FiniteSetTheorems, WellFoundedInduction, TLAPS

-----------------------------------------------------------------------------
(* The boot.                                                               *)

\* An entry of the loader's map.
FromLoader(e) == \E k \in DOMAIN bootMap : e = bootMap[k]

\* The kernel's entries are the loader's, in some order, and later the same
\* with their ends fixed.  Until the bitmap is filled, nobody has a page.
BootInv ==
  /\ bootMap \in Seq(Entry)
  /\ booted \in {"SortEntries", "FixEntries", "CreateMemoryMap", "done"}
  /\ booted \in {"SortEntries", "FixEntries"} =>
       /\ memoryEntries \in Seq(Entry)
       /\ \A k \in DOMAIN memoryEntries : FromLoader(memoryEntries[k])
  /\ booted = "CreateMemoryMap" =>
       \A k \in DOMAIN memoryEntries :
         \E j \in DOMAIN bootMap : memoryEntries[k] = Fixed(bootMap[j])
  /\ booted # "done" =>
       /\ free = {}
       /\ call = [c \in Callers |-> Idle]
       /\ \A a \in Address : a >= PerTable => pte[a] = 0
       /\ \A t \in 1..(Tables - 1) : dir[t] = 0
-----------------------------------------------------------------------------
(* The pages.                                                              *)

Mapped(p) == {a \in Address : a >= PerTable /\ pte[a] = p}
IsTable(p) == {t \in 1..(Tables - 1) : dir[t] = p}
Holding(p) == {c \in Callers : call[c].at = "map" /\ call[c].page = p}

One(S) == \A u, v \in S : u = v

Unheld(p) == Mapped(p) = {} /\ IsTable(p) = {} /\ Holding(p) = {}

\* A page has at most one holder: an address, a table or a caller's hand.
HeldOnce(p) ==
  /\ One(Mapped(p)) /\ One(IsTable(p)) /\ One(Holding(p))
  /\ Mapped(p) = {} \/ IsTable(p) = {}
  /\ Mapped(p) = {} \/ Holding(p) = {}
  /\ IsTable(p) = {} \/ Holding(p) = {}

\* What PagesUnshared needs to be inductive: it counts the pages in the hands of
\* callers too, and says where the page is that a caller has found free.
PagesInv ==
  /\ \A p \in free : p # 0 /\ Unheld(p)
  /\ \A p \in Pages \ {0} : p \notin torn => HeldOnce(p)
  /\ call["handler"].at = "clear" => call["handler"].page \in free
  /\ call["thread"].at = "clear" => call["thread"].page \in free \cup torn

\* The addresses that a caller has still to map.
Ahead(c) == call[c].address..(call[c].address + call[c].left - 1)

CallsInv ==
  \A c \in Callers : call[c].at \in {"test", "clear", "map"} =>
    /\ call[c].left > 0
    /\ call[c].address + call[c].left - 1 \in Address
    /\ \A a \in Ahead(c) : Used(a) => a \in exposed

MemoryInv == MemoryTypeOK /\ BootInv /\ KernelKept /\ FreeIsMemory /\ PagesInv /\ CallsInv
-----------------------------------------------------------------------------
(* The sort only moves entries.                                            *)

\* Some entry is the first of those with the greatest base: one for which the set
\* of entries that it does not beat is smallest.
LEMMA FirstGreatest ==
  ASSUME NEW entries \in Seq(Entry), NEW k \in DOMAIN entries
  PROVE  \E j \in 1..k : \A i \in 1..k : \/ entries[i].base < entries[j].base
                                         \/ entries[i].base = entries[j].base /\ j <= i
<1> DEFINE Over(j) == {i \in 1..k : ~(\/ entries[i].base < entries[j].base
                                      \/ entries[i].base = entries[j].base /\ j <= i)}
           R == StrictSubsetOrdering(1..k)
           S == FiniteSubsetsOf(1..k)
           T == {Over(j) : j \in 1..k}
<1>1. k \in Nat /\ 1 <= k /\ \A i \in 1..k : entries[i].base \in Nat
  <2>1. k \in 1..Len(entries) /\ Len(entries) \in Nat
    OBVIOUS
  <2>2. \A i \in 1..k : entries[i] \in Entry
    BY <2>1
  <2> QED BY <2>1, <2>2 DEF Entry
<1>2. IsWellFoundedOn(R, S)
  BY FS_StrictSubsetOrderingWellFounded
<1>3. T \subseteq S
  <2>1. IsFiniteSet(1..k)
    BY <1>1, FS_Interval
  <2>2. \A j \in 1..k : IsFiniteSet(Over(j))
    BY <2>1, FS_Subset
  <2> QED BY <2>2 DEF FiniteSubsetsOf
<1>4. T # {}
  <2>1. 1 \in 1..k
    BY <1>1
  <2> HIDE DEF Over
  <2> QED BY <2>1
<1>5. \E x \in T : \A y \in T : ~(<<y, x>> \in R)
  <2> HIDE DEF R, S, T
  <2> QED BY <1>2, <1>3, <1>4, WFMin
<1>6. PICK j \in 1..k : \A i \in 1..k : ~(<<Over(i), Over(j)>> \in R)
  BY <1>5
<1>7. ASSUME NEW i \in Over(j) PROVE FALSE
  <2>1. Over(i) \subseteq Over(j) /\ i \notin Over(i) /\ i \in Over(j)
    BY <1>1
  <2> HIDE DEF Over
  <2>2. Over(i) # Over(j) /\ Over(i) \subseteq 1..k /\ Over(j) \subseteq 1..k
    BY <2>1 DEF Over
  <2>3. <<Over(i), Over(j)>> \in R
    BY <2>1, <2>2 DEF StrictSubsetOrdering
  <2>4. i \in 1..k
    BY DEF Over
  <2> QED BY <2>3, <2>4, <1>6
<1> QED BY <1>7

LEMMA PassMoves ==
  ASSUME NEW entries \in Seq(Entry)
  PROVE  /\ Passed(entries) \in Seq(Entry)
         /\ \A k \in DOMAIN Passed(entries) :
              \E j \in DOMAIN entries : Passed(entries)[k] = entries[j]
<1>1. ASSUME NEW k \in DOMAIN entries
      PROVE  \E j \in DOMAIN entries : Bubble(entries, k) = entries[j]
  <2> DEFINE First(j) == \A i \in 1..k : \/ entries[i].base < entries[j].base
                                         \/ entries[i].base = entries[j].base /\ j <= i
  <2>1. \E j \in 1..k : First(j)
    BY FirstGreatest
  <2>2. (CHOOSE j \in 1..k : First(j)) \in 1..k
    <3> HIDE DEF First
    <3> QED BY <2>1
  <2>3. 1..k \subseteq DOMAIN entries
    OBVIOUS
  <2> QED BY <2>2, <2>3 DEF Bubble
<1>2. ASSUME NEW k \in DOMAIN entries
      PROVE  \E j \in DOMAIN entries : Passed(entries)[k] = entries[j]
  <2>1. CASE k + 1 \in Exchanged(entries)
    BY <2>1 DEF Passed, Exchanged
  <2>2. CASE k + 1 \notin Exchanged(entries)
    BY <2>2, <1>1 DEF Passed
  <2> QED BY <2>1, <2>2
<1>3. DOMAIN Passed(entries) = 1..Len(entries)
  BY DEF Passed
<1>4. \A k \in 1..Len(entries) : Passed(entries)[k] \in Entry
  BY <1>2
<1>5. Passed(entries) \in Seq(Entry)
  <2>1. Len(entries) \in Nat
    OBVIOUS
  <2>2. Passed(entries) \in [1..Len(entries) -> Entry]
    BY <1>3, <1>4 DEF Passed
  <2> QED BY <2>1, <2>2
<1>6. DOMAIN Passed(entries) = DOMAIN entries
  BY DEF Passed
<1> QED BY <1>2, <1>5, <1>6
-----------------------------------------------------------------------------
(* The arithmetic of pages.                                                *)

LEMMA Division ==
  ASSUME NEW n \in Int
  PROVE  /\ Down(n) \in Int /\ Down(n) <= n /\ n < Down(n) + PageUnits
         /\ Up(n) \in Int /\ n <= Up(n) /\ Up(n) < n + PageUnits
         /\ n \div PageUnits \in Int
         /\ Down(n) = (n \div PageUnits) * PageUnits
         /\ Aligned(n) => Down(n) = n
<1>1. ASSUME NEW p \in Nat \ {0}, NEW m \in Int
      PROVE  /\ (m \div p) \in Int
             /\ (m \div p) * p \in Int
             /\ (m \div p) * p <= m
             /\ m < (m \div p) * p + p
             /\ m % p = 0 => (m \div p) * p = m
  OBVIOUS
<1>2. PageUnits \in Nat \ {0}
  BY PhysicalAssumption
<1>3. /\ n + PageUnits - 1 \in Int
      /\ Down(n + PageUnits - 1) \in Int
      /\ Down(n + PageUnits - 1) <= n + PageUnits - 1
      /\ n + PageUnits - 1 < Down(n + PageUnits - 1) + PageUnits
  BY <1>1, <1>2 DEF Down
<1> QED BY <1>1, <1>2, <1>3 DEF Down, Up, Aligned

LEMMA DownPositive ==
  ASSUME NEW n \in Nat
  PROVE  Down(n) >= 0
<1>1. ASSUME NEW p \in Nat \ {0}
      PROVE  (n \div p) * p >= 0
  OBVIOUS
<1> QED BY <1>1, PhysicalAssumption DEF Down

LEMMA Multiples ==
  ASSUME NEW p \in Int, NEW q \in Int
  PROVE  /\ p * PageUnits \in Int
         /\ p <= q <=> p * PageUnits <= q * PageUnits
         /\ (p + 1) * PageUnits = p * PageUnits + PageUnits
         /\ (p - 1) * PageUnits = p * PageUnits - PageUnits
         /\ (p + q) * PageUnits = p * PageUnits + q * PageUnits
<1>1. ASSUME NEW u \in Nat \ {0}
      PROVE  /\ p * u \in Int
             /\ p <= q <=> p * u <= q * u
             /\ (p + 1) * u = p * u + u
             /\ (p - 1) * u = p * u - u
             /\ (p + q) * u = p * u + q * u
  OBVIOUS
<1> QED BY <1>1, PhysicalAssumption

\* A page that is freed lies wholly inside the region that is.
LEMMA AddedInside ==
  ASSUME NEW address \in Nat, NEW len \in Int, NEW p \in Added(address, len)
  PROVE  /\ p \in 0..(BitmapPages + ByteBits - 1)
         /\ address <= p * PageUnits
         /\ (p + 1) * PageUnits <= address + len
<1> DEFINE part == IF Aligned(address) THEN 0 ELSE 1
           first == address \div PageUnits
           last == first + len \div PageUnits - 1
<1>1. PageUnits \in Nat \ {0} /\ BitmapPages \in Nat /\ ByteBits \in Nat
  BY PhysicalAssumption
<1>2. /\ first \in Int /\ len \div PageUnits \in Int /\ part \in Int
      /\ first * PageUnits = Down(address) /\ Down(address) \in Int
      /\ Down(address) <= address /\ address < Down(address) + PageUnits
      /\ Aligned(address) => Down(address) = address
      /\ (len \div PageUnits) * PageUnits = Down(len) /\ Down(len) \in Int /\ Down(len) <= len
  BY Division
<1>3. p \in (first + part)..last /\ p \in 0..(BitmapPages + ByteBits - 1)
  BY <1>1, <1>2 DEF Added, Bits
<1>4. p \in Int /\ p + 1 \in Int /\ last + 1 = first + len \div PageUnits
  BY <1>2, <1>3
<1>5. address <= p * PageUnits
  <2>1. (first + part) * PageUnits <= p * PageUnits
    <3>1. first + part \in Int /\ first + part <= p
      BY <1>2, <1>3
    <3> HIDE DEF first, part
    <3> QED BY <1>4, <3>1, Multiples
  <2>2. (first + 1) * PageUnits = first * PageUnits + PageUnits
    BY <1>2, Multiples
  <2>3. p * PageUnits \in Int
    BY <1>4, Multiples
  <2>4. CASE Aligned(address)
    <3>1. first + part = first
      BY <1>2, <2>4
    <3> QED BY <1>2, <2>1, <2>4, <3>1
  <2>5. CASE ~Aligned(address)
    <3>1. first + part = first + 1
      BY <2>5
    <3> HIDE DEF first
    <3> QED BY <1>1, <1>2, <2>1, <2>2, <2>3, <3>1
  <2> QED BY <2>4, <2>5
<1>6. (p + 1) * PageUnits <= address + len
  <2>1. (p + 1) * PageUnits <= (first + len \div PageUnits) * PageUnits
    <3>1. p + 1 <= first + len \div PageUnits
      BY <1>2, <1>3
    <3>2. first + len \div PageUnits \in Int
      BY <1>2
    <3> HIDE DEF first
    <3> QED BY <1>4, <3>1, <3>2, Multiples
  <2>2. (first + len \div PageUnits) * PageUnits = Down(address) + Down(len)
    BY <1>2, Multiples
  <2>3. (p + 1) * PageUnits \in Int
    BY <1>4, Multiples
  <2> HIDE DEF first
  <2> QED BY <1>2, <2>1, <2>2, <2>3
<1> QED BY <1>3, <1>5, <1>6

-----------------------------------------------------------------------------
(* What FixEntries leaves of an entry.                                     *)

\* Memory begins behind the kernel ...
LEMMA FixedAbove ==
  ASSUME NEW e \in Entry, Fixed(e).type = 1
  PROVE  /\ e.type = 1
         /\ Fixed(e).base \in Nat /\ Fixed(e).length \in Int
         /\ Fixed(e).base >= KernelEnd /\ Fixed(e).base >= e.base
         /\ PageLeft(e) /\ Usable(Fixed(e)) =>
              Fixed(e).length >= 0 /\ Fixed(e).base + Fixed(e).length <= e.base + e.length
<1> DEFINE f == Above(e)
<1>1. /\ e.base \in Nat /\ e.length \in Nat /\ KernelEnd \in Nat \ {0}
      /\ e.base \in Int /\ e.length \in Int
  BY PhysicalAssumption DEF Entry
<1>2. /\ f.type = e.type /\ f.base \in Nat /\ f.length \in Nat
      /\ f.base >= KernelEnd /\ f.base >= e.base
      /\ e.base < KernelEnd /\ e.length < KernelEnd - e.base => f.length = 0
      /\ ~(e.base < KernelEnd /\ e.length < KernelEnd - e.base) =>
           f.base + f.length = e.base + e.length
  <2>1. CASE e.base >= KernelEnd
    BY <1>1, <2>1 DEF Above
  <2>2. CASE e.base < KernelEnd
    BY <1>1, <2>2 DEF Above, Entry
  <2> QED BY <1>1, <2>1, <2>2
<1>3. CASE Fixed(e) = f
  BY <1>1, <1>2, <1>3 DEF Usable
<1>4. CASE Fixed(e) # f
  <2> DEFINE g == Rounded(f)
             cut == f.length - (Up(f.base) - f.base)
  <2>1. /\ Fixed(e) = g
        /\ ~(e.base < KernelEnd /\ e.length < KernelEnd - e.base)
    BY <1>4 DEF Fixed
  <2>2. f \in [base : Nat, length : Nat, type : Nat]
    <3>1. CASE e.base >= KernelEnd
      BY <1>1, <3>1 DEF Above, Entry
    <3>2. CASE e.base < KernelEnd
      BY <1>1, <1>2, <3>2 DEF Above, Entry
    <3> QED BY <1>1, <3>1, <3>2
  <2> HIDE DEF f
  <2>3. f.type = 1
    BY <2>1, <2>2 DEF Rounded
  <2>4. g.base = Up(f.base) /\ g.length = Down(cut) /\ g.type = 1
    BY <2>2, <2>3 DEF Rounded
  <2>5. /\ Up(f.base) \in Int /\ f.base <= Up(f.base)
        /\ Down(cut) \in Int /\ Down(cut) <= cut
    <3>1. f.base \in Int /\ f.length \in Int
      BY <1>2
    <3>2. Up(f.base) \in Int /\ f.base <= Up(f.base)
      BY <3>1, Division
    <3>3. cut \in Int
      BY <3>1, <3>2
    <3> HIDE DEF cut
    <3> QED BY <3>2, <3>3, Division
  <2>6. PageLeft(e) => g.length >= 0
    <3> SUFFICES ASSUME PageLeft(e) PROVE Down(cut) >= 0
      BY <2>4
    <3>1. Up(f.base) <= f.base + f.length
      BY <1>1, <1>2, <2>1 DEF PageLeft, f
    <3>2. cut \in Int /\ cut >= 0
      BY <1>2, <2>5, <3>1
    <3> HIDE DEF cut
    <3> QED BY <3>2, DownPositive
  <2> QED BY <1>1, <1>2, <2>1, <2>3, <2>4, <2>5, <2>6
<1> QED BY <1>3, <1>4

\* ... and what AddFreeMemory is told of it is not longer.
LEMMA LengthInside ==
  ASSUME NEW e, e.base \in Nat, e.length \in Int, e.base < Word
  PROVE  Length(e) \in Nat /\ (e.length >= 0 => Length(e) <= e.length)
<1> DEFINE n == IF e.base + e.length >= Word THEN Word - 1 - e.base ELSE e.length
<1>1. Word \in Nat \ {0}
  BY PhysicalAssumption
<1>2. n \in Int /\ (e.length >= 0 => 0 <= n /\ n <= e.length /\ n < Word)
  BY <1>1
<1>3. Length(e) = n % Word
  BY DEF Length
<1>4. ASSUME NEW m \in Int, NEW w \in Nat \ {0}
      PROVE  m % w \in Nat /\ (0 <= m /\ m < w => m % w = m)
  OBVIOUS
<1>5. n % Word \in Nat /\ (0 <= n /\ n < Word => n % Word = n)
  <2> HIDE DEF n
  <2> QED BY <1>1, <1>2, <1>4
<1> HIDE DEF n
<1> QED BY <1>2, <1>3, <1>5

LEMMA FreedInside ==
  ASSUME NEW e \in Entry, Usable(Fixed(e)),
         NEW p \in Added(Fixed(e).base, Length(Fixed(e)))
  PROVE  /\ p \in 0..(BitmapPages + ByteBits - 1)
         /\ p * PageUnits >= KernelEnd
         /\ PageLeft(e) => (p * PageUnits)..((p + 1) * PageUnits - 1) \subseteq Units(e)
<1> DEFINE f == Fixed(e)
<1>1. /\ f.base \in Nat /\ f.length \in Int
      /\ f.base >= KernelEnd /\ f.base >= e.base
      /\ PageLeft(e) => f.length >= 0 /\ f.base + f.length <= e.base + e.length
      /\ f.base < Word
  BY FixedAbove DEF Usable
<1>2. e.base \in Nat /\ e.length \in Nat /\ KernelEnd \in Nat
  BY PhysicalAssumption DEF Entry
<1> HIDE DEF f
<1>3. Length(f) \in Nat /\ (f.length >= 0 => Length(f) <= f.length)
  BY <1>1, LengthInside
<1>4. /\ p \in 0..(BitmapPages + ByteBits - 1)
      /\ f.base <= p * PageUnits
      /\ (p + 1) * PageUnits <= f.base + Length(f)
  BY <1>1, <1>3, AddedInside DEF f
<1>5. p * PageUnits \in Int /\ (p + 1) * PageUnits \in Int
  <2>1. p \in Int /\ p + 1 \in Int
    BY <1>4
  <2> QED BY <2>1, Multiples
<1> QED BY <1>1, <1>2, <1>3, <1>4, <1>5 DEF Units

-----------------------------------------------------------------------------
(* The steps of the boot.                                                  *)

\* Until the map is made everything is as it was.
LEMMA SortedOrFixed ==
  ASSUME MemoryInv, UNCHANGED logicalVars, SortEntries \/ FixEntries
  PROVE  /\ MemoryTypeOK' /\ KernelKept' /\ FreeIsMemory' /\ PagesInv' /\ CallsInv'
         /\ bootMap' = bootMap /\ booted # "done" /\ free' = free
<1>1. booted # "done" /\ free = {} /\ free' = free /\ bootMap' = bootMap
  BY DEF MemoryInv, BootInv, SortEntries, FixEntries
<1>2. UNCHANGED <<dir, pte, call, torn, exposed>>
  BY DEF logicalVars
<1>3. MemoryTypeOK'
  BY <1>1, <1>2 DEF MemoryInv, MemoryTypeOK
<1>4. KernelKept' /\ FreeIsMemory'
  BY <1>1 DEF KernelKept, FreeIsMemory
<1>5. PagesInv'
  <2>1. \A p : /\ Mapped(p)' = Mapped(p) /\ IsTable(p)' = IsTable(p)
               /\ Holding(p)' = Holding(p)
    BY <1>2 DEF Mapped, IsTable, Holding
  <2>2. QED
    BY <1>1, <1>2, <2>1 DEF MemoryInv, PagesInv, Unheld, HeldOnce, One
<1>6. CallsInv'
  BY <1>1, <1>2 DEF MemoryInv, CallsInv, Ahead, Used
<1> QED BY <1>1, <1>3, <1>4, <1>5, <1>6

LEMMA SortEntriesStep ==
  ASSUME MemoryInv, UNCHANGED logicalVars, SortEntries
  PROVE  MemoryInv'
<1>1. /\ booted = "SortEntries" /\ booted' \in {"SortEntries", "FixEntries"}
      /\ memoryEntries' = Passed(memoryEntries) /\ bootMap' = bootMap
  BY DEF SortEntries
<1>2. /\ bootMap \in Seq(Entry) /\ memoryEntries \in Seq(Entry)
      /\ \A k \in DOMAIN memoryEntries : FromLoader(memoryEntries[k])
  BY <1>1 DEF MemoryInv, BootInv
<1>3. /\ memoryEntries' \in Seq(Entry)
      /\ \A k \in DOMAIN memoryEntries' : FromLoader(memoryEntries'[k])
  BY <1>1, <1>2, PassMoves
<1>4. BootInv'
  BY <1>1, <1>2, <1>3, SortedOrFixed DEF MemoryInv, BootInv, FromLoader, logicalVars
<1> QED BY <1>4, SortedOrFixed DEF MemoryInv

LEMMA FixEntriesStep ==
  ASSUME MemoryInv, UNCHANGED logicalVars, FixEntries
  PROVE  MemoryInv'
<1>1. /\ booted = "FixEntries" /\ booted' = "CreateMemoryMap" /\ bootMap' = bootMap
      /\ memoryEntries' = [k \in DOMAIN memoryEntries |-> Fixed(memoryEntries[k])]
  BY DEF FixEntries
<1>2. \A k \in DOMAIN memoryEntries : \E j \in DOMAIN bootMap : memoryEntries[k] = bootMap[j]
  BY <1>1 DEF MemoryInv, BootInv, FromLoader
<1>3. \A k \in DOMAIN memoryEntries' :
        \E j \in DOMAIN bootMap' : memoryEntries'[k] = Fixed(bootMap'[j])
  BY <1>1, <1>2
<1>4. BootInv'
  BY <1>1, <1>3, SortedOrFixed DEF MemoryInv, BootInv, logicalVars
<1> QED BY <1>4, SortedOrFixed DEF MemoryInv

LEMMA CreateMemoryMapStep ==
  ASSUME MemoryInv, UNCHANGED logicalVars, CreateMemoryMap
  PROVE  MemoryInv'
<1>1. /\ booted = "CreateMemoryMap" /\ booted' = "done" /\ bootMap' = bootMap
      /\ free' \subseteq FreedPages
  BY DEF CreateMemoryMap
<1>2. UNCHANGED <<dir, pte, call, torn, exposed>>
  BY DEF logicalVars
<1>3. ASSUME NEW p \in free'
      PROVE  /\ p \in 0..(BitmapPages + ByteBits - 1)
             /\ p * PageUnits >= KernelEnd
             /\ \E j \in DOMAIN bootMap :
                  /\ bootMap[j].type = 1
                  /\ PageLeft(bootMap[j]) =>
                       (p * PageUnits)..((p + 1) * PageUnits - 1) \subseteq Units(bootMap[j])
  <2>1. PICK k \in DOMAIN memoryEntries : /\ Usable(memoryEntries[k])
                                          /\ p \in Added(memoryEntries[k].base, Length(memoryEntries[k]))
    BY <1>1, <1>3 DEF FreedPages
  <2>2. PICK j \in DOMAIN bootMap : memoryEntries[k] = Fixed(bootMap[j])
    BY <1>1 DEF MemoryInv, BootInv
  <2>3. bootMap[j] \in Entry
    BY DEF MemoryInv, BootInv
  <2>4. bootMap[j].type = 1
    BY <2>1, <2>2, <2>3, FixedAbove DEF Usable
  <2> QED BY <2>1, <2>2, <2>3, <2>4, FreedInside
<1>4. KernelKept'
  BY <1>3 DEF KernelKept
<1>5. FreeIsMemory'
  BY <1>1, <1>3 DEF FreeIsMemory
<1>6. MemoryTypeOK'
  BY <1>2, <1>3 DEF MemoryInv, MemoryTypeOK
<1>7. BootInv'
  BY <1>1 DEF MemoryInv, BootInv
<1>8. PagesInv'
  <2>1. \A p \in free' : p # 0
    <3>1. 0 * PageUnits = 0 /\ KernelEnd \in Nat \ {0}
      BY PhysicalAssumption
    <3>2. ~(0 >= KernelEnd)
      BY <3>1
    <3> QED BY <1>3, <3>1, <3>2
  <2>2. /\ call = [c \in Callers |-> Idle]
        /\ \A a \in Address : a >= PerTable => pte[a] = 0
        /\ \A t \in 1..(Tables - 1) : dir[t] = 0
    BY <1>1 DEF MemoryInv, BootInv
  <2>3. \A p : p # 0 => Unheld(p)
    BY <2>2 DEF Unheld, Mapped, IsTable, Holding, Idle
  <2>4. \A p : Unheld(p)' <=> Unheld(p)
    BY <1>2 DEF Unheld, Mapped, IsTable, Holding
  <2>5. \A p : HeldOnce(p)' <=> HeldOnce(p)
    BY <1>2 DEF HeldOnce, Mapped, IsTable, Holding
  <2>6. \A c \in Callers : call'[c].at = "idle"
    BY <1>2, <2>2 DEF Idle
  <2>7. \A p \in Pages \ {0} : p \notin torn' => HeldOnce(p)'
    BY <1>2, <2>5 DEF MemoryInv, PagesInv
  <2> QED BY <2>1, <2>3, <2>4, <2>6, <2>7 DEF PagesInv, Callers
<1>9. CallsInv'
  BY <1>2 DEF MemoryInv, CallsInv, Ahead, Used
<1> QED BY <1>4, <1>5, <1>6, <1>7, <1>8, <1>9 DEF MemoryInv

LEMMA BootStep ==
  ASSUME MemoryInv, Boot /\ UNCHANGED logicalVars
  PROVE  MemoryInv'
BY SortEntriesStep, FixEntriesStep, CreateMemoryMapStep DEF Boot

LEMMA MemoryInitInv == LogicalInit => MemoryInv
<1> SUFFICES ASSUME LogicalInit PROVE MemoryInv
  OBVIOUS
<1>1. /\ free = {} /\ booted = "SortEntries" /\ torn = {} /\ exposed = {}
      /\ bootMap \in BootMaps /\ memoryEntries = bootMap
      /\ dir = [t \in 0..(Tables - 1) |-> IF t = 0 THEN 1 ELSE 0]
      /\ pte = [a \in Address |-> IF a < PerTable THEN a ELSE 0]
      /\ call = [c \in Callers |-> Idle]
  BY DEF LogicalInit, PhysicalInit
<1>2. /\ BitmapPages \in Nat /\ BitmapPages > 1 /\ Tables \in Nat /\ Tables > 1
      /\ PerTable \in Nat \ {0} /\ PerTable <= BitmapPages /\ Tables * PerTable \in Nat
      /\ Tables * PerTable > 0
  <2>1. ASSUME NEW m \in Nat \ {0, 1}, NEW n \in Nat \ {0} PROVE m * n \in Nat /\ m * n > 0
    OBVIOUS
  <2> QED BY <2>1, PhysicalAssumption, LogicalAssumption
<1>3. Idle \in [at : {"idle", "test", "clear", "map", "stopped"},
                address : Address, left : Nat, page : 0..BitmapPages - 1]
  BY <1>2 DEF Idle, Address
<1>4. MemoryTypeOK
  <2>1. dir \in [0..(Tables - 1) -> 0..BitmapPages - 1]
    BY <1>1, <1>2
  <2>2. pte \in [Address -> 0..BitmapPages - 1]
    BY <1>1, <1>2 DEF Address
  <2>3. call \in [Callers -> [at : {"idle", "test", "clear", "map", "stopped"},
                              address : Address, left : Nat, page : 0..BitmapPages - 1]]
    BY <1>1, <1>3
  <2> QED BY <1>1, <2>1, <2>2, <2>3 DEF MemoryTypeOK
<1>5. BootInv
  <2>1. bootMap \in Seq(Entry) /\ \A k \in DOMAIN memoryEntries : FromLoader(memoryEntries[k])
    BY <1>1, PhysicalAssumption DEF FromLoader
  <2>2. /\ \A a \in Address : a >= PerTable => pte[a] = 0
        /\ \A t \in 1..(Tables - 1) : dir[t] = 0
    BY <1>1, <1>2 DEF Address
  <2> QED BY <1>1, <2>1, <2>2 DEF BootInv
<1>6. KernelKept /\ FreeIsMemory
  BY <1>1 DEF KernelKept, FreeIsMemory
<1>7. \A p \in Pages \ {0} : Unheld(p)
  BY <1>1, <1>5 DEF BootInv, Unheld, Mapped, IsTable, Holding, Idle, Pages
<1>8. PagesInv
  BY <1>1, <1>7 DEF PagesInv, HeldOnce, Unheld, One, Callers, Idle
<1>9. CallsInv
  BY <1>1 DEF CallsInv, Idle
<1> QED BY <1>4, <1>5, <1>6, <1>8, <1>9 DEF MemoryInv

-----------------------------------------------------------------------------
(* What the steps after the boot have in common.                           *)

LEMMA AddressFacts ==
  /\ BitmapPages \in Nat /\ ByteBits \in Nat /\ PerTable \in Nat \ {0}
  /\ Pages = 0..(BitmapPages - 1)
  /\ Tables * PerTable \in Nat
  /\ \A a \in Address : TableOf(a) \in 0..(Tables - 1) /\ TableOf(a) \in Int
<1>1. ASSUME NEW n \in Nat \ {0}, NEW k \in Int, NEW m \in Int
      PROVE  m * n \in Int /\ (k <= m <=> k * n <= m * n)
  OBVIOUS
<1>2. ASSUME NEW m \in Nat, NEW n \in Nat \ {0}, NEW a \in Nat, a < m * n
      PROVE  a \div n \in 0..(m - 1)
  <2>1. /\ a \div n \in Int /\ (a \div n) * n <= a /\ a \div n >= 0
    OBVIOUS
  <2>2. m * n \in Int /\ (a \div n) * n \in Int
    BY <1>1, <2>1
  <2>3. ~(m * n <= (a \div n) * n)
    BY <1>2, <2>1, <2>2
  <2> QED BY <1>1, <2>1, <2>3
<1>3. /\ BitmapPages \in Nat /\ ByteBits \in Nat /\ PerTable \in Nat \ {0}
      /\ Tables \in Nat
  BY PhysicalAssumption, LogicalAssumption
<1>4. Tables * PerTable \in Nat
  <2>1. ASSUME NEW m \in Nat, NEW n \in Nat PROVE m * n \in Nat
    OBVIOUS
  <2> QED BY <1>3, <2>1
<1>5. ASSUME NEW a \in Address
      PROVE  TableOf(a) \in 0..(Tables - 1) /\ TableOf(a) \in Int
  <2>1. a \in Nat /\ a < Tables * PerTable
    BY <1>4 DEF Address
  <2>2. a \div PerTable \in 0..(Tables - 1)
    BY <1>2, <1>3, <2>1
  <2> QED BY <1>3, <2>2 DEF TableOf
<1> QED BY <1>3, <1>4, <1>5 DEF Pages

\* The map stays and free pages only become fewer.
LEMMA BootKept ==
  ASSUME MemoryInv, booted = "done", UNCHANGED bootVars, free' \subseteq free
  PROVE  BootInv' /\ KernelKept' /\ FreeIsMemory'
BY DEF MemoryInv, BootInv, KernelKept, FreeIsMemory, bootVars

LEMMA FewerHolders ==
  ASSUME NEW p, Mapped(p)' \subseteq Mapped(p), IsTable(p)' \subseteq IsTable(p),
         Holding(p)' \subseteq Holding(p)
  PROVE  /\ Unheld(p) => Unheld(p)'
         /\ HeldOnce(p) => HeldOnce(p)'
BY DEF Unheld, HeldOnce, One

CallState == [at : {"idle", "test", "clear", "map", "stopped"},
              address : Address, left : Nat, page : 0..BitmapPages - 1]

LEMMA StepCalls ==
  ASSUME MemoryInv, NEW c \in Callers, NEW next \in CallState, Step(c, next)
  PROVE  /\ call' \in [Callers -> CallState]
         /\ call'[c] = next
         /\ \A d \in Callers \ {c} : call'[d] = call[d]
         /\ \A p : Holding(p)' \subseteq Holding(p) \cup (IF next.at = "map" THEN {c} ELSE {})
         /\ \A p : next.at # "map" \/ next.page # p => c \notin Holding(p)'
BY DEF MemoryInv, MemoryTypeOK, CallState, Step, Holding

\* A step in which no page changes hands.
LEMMA KeepsPages ==
  ASSUME MemoryInv, NEW c \in Callers, NEW next \in CallState, Step(c, next),
         next.at # "map", next.at = "clear" => next.page \in free,
         UNCHANGED <<dir, pte, free, torn>>
  PROVE  PagesInv'
<1>1. \A p : /\ Mapped(p)' \subseteq Mapped(p) /\ IsTable(p)' \subseteq IsTable(p)
             /\ Holding(p)' \subseteq Holding(p)
  BY StepCalls DEF Mapped, IsTable
<1>2. /\ \A p \in free' : p # 0 /\ Unheld(p)'
      /\ \A p \in Pages \ {0} : p \notin torn' => HeldOnce(p)'
  BY <1>1, FewerHolders DEF MemoryInv, PagesInv
<1>3. /\ call'["handler"].at = "clear" => call'["handler"].page \in free'
      /\ call'["thread"].at = "clear" => call'["thread"].page \in free' \cup torn'
  BY StepCalls DEF MemoryInv, PagesInv, Callers
<1> QED BY <1>2, <1>3 DEF PagesInv

LEMMA TypeKept ==
  ASSUME MemoryInv, free' \subseteq free, call' \in [Callers -> CallState],
         dir' \in [0..(Tables - 1) -> 0..BitmapPages - 1],
         pte' \in [Address -> 0..BitmapPages - 1],
         torn' \subseteq Pages, exposed' \subseteq Address
  PROVE  MemoryTypeOK'
BY DEF MemoryInv, MemoryTypeOK, CallState

LEMMA CallTypes ==
  ASSUME MemoryInv
  PROVE  /\ \A c \in Callers : call[c] \in CallState
         /\ call \in [Callers -> CallState]
         /\ Idle \in CallState
         /\ free \subseteq Int
         /\ torn \subseteq Pages /\ exposed \subseteq Address
         /\ dir \in [0..(Tables - 1) -> 0..BitmapPages - 1]
         /\ pte \in [Address -> 0..BitmapPages - 1]
<1>1. BitmapPages \in Nat /\ BitmapPages > 1 /\ 0 \in Address
  <2>1. Tables * PerTable > 0
    <3>1. ASSUME NEW m \in Nat \ {0, 1}, NEW n \in Nat \ {0} PROVE m * n > 0
      OBVIOUS
    <3> QED BY <3>1, LogicalAssumption
  <2> QED BY <2>1, AddressFacts, LogicalAssumption DEF Address
<1>2. Idle \in CallState
  BY <1>1 DEF Idle, CallState
<1> QED BY <1>1, <1>2 DEF MemoryInv, MemoryTypeOK, CallState

-----------------------------------------------------------------------------
(* The steps of one caller.                                                *)

LEMMA FoundStretch ==
  ASSUME MemoryInv, NEW count \in Requests, NEW a \in Stretches(count)
  PROVE  /\ a \in Address /\ a >= PerTable /\ a + count - 1 \in Address
         /\ \A b \in a..(a + count - 1) : ~Used(b)
         /\ Found(a) \in Address /\ Found(a) + count - 1 \in Address
         /\ Found(a)..(Found(a) + count - 1) \subseteq Address
         /\ count \in Nat \ {0}
<1>1. count \in Nat \ {0}
  BY LogicalAssumption
<1>2. /\ a \in Address /\ a + count - 1 \in Address
      /\ \A b \in a..(a + count - 1) : ~Used(b)
  BY DEF Stretches
<1>3. a \in Int /\ a \in a..(a + count - 1)
  BY <1>1, <1>2 DEF Address
<1>4. a >= PerTable
  BY <1>2, <1>3, AddressFacts DEF Used, Address
<1>5. Found(a) = a \/ Found(a) = a - PerTable
  BY DEF Found
<1>6. Found(a) \in Address /\ Found(a) + count - 1 \in Address
  BY <1>1, <1>2, <1>3, <1>4, <1>5, AddressFacts DEF Address
<1> QED BY <1>1, <1>2, <1>4, <1>6, AddressFacts DEF Address

LEMMA AllocStep ==
  ASSUME MemoryInv, NEW c \in Callers, NEW count \in Requests, Alloc(c, count)
  PROVE  MemoryInv'
<1>1. /\ booted = "done" /\ call[c].at = "idle"
      /\ UNCHANGED <<bootVars, free, dir, pte, torn>>
  BY DEF Alloc, Running, physicalVars
<1>2. BootInv' /\ KernelKept' /\ FreeIsMemory'
  BY <1>1, BootKept
<1>3. CASE Stretches(count) = {}
  <2> DEFINE next == [Idle EXCEPT !.at = "stopped"]
  <2>1. Step(c, next) /\ UNCHANGED exposed
    BY <1>3 DEF Alloc
  <2>2. next \in CallState /\ next.at = "stopped"
    BY CallTypes DEF CallState, Idle
  <2> HIDE DEF next
  <2>3. /\ call' \in [Callers -> CallState] /\ call'[c] = next
        /\ \A d \in Callers \ {c} : call'[d] = call[d]
    BY <2>1, <2>2, StepCalls
  <2>4. PagesInv'
    BY <1>1, <2>1, <2>2, KeepsPages DEF MemoryInv
  <2>5. CallsInv'
    BY <1>1, <2>1, <2>2, <2>3 DEF MemoryInv, CallsInv, Ahead, Used
  <2>6. MemoryTypeOK'
    BY <1>1, <2>1, <2>3, CallTypes, TypeKept
  <2> QED BY <1>2, <2>4, <2>5, <2>6 DEF MemoryInv
<1>4. CASE Stretches(count) # {}
  <2>1. PICK a \in Stretches(count) :
          /\ Step(c, [Idle EXCEPT !.at = "test", !.address = Found(a), !.left = count])
          /\ exposed' = IF Found(a) = a THEN exposed
                        ELSE exposed \cup Found(a)..(Found(a) + count - 1)
    BY <1>4 DEF Alloc
  <2> DEFINE next == [Idle EXCEPT !.at = "test", !.address = Found(a), !.left = count]
  <2>2. /\ a \in Address /\ a >= PerTable
        /\ \A b \in a..(a + count - 1) : ~Used(b)
        /\ Found(a) \in Address /\ Found(a) + count - 1 \in Address
        /\ Found(a)..(Found(a) + count - 1) \subseteq Address
        /\ count \in Nat \ {0}
    BY <2>1, FoundStretch
  <2>3. /\ next \in CallState /\ next.at = "test"
        /\ next.address = Found(a) /\ next.left = count
    BY <2>2, CallTypes DEF CallState, Idle
  <2>4. Step(c, next)
    BY <2>1
  <2> HIDE DEF next
  <2>5. /\ call' \in [Callers -> CallState] /\ call'[c] = next
        /\ \A d \in Callers \ {c} : call'[d] = call[d]
    BY <2>3, <2>4, StepCalls
  <2>6. PagesInv'
    BY <1>1, <2>3, <2>4, KeepsPages
  <2>7. /\ exposed' \subseteq Address /\ exposed \subseteq exposed'
        /\ \A b \in Found(a)..(Found(a) + count - 1) : Used(b) => b \in exposed'
    BY <2>1, <2>2, CallTypes
  <2>8. CallsInv'
    BY <1>1, <2>2, <2>3, <2>5, <2>7 DEF MemoryInv, CallsInv, Ahead, Used
  <2>9. MemoryTypeOK'
    BY <1>1, <2>5, <2>7, CallTypes, TypeKept
  <2> QED BY <1>2, <2>6, <2>8, <2>9 DEF MemoryInv
<1> QED BY <1>3, <1>4

LEMMA TestStep ==
  ASSUME MemoryInv, NEW c \in Callers, Test(c)
  PROVE  MemoryInv'
<1>1. /\ booted = "done" /\ call[c].at = "test" /\ call[c] \in CallState
      /\ UNCHANGED <<bootVars, free, dir, pte, torn, exposed>>
  BY CallTypes DEF Test, Running, physicalVars
<1>2. PICK next \in CallState :
        /\ Step(c, next)
        /\ \/ next.at = "stopped"
           \/ next.at = "clear" /\ next.page \in free
        /\ next.address = call[c].address /\ next.left = call[c].left
  <2>1. CASE free \cap Pages = {}
    BY <1>1, <2>1 DEF Test, CallState
  <2>2. CASE free \cap Pages # {}
    <3>1. PICK p \in Pages : /\ p \in free
                             /\ Step(c, [call[c] EXCEPT !.at = "clear", !.page = p])
      BY <2>2 DEF Test, IsFirst
    <3>2. [call[c] EXCEPT !.at = "clear", !.page = p] \in CallState
      BY <1>1, AddressFacts DEF CallState
    <3> QED BY <1>1, <3>1, <3>2 DEF CallState
  <2> QED BY <2>1, <2>2
<1>3. /\ call' \in [Callers -> CallState] /\ call'[c] = next
      /\ \A d \in Callers \ {c} : call'[d] = call[d]
  BY <1>2, StepCalls
<1>4. PagesInv'
  BY <1>1, <1>2, KeepsPages
<1>5. CallsInv'
  BY <1>1, <1>2, <1>3 DEF MemoryInv, CallsInv, Ahead, Used
<1>6. MemoryTypeOK'
  BY <1>1, <1>3, CallTypes, TypeKept
<1> QED BY <1>1, <1>4, <1>5, <1>6, BootKept DEF MemoryInv

LEMMA MapStopsStep ==
  ASSUME MemoryInv, NEW c \in Callers, MapStops(c)
  PROVE  MemoryInv'
<1> DEFINE next == [call[c] EXCEPT !.at = "stopped"]
<1>1. /\ booted = "done" /\ call[c] \in CallState /\ Step(c, next)
      /\ UNCHANGED <<bootVars, free, dir, pte, torn, exposed>>
  BY CallTypes DEF MapStops, Running, physicalVars
<1>2. next \in CallState /\ next.at = "stopped"
  BY <1>1 DEF CallState
<1> HIDE DEF next
<1>3. /\ call' \in [Callers -> CallState] /\ call'[c] = next
      /\ \A d \in Callers \ {c} : call'[d] = call[d]
  BY <1>1, <1>2, StepCalls
<1>4. PagesInv'
  BY <1>1, <1>2, KeepsPages
<1>5. CallsInv'
  BY <1>1, <1>2, <1>3 DEF MemoryInv, CallsInv, Ahead, Used
<1>6. MemoryTypeOK'
  BY <1>1, <1>3, CallTypes, TypeKept
<1> QED BY <1>1, <1>4, <1>5, <1>6, BootKept DEF MemoryInv

\* A page that is taken leaves the bitmap; if the thread has it in hand, it is torn.
LEMMA TakingHand ==
  ASSUME MemoryInv, NEW c \in Callers, Running(c), NEW p \in free \cap Pages, Taking(c, {p})
  PROVE  /\ free' = free \ {p} /\ torn \subseteq torn' /\ torn' \subseteq Pages
         /\ c = "thread" => torn' = torn
         /\ c = "handler" /\ call["thread"].at = "clear" =>
              call["thread"].page \in free' \cup torn'
BY CallTypes DEF Taking, InHand, MemoryInv, PagesInv

LEMMA ClearStep ==
  ASSUME MemoryInv, NEW c \in Callers, Clear(c)
  PROVE  MemoryInv'
<1> DEFINE next == [call[c] EXCEPT !.at = "map"]
<1> PICK p \in Pages : p = call[c].page
  BY CallTypes, AddressFacts DEF CallState
<1>1. /\ booted = "done" /\ Running(c) /\ call[c].at = "clear" /\ call[c] \in CallState
      /\ Taking(c, {p}) /\ Step(c, next)
      /\ UNCHANGED <<bootVars, dir, pte, exposed>>
  BY CallTypes DEF Clear, Running
<1>2. /\ next \in CallState /\ next.at = "map" /\ next.page = p
      /\ next.address = call[c].address /\ next.left = call[c].left
  BY <1>1 DEF CallState
<1> HIDE DEF next
<1>3. /\ call' \in [Callers -> CallState] /\ call'[c] = next
      /\ \A d \in Callers \ {c} : call'[d] = call[d]
      /\ \A q : Holding(q)' \subseteq Holding(q) \cup {c}
      /\ \A q : q # p => c \notin Holding(q)'
  BY <1>1, <1>2, StepCalls
<1>4. /\ free' = free \ {p} /\ torn \subseteq torn' /\ torn' \subseteq Pages
  BY <1>1, CallTypes DEF Taking, InHand, CallState, Pages
<1>5. \A q : q # p => /\ Unheld(q) => Unheld(q)'
                      /\ HeldOnce(q) => HeldOnce(q)'
  <2>1. \A q : Mapped(q)' = Mapped(q) /\ IsTable(q)' = IsTable(q)
    BY <1>1 DEF Mapped, IsTable
  <2>2. \A q : q # p => Holding(q)' \subseteq Holding(q)
    BY <1>3
  <2> QED BY <2>1, <2>2, FewerHolders
<1>6. p \in free \/ (c = "thread" /\ p \in torn)
  BY <1>1 DEF MemoryInv, PagesInv, Callers
<1>7. p \in free => HeldOnce(p)'
  <2> SUFFICES ASSUME p \in free PROVE HeldOnce(p)'
    OBVIOUS
  <2>1. Mapped(p) = {} /\ IsTable(p) = {} /\ Holding(p) = {}
    BY DEF MemoryInv, PagesInv, Unheld
  <2>2. Mapped(p)' = {} /\ IsTable(p)' = {} /\ Holding(p)' \subseteq {c}
    BY <1>1, <1>3, <2>1 DEF Mapped, IsTable
  <2> QED BY <2>2 DEF HeldOnce, One
<1>8. /\ \A q \in free' : q # 0 /\ Unheld(q)'
      /\ \A q \in Pages \ {0} : q \notin torn' => HeldOnce(q)'
  BY <1>4, <1>5, <1>6, <1>7 DEF MemoryInv, PagesInv
<1>9. /\ call'["handler"].at = "clear" => call'["handler"].page \in free'
      /\ call'["thread"].at = "clear" => call'["thread"].page \in free' \cup torn'
  <2>1. CASE c = "thread"
    BY <1>1, <1>2, <1>3, <2>1 DEF Running, Callers
  <2>2. CASE c = "handler"
    BY <1>1, <1>2, <1>3, <1>4, <2>2 DEF Callers, Taking, InHand, MemoryInv, PagesInv
  <2> QED BY <2>1, <2>2 DEF Callers
<1>10. PagesInv'
  BY <1>8, <1>9 DEF PagesInv
<1>11. CallsInv'
  BY <1>1, <1>2, <1>3 DEF MemoryInv, CallsInv, Ahead, Used
<1>12. MemoryTypeOK'
  BY <1>1, <1>3, <1>4, CallTypes, TypeKept
<1> QED BY <1>1, <1>4, <1>10, <1>11, <1>12, BootKept DEF MemoryInv

\* The page in a caller's hand goes to the address where the caller is.
LEMMA MapPageHolders ==
  ASSUME MemoryInv, NEW c \in Callers, Running(c), call[c].at = "map",
         NEW a \in Address, a = call[c].address,
         NEW p \in Pages, p = call[c].page, MapPage(c, a, p)
  PROVE  /\ pte' \in [Address -> 0..BitmapPages - 1]
         /\ call' \in [Callers -> CallState]
         /\ exposed' \subseteq Address
         /\ CallsInv'
         /\ \A q : q # p => Mapped(q)' \subseteq Mapped(q)
         /\ Mapped(p)' \subseteq Mapped(p) \cup {a}
         /\ \A q : Holding(q)' \subseteq Holding(q) \ {c}
         /\ call'[c].at \notin {"clear", "map"}
         /\ \A d \in Callers \ {c} : call'[d] = call[d]
         /\ UNCHANGED bootVars
<1> DEFINE next == IF call[c].left = 1 THEN Idle
                   ELSE [at |-> "test", address |-> a + 1, left |-> call[c].left - 1, page |-> 0]
<1>1. /\ call[c] \in CallState /\ call[c].left > 0 /\ a + call[c].left - 1 \in Address
      /\ \A b \in a..(a + call[c].left - 1) : Used(b) => b \in exposed
  BY CallTypes DEF MemoryInv, CallsInv, Ahead
<1>2. /\ next \in CallState /\ next.at \in {"idle", "test"}
      /\ next.at = "test" => /\ next.address = a + 1 /\ next.left = call[c].left - 1
                             /\ next.left > 0
  <2>1. CASE call[c].left = 1
    BY <2>1, CallTypes DEF Idle
  <2>2. CASE call[c].left # 1
    <3>1. a + 1 \in Address /\ call[c].left - 1 \in Nat /\ call[c].left - 1 > 0
      <4>1. call[c].left \in Nat
        BY <1>1 DEF CallState
      <4>2. PICK n \in Nat : Address = 0..(n - 1)
        BY AddressFacts DEF Address
      <4> QED BY <1>1, <2>2, <4>1, <4>2
    <3>2. 0 \in 0..BitmapPages - 1
      BY AddressFacts, LogicalAssumption
    <3> QED BY <2>2, <3>1, <3>2 DEF CallState
  <2> QED BY <2>1, <2>2
<1>3. /\ pte' = [pte EXCEPT ![a] = p] /\ Step(c, next) /\ UNCHANGED bootVars
      /\ exposed' = IF c = "handler" /\ a \in Pending THEN exposed \cup {a} ELSE exposed
  BY DEF MapPage
<1> HIDE DEF next
<1>4. /\ call' \in [Callers -> CallState] /\ call'[c] = next
      /\ \A d \in Callers \ {c} : call'[d] = call[d]
      /\ \A q : Holding(q)' \subseteq Holding(q) \ {c}
  BY <1>2, <1>3, StepCalls
<1>5. pte' \in [Address -> 0..BitmapPages - 1] /\ exposed' \subseteq Address
  BY <1>3, CallTypes, AddressFacts
<1>6. /\ \A q : q # p => Mapped(q)' \subseteq Mapped(q)
      /\ Mapped(p)' \subseteq Mapped(p) \cup {a}
  BY <1>3, CallTypes DEF Mapped
<1>7. ASSUME NEW d \in Callers, call'[d].at \in {"test", "clear", "map"}
      PROVE  /\ call'[d].left > 0
             /\ call'[d].address + call'[d].left - 1 \in Address
             /\ \A b \in Ahead(d)' : Used(b)' => b \in exposed'
  <2>1. CASE d = c
    <3>1. /\ call'[d].address = a + 1 /\ call'[d].left = call[c].left - 1
          /\ call[c].left \in Nat /\ a \in Int
      BY <1>1, <1>2, <1>4, <1>7, <2>1 DEF CallState, Address
    <3>2. \A b \in Ahead(d)' : b \in a..(a + call[c].left - 1) /\ b # a
      BY <3>1 DEF Ahead
    <3>3. \A b \in Ahead(d)' : Used(b)' => Used(b)
      BY <1>3, <3>2, CallTypes DEF Used
    <3>4. a + 1 + (call[c].left - 1) - 1 = a + call[c].left - 1
      BY <3>1
    <3> QED BY <1>1, <1>2, <1>3, <1>4, <1>7, <2>1, <3>1, <3>2, <3>3, <3>4
  <2>2. CASE d # c
    <3>1. call'[d] = call[d]
      BY <1>4, <2>2
    <3>2. c = "handler" /\ d = "thread"
      BY <1>7, <2>2, <3>1 DEF Callers, Running
    <3>3. /\ call[d].left > 0 /\ call[d].address + call[d].left - 1 \in Address
          /\ \A b \in Ahead(d) : Used(b) => b \in exposed
      BY <1>7, <3>1 DEF MemoryInv, CallsInv
    <3>4. Ahead(d)' = Ahead(d) /\ Ahead(d) = Pending
      BY <3>1, <3>2 DEF Ahead, Pending
    <3>5. \A b \in Pending : Used(b)' => Used(b) \/ b = a
      BY <1>3, CallTypes DEF Used
    <3> QED BY <1>3, <3>1, <3>2, <3>3, <3>4, <3>5
  <2> QED BY <2>1, <2>2
<1>8. CallsInv'
  BY <1>7 DEF CallsInv
<1> QED BY <1>2, <1>3, <1>4, <1>5, <1>6, <1>8

\* What the page in a caller's hand goes to is its only holder, and one table's page
\* at most is taken for it.
LEMMA HandDown ==
  ASSUME MemoryInv, NEW c \in Callers, Running(c), call[c].at = "map",
         NEW a \in Address, a = call[c].address,
         NEW p \in Pages, p = call[c].page, MapPage(c, a, p),
         NEW q, free' = free \ {q}, torn \subseteq torn', torn' \subseteq Pages,
         c = "thread" => torn' = torn,
         c = "handler" /\ call["thread"].at = "clear" => call["thread"].page \in free' \cup torn',
         q # p => q \in free,
         \A r : r # q => IsTable(r)' \subseteq IsTable(r),
         q # p => One(IsTable(q)'),
         q = p => IsTable(q)' \subseteq IsTable(q)
  PROVE  PagesInv'
<1>1. /\ \A r : r # p => Mapped(r)' \subseteq Mapped(r)
      /\ Mapped(p)' \subseteq Mapped(p) \cup {a}
      /\ \A r : Holding(r)' \subseteq Holding(r) \ {c}
      /\ call'[c].at \notin {"clear", "map"}
      /\ \A d \in Callers \ {c} : call'[d] = call[d]
  BY MapPageHolders
<1>2. c \in Holding(p) /\ p \notin free
  BY DEF Holding, MemoryInv, PagesInv, Unheld
<1>3. \A r : r # p /\ r # q => /\ Unheld(r) => Unheld(r)'
                               /\ HeldOnce(r) => HeldOnce(r)'
  BY <1>1, FewerHolders
<1>4. HeldOnce(p) => HeldOnce(p)'
  <2> SUFFICES ASSUME HeldOnce(p) PROVE HeldOnce(p)'
    OBVIOUS
  <2>1. Mapped(p) = {} /\ IsTable(p) = {} /\ Holding(p) = {c}
    BY <1>2 DEF HeldOnce, One
  <2>2. IsTable(p)' \subseteq IsTable(p)
    OBVIOUS
  <2>3. Mapped(p)' \subseteq {a} /\ IsTable(p)' = {} /\ Holding(p)' = {}
    BY <1>1, <2>1, <2>2
  <2> QED BY <2>3 DEF HeldOnce, One
<1>5. q # p => HeldOnce(q)'
  <2> SUFFICES ASSUME q # p PROVE HeldOnce(q)'
    OBVIOUS
  <2>1. Mapped(q) = {} /\ Holding(q) = {}
    BY DEF MemoryInv, PagesInv, Unheld
  <2>2. Mapped(q)' = {} /\ Holding(q)' = {}
    BY <1>1, <2>1
  <2> QED BY <2>2 DEF HeldOnce, One
<1>6. \A r \in free' : r # 0 /\ Unheld(r)'
  BY <1>2, <1>3 DEF MemoryInv, PagesInv
<1>7. \A r \in Pages \ {0} : r \notin torn' => HeldOnce(r)'
  BY <1>3, <1>4, <1>5 DEF MemoryInv, PagesInv
<1>8. call'["handler"].at = "clear" => call'["handler"].page \in free'
  BY <1>1 DEF Callers, Running
<1>9. call'["thread"].at = "clear" => call'["thread"].page \in free' \cup torn'
  BY <1>1 DEF Callers, Running
<1> QED BY <1>6, <1>7, <1>8, <1>9 DEF PagesInv

LEMMA MapInTableStep ==
  ASSUME MemoryInv, NEW c \in Callers, MapInTable(c)
  PROVE  MemoryInv'
<1> PICK p \in Pages : p = call[c].page
  BY CallTypes, AddressFacts DEF CallState
<1> PICK a \in Address : a = call[c].address
  BY CallTypes DEF CallState
<1>1. /\ Running(c) /\ call[c].at = "map" /\ MapPage(c, a, p)
      /\ UNCHANGED <<free, dir, torn>> /\ booted = "done"
  BY DEF MapInTable, Running
<1>2. p \notin free
  BY <1>1 DEF Holding, MemoryInv, PagesInv, Unheld
<1>3. \A r : IsTable(r)' \subseteq IsTable(r)
  BY <1>1 DEF IsTable
<1>4. c = "handler" /\ call["thread"].at = "clear" => call["thread"].page \in free' \cup torn'
  BY <1>1 DEF MemoryInv, PagesInv
<1>5. free' = free \ {p} /\ torn' = torn /\ torn \subseteq Pages
  BY <1>1, <1>2, CallTypes
<1>6. PagesInv'
  BY <1>1, <1>3, <1>4, <1>5, HandDown
<1>7. CallsInv' /\ MemoryTypeOK'
  BY <1>1, <1>5, MapPageHolders, TypeKept, CallTypes
<1> QED BY <1>1, <1>6, <1>7, BootKept, MapPageHolders DEF MemoryInv

LEMMA MapNewTableStep ==
  ASSUME MemoryInv, NEW c \in Callers, MapNewTable(c)
  PROVE  MemoryInv'
<1> PICK p \in Pages : p = call[c].page
  BY CallTypes, AddressFacts DEF CallState
<1> PICK a \in Address : a = call[c].address
  BY CallTypes DEF CallState
<1>1. /\ Running(c) /\ call[c].at = "map" /\ MapPage(c, a, p) /\ booted = "done"
  BY DEF MapNewTable, Running
<1>2. PICK q \in free \cap Pages : Taking(c, {q}) /\ dir' = [dir EXCEPT ![TableOf(a)] = q]
  BY DEF MapNewTable, IsFirst
<1>3. /\ free' = free \ {q} /\ torn \subseteq torn' /\ torn' \subseteq Pages
      /\ c = "thread" => torn' = torn
      /\ c = "handler" /\ call["thread"].at = "clear" => call["thread"].page \in free' \cup torn'
  BY <1>1, <1>2, TakingHand
<1>4. p \notin free /\ q # p /\ IsTable(q) = {}
  BY <1>1, <1>2 DEF Holding, MemoryInv, PagesInv, Unheld
<1>5. dir' \in [0..(Tables - 1) -> 0..BitmapPages - 1]
  BY <1>2, CallTypes, AddressFacts
<1>6. /\ \A r : r # q => IsTable(r)' \subseteq IsTable(r)
      /\ One(IsTable(q)')
  <2>1. DOMAIN dir = 0..(Tables - 1)
    BY CallTypes
  <2>2. \A t \in 1..(Tables - 1) : t \in 0..(Tables - 1)
    BY LogicalAssumption
  <2>3. \A r : r # q => IsTable(r)' \subseteq IsTable(r)
    BY <1>2, <2>1, <2>2 DEF IsTable
  <2>4. \A t \in 1..(Tables - 1) : t # TableOf(a) => dir'[t] = dir[t]
    BY <1>2, <2>1, <2>2
  <2>5. IsTable(q)' \subseteq {TableOf(a)}
    BY <1>4, <2>4 DEF IsTable
  <2> QED BY <2>3, <2>5 DEF One
<1>7. PagesInv'
  BY <1>1, <1>2, <1>3, <1>4, <1>6, HandDown
<1>8. CallsInv' /\ MemoryTypeOK'
  BY <1>1, <1>3, <1>5, MapPageHolders, TypeKept, CallTypes
<1> QED BY <1>1, <1>3, <1>7, <1>8, BootKept, MapPageHolders DEF MemoryInv

-----------------------------------------------------------------------------
(* The users that map a run of pages.                                      *)

\* Nobody has a page in hand, and each page of the run and each page that is taken
\* for a table gets one place.
LEMMA MapRunPages ==
  ASSUME MemoryInv, ThreadFree, NEW a \in Int, NEW count \in Nat,
         a..(a + count - 1) \subseteq Address,
         NEW p \in Runs(count), MapRun(a, p, count), UNCHANGED <<call, torn>>
  PROVE  /\ PagesInv' /\ free' \subseteq free
         /\ pte' \in [Address -> 0..BitmapPages - 1]
         /\ dir' \in [0..(Tables - 1) -> 0..BitmapPages - 1]
         /\ \A b \in Address : b \notin a..(a + count - 1) => pte'[b] = pte[b]
<1> DEFINE run == p..(p + count - 1)
           added == {t \in {TableOf(b) : b \in a..(a + count - 1)} : dir[t] = 0}
           left == (free \cap Pages) \ run
<1>1. PICK page \in [added -> left] :
        /\ \A t, u \in added : t < u => page[t] < page[u]
        /\ dir' = [t \in DOMAIN dir |-> IF t \in added THEN page[t] ELSE dir[t]]
        /\ pte' = [b \in Address |-> IF b \in a..(a + count - 1) THEN p + b - a ELSE pte[b]]
        /\ free' = (free \ run) \ {page[t] : t \in added}
  BY DEF MapRun
<1>2. /\ p \in Nat /\ p + count <= BitmapPages /\ run \subseteq free /\ run \subseteq Pages
  BY AddressFacts DEF Runs
<1>3. added \subseteq 0..(Tables - 1)
  BY AddressFacts
<1>4. \A c \in Callers : call'[c] = call[c] /\ call[c].at = "idle"
  BY DEF ThreadFree, Running, Callers
<1> HIDE DEF added, left
<1>5. \A t \in added : page[t] \in free /\ page[t] \notin run /\ page[t] \in Pages
  BY <1>1 DEF left
<1>6. \A t, u \in added : page[t] = page[u] => t = u
  <2>1. \A t \in added : t \in Int /\ page[t] \in Int
    BY <1>3, <1>5, AddressFacts
  <2>2. \A t, u \in added : t # u => t < u \/ u < t
    BY <2>1
  <2> QED BY <1>1, <2>1, <2>2
<1>7. \A b \in a..(a + count - 1) : b \in Int /\ p + b - a \in run
  BY <1>2
<1>8. \A b, d \in a..(a + count - 1) : p + b - a = p + d - a => b = d
  BY <1>2
<1>9. free' \subseteq free
  BY <1>1
<1>10. pte' \in [Address -> 0..BitmapPages - 1]
  <2>1. \A b \in a..(a + count - 1) : p + b - a \in 0..BitmapPages - 1
    BY <1>2, <1>7, AddressFacts
  <2> QED BY <1>1, <2>1, CallTypes
<1>11. dir' \in [0..(Tables - 1) -> 0..BitmapPages - 1]
  BY <1>1, <1>5, CallTypes, AddressFacts
<1>12. \A q : Holding(q)' = {} /\ Holding(q) = {}
  BY <1>4 DEF Holding
<1> HIDE DEF run
<1>13. ASSUME NEW q, q \notin run, \A t \in added : page[t] # q
       PROVE  /\ Unheld(q) => Unheld(q)'
              /\ HeldOnce(q) => HeldOnce(q)'
  <2>1. Mapped(q)' \subseteq Mapped(q)
    BY <1>1, <1>7, <1>13 DEF Mapped
  <2>2. IsTable(q)' \subseteq IsTable(q)
    BY <1>1, <1>13, CallTypes DEF IsTable
  <2> QED BY <1>12, <2>1, <2>2, FewerHolders
<1>14. ASSUME NEW q \in run
       PROVE  HeldOnce(q)'
  <2>1. Mapped(q) = {} /\ IsTable(q) = {}
    BY <1>2 DEF MemoryInv, PagesInv, Unheld
  <2>2. IsTable(q)' = {}
    BY <1>1, <1>5, <2>1, CallTypes DEF IsTable
  <2>3. \A b \in Mapped(q)' : b \in a..(a + count - 1) /\ q = p + b - a
    BY <1>1, <2>1 DEF Mapped
  <2>4. One(Mapped(q)')
    BY <1>8, <2>3 DEF One
  <2> QED BY <1>12, <2>2, <2>4 DEF HeldOnce, One
<1>15. ASSUME NEW t \in added
       PROVE  HeldOnce(page[t])'
  <2> PICK q \in free : q = page[t]
    BY <1>5
  <2>1. Mapped(q) = {} /\ IsTable(q) = {}
    BY DEF MemoryInv, PagesInv, Unheld
  <2>2. Mapped(q)' = {}
    BY <1>1, <1>5, <1>7, <2>1 DEF Mapped
  <2>3. \A u \in IsTable(q)' : u \in added /\ page[u] = q
    BY <1>1, <2>1, CallTypes DEF IsTable
  <2>4. One(IsTable(q)')
    BY <1>6, <2>3 DEF One
  <2> QED BY <1>12, <2>2, <2>4 DEF HeldOnce, One
<1>16. \A q \in free' : q # 0 /\ Unheld(q)'
  BY <1>1, <1>13 DEF MemoryInv, PagesInv
<1>17. \A q \in Pages \ {0} : q \notin torn' => HeldOnce(q)'
  BY <1>13, <1>14, <1>15 DEF MemoryInv, PagesInv
<1>18. PagesInv'
  BY <1>4, <1>16, <1>17 DEF PagesInv, Callers
<1>19. \A b \in Address : b \notin a..(a + count - 1) => pte'[b] = pte[b]
  BY <1>1
<1> QED BY <1>9, <1>10, <1>11, <1>18, <1>19

\* While the thread is in none of its calls nobody has an address ahead.
LEMMA MapRunStep ==
  ASSUME MemoryInv, ThreadFree, UNCHANGED <<bootVars, call, torn>>,
         PagesInv', free' \subseteq free,
         pte' \in [Address -> 0..BitmapPages - 1],
         dir' \in [0..(Tables - 1) -> 0..BitmapPages - 1],
         exposed' \subseteq Address
  PROVE  MemoryInv'
<1>1. booted = "done" /\ \A c \in Callers : call'[c] = call[c] /\ call[c].at = "idle"
  BY DEF ThreadFree, Running, Callers
<1>2. CallsInv'
  BY <1>1 DEF CallsInv
<1>3. MemoryTypeOK'
  BY CallTypes, TypeKept
<1> QED BY <1>1, <1>2, <1>3, BootKept DEF MemoryInv

LEMMA MapDeviceStep ==
  ASSUME MemoryInv, NEW count \in Requests, MapDevice(count)
  PROVE  /\ MemoryInv'
         /\ \A b \in Address : Used(b) => pte'[b] = pte[b] \/ b \in exposed'
<1>1. ThreadFree /\ UNCHANGED <<bootVars, call, torn>>
  BY DEF MapDevice
<1>2. PICK p \in Pages :
        /\ IsFirst(p, Runs(count))
        /\ IF Stretches(count) = {}
           THEN free' = free \ (p..(p + count - 1)) /\ UNCHANGED <<dir, pte, exposed>>
           ELSE \E a \in Stretches(count) :
                  /\ MapRun(Found(a), p, count)
                  /\ exposed' = IF Found(a) = a THEN exposed
                                ELSE exposed \cup Found(a)..(Found(a) + count - 1)
  BY DEF MapDevice
<1>3. p \in Runs(count) /\ count \in Nat
  BY <1>2, LogicalAssumption DEF IsFirst
<1>4. CASE Stretches(count) = {}
  <2>1. free' \subseteq free /\ UNCHANGED <<dir, pte, exposed>>
    BY <1>2, <1>4
  <2>2. \A q : /\ Unheld(q) => Unheld(q)'
               /\ HeldOnce(q) => HeldOnce(q)'
    BY <1>1, <2>1, FewerHolders DEF Mapped, IsTable, Holding
  <2>3. \A c \in Callers : call'[c] = call[c] /\ call[c].at = "idle"
    BY <1>1 DEF ThreadFree, Running, Callers
  <2>4. PagesInv'
    BY <1>1, <2>1, <2>2, <2>3 DEF MemoryInv, PagesInv, Callers
  <2> QED BY <1>1, <2>1, <2>4, CallTypes, MapRunStep
<1>5. CASE Stretches(count) # {}
  <2>1. PICK a \in Stretches(count) :
          /\ MapRun(Found(a), p, count)
          /\ exposed' = IF Found(a) = a THEN exposed
                        ELSE exposed \cup Found(a)..(Found(a) + count - 1)
    BY <1>2, <1>5
  <2>2. /\ Found(a) \in Int /\ Found(a)..(Found(a) + count - 1) \subseteq Address
        /\ \A b \in a..(a + count - 1) : ~Used(b)
    BY FoundStretch DEF Address
  <2>3. /\ PagesInv' /\ free' \subseteq free
        /\ pte' \in [Address -> 0..BitmapPages - 1]
        /\ dir' \in [0..(Tables - 1) -> 0..BitmapPages - 1]
        /\ \A b \in Address : b \notin Found(a)..(Found(a) + count - 1) => pte'[b] = pte[b]
    <3> DEFINE at == Found(a)
    <3>1. PICK f \in Int : f = at
      BY <2>2
    <3> HIDE DEF at
    <3>2. f..(f + count - 1) \subseteq Address /\ MapRun(f, p, count)
      BY <2>1, <2>2, <3>1 DEF at
    <3>3. /\ PagesInv' /\ free' \subseteq free
          /\ pte' \in [Address -> 0..BitmapPages - 1]
          /\ dir' \in [0..(Tables - 1) -> 0..BitmapPages - 1]
          /\ \A b \in Address : b \notin f..(f + count - 1) => pte'[b] = pte[b]
      BY <1>1, <1>3, <3>2, MapRunPages
    <3> QED BY <3>1, <3>3 DEF at
  <2>4. exposed' \subseteq Address
    BY <2>1, <2>2, CallTypes
  <2>5. MemoryInv'
    BY <1>1, <2>3, <2>4, MapRunStep
  <2>6. ASSUME NEW b \in Address, Used(b), pte'[b] # pte[b] PROVE b \in exposed'
    BY <2>1, <2>2, <2>3, <2>6
  <2> QED BY <2>5, <2>6
<1> QED BY <1>4, <1>5

LEMMA MapStackStep ==
  ASSUME MemoryInv, NEW count \in Requests, MapStack(count)
  PROVE  /\ MemoryInv'
         /\ \A b \in Address : Used(b) => pte'[b] = pte[b]
<1>1. ThreadFree /\ UNCHANGED <<bootVars, call, torn, exposed>>
  BY DEF MapStack
<1> DEFINE a == StackTop - count
<1>2. PICK p \in Runs(count) : MapRun(a, p, count)
  BY DEF MapStack, IsFirst
<1>3. /\ a \in Int /\ count \in Nat /\ a..(a + count - 1) \subseteq Address
      /\ \A b \in a..(a + count - 1) : ~Used(b)
  <2>1. count \in Nat /\ StackTop \in Int /\ count <= StackTop /\ Tables * PerTable \in Nat
        /\ StackTop <= Tables * PerTable
    BY AddressFacts, LogicalAssumption DEF MapStack
  <2>2. PICK n \in Nat : n = Tables * PerTable
    BY <2>1
  <2>3. Address = 0..(n - 1) /\ StackTop <= n
    BY <2>1, <2>2 DEF Address
  <2>4. a + count - 1 = StackTop - 1
    BY <2>1
  <2>5. a..(a + count - 1) \subseteq Address
    BY <2>1, <2>3, <2>4
  <2>6. \A b \in a..(a + count - 1) : ~Used(b)
    BY <2>4 DEF MapStack
  <2> QED BY <2>1, <2>5, <2>6
<1> HIDE DEF a
<1>4. /\ PagesInv' /\ free' \subseteq free
      /\ pte' \in [Address -> 0..BitmapPages - 1]
      /\ dir' \in [0..(Tables - 1) -> 0..BitmapPages - 1]
      /\ \A b \in Address : b \notin a..(a + count - 1) => pte'[b] = pte[b]
  BY <1>1, <1>2, <1>3, MapRunPages
<1>5. MemoryInv'
  BY <1>1, <1>4, CallTypes, MapRunStep
<1> QED BY <1>3, <1>4, <1>5

-----------------------------------------------------------------------------
(* What PrintMemoryMap shows.                                              *)

\* Numbers are reached from 0: a number that is not is least in a set of them.
LEMMA Numbers ==
  ASSUME NEW S, 0 \in S, \A n \in Nat : n \in S => n + 1 \in S
  PROVE  Nat \subseteq S
<1> DEFINE K == Nat \ S
           R == StrictSubsetOrdering(Nat)
           T == {0..n : n \in K}
<1> SUFFICES ASSUME K # {} PROVE FALSE
  OBVIOUS
<1>1. IsWellFoundedOn(R, FiniteSubsetsOf(Nat))
  BY FS_StrictSubsetOrderingWellFounded
<1>2. T \subseteq FiniteSubsetsOf(Nat)
  <2>1. \A n \in K : 0..n \in SUBSET Nat
    OBVIOUS
  <2>2. ASSUME NEW n \in K PROVE IsFiniteSet(0..n)
    <3>1. n \in Int /\ 0 \in Int
      OBVIOUS
    <3> QED BY <3>1, FS_Interval
  <2> QED BY <2>1, <2>2 DEF FiniteSubsetsOf
<1>3. \E x \in T : \A y \in T : ~(<<y, x>> \in R)
  <2>1. T # {}
    OBVIOUS
  <2> HIDE DEF R, T
  <2> QED BY <1>1, <1>2, <2>1, WFMin
<1>4. PICK m \in K : \A n \in K : ~(<<0..n, 0..m>> \in R)
  BY <1>3
<1>5. m # 0 /\ m - 1 \in K
  <2>1. m \in Nat /\ m \notin S /\ m # 0
    OBVIOUS
  <2>2. m - 1 \in Nat /\ (m - 1) + 1 = m
    BY <2>1
  <2> QED BY <2>1, <2>2
<1>6. 0..(m - 1) \subseteq 0..m /\ m \notin 0..(m - 1) /\ m \in 0..m
  OBVIOUS
<1>7. <<0..(m - 1), 0..m>> \in R
  BY <1>6 DEF StrictSubsetOrdering
<1> QED BY <1>4, <1>5, <1>7

\* A function on a finite set has a greatest value.
LEMMA Greatest ==
  ASSUME NEW S, IsFiniteSet(S), S # {}, NEW f \in [S -> Int]
  PROVE  \E m \in S : \A n \in S : f[n] <= f[m]
<1> DEFINE Over(j) == {i \in S : f[i] > f[j]}
           R == StrictSubsetOrdering(S)
           T == {Over(j) : j \in S}
<1>1. IsWellFoundedOn(R, FiniteSubsetsOf(S))
  BY FS_StrictSubsetOrderingWellFounded
<1>2. T \subseteq FiniteSubsetsOf(S)
  <2>1. \A j \in S : IsFiniteSet(Over(j))
    BY FS_Subset
  <2> QED BY <2>1 DEF FiniteSubsetsOf
<1>3. \E x \in T : \A y \in T : ~(<<y, x>> \in R)
  <2>1. T # {}
    <3> HIDE DEF Over
    <3> QED OBVIOUS
  <2> HIDE DEF R, T
  <2> QED BY <1>1, <1>2, <2>1, WFMin
<1>4. PICK m \in S : \A n \in S : ~(<<Over(n), Over(m)>> \in R)
  BY <1>3
<1>5. ASSUME NEW n \in Over(m) PROVE FALSE
  <2>1. Over(n) \subseteq Over(m) /\ n \notin Over(n) /\ n \in Over(m) /\ n \in S
    <3>1. n \in S /\ f[n] > f[m] /\ \A i \in S : f[i] \in Int
      OBVIOUS
    <3> QED BY <3>1
  <2> HIDE DEF Over
  <2>2. Over(n) # Over(m) /\ Over(n) \subseteq S /\ Over(m) \subseteq S
    BY <2>1 DEF Over
  <2>3. <<Over(n), Over(m)>> \in R
    BY <2>1, <2>2 DEF StrictSubsetOrdering
  <2> QED BY <1>4, <2>1, <2>3
<1> QED BY <1>5

\* The maxima are what maxUpTo says of them.
LEMMA Maxima ==
  ASSUME Len(memoryEntries) \in Nat
  PROVE  /\ maxUpTo[0] = 0
         /\ \A k \in 1..Len(memoryEntries) :
              maxUpTo[k] = IF Usable(memoryEntries[k])
                           THEN MaxAdded(maxUpTo[k - 1], memoryEntries[k].base,
                                         Length(memoryEntries[k]))
                           ELSE maxUpTo[k - 1]
<1> DEFINE m == memoryEntries
           Next(k, max) == IF Usable(m[k]) THEN MaxAdded(max, m[k].base, Length(m[k])) ELSE max
           Is(f, n) == f = [k \in 0..n |-> IF k = 0 THEN 0 ELSE Next(k, f[k - 1])]
           S == {n \in Nat : \E f : Is(f, n)}
<1> HIDE DEF Next
<1>1. 0 \in S
  <2>1. Is([k \in 0..0 |-> 0], 0)
    OBVIOUS
  <2> QED BY <2>1
<1>2. ASSUME NEW n \in Nat, n \in S PROVE n + 1 \in S
  <2>1. PICK f : Is(f, n)
    BY <1>2
  <2> DEFINE g == [k \in 0..(n + 1) |-> IF k = n + 1 THEN Next(k, f[n]) ELSE f[k]]
  <2>2. \A k \in 0..n : g[k] = f[k] /\ f[k] = IF k = 0 THEN 0 ELSE Next(k, f[k - 1])
    BY <2>1
  <2>3. ASSUME NEW k \in 0..(n + 1) PROVE g[k] = IF k = 0 THEN 0 ELSE Next(k, g[k - 1])
    <3>1. CASE k = n + 1
      <4>1. g[n] = f[n] /\ k - 1 = n /\ k # 0
        BY <2>2, <3>1
      <4> QED BY <3>1, <4>1
    <3>2. CASE k # n + 1 /\ k # 0
      <4>1. k \in 0..n /\ k - 1 \in 0..n
        BY <3>2
      <4> QED BY <2>2, <3>2, <4>1
    <3>3. CASE k = 0
      <4>1. k \in 0..n /\ k # n + 1
        BY <3>3
      <4> QED BY <2>2, <3>3, <4>1
    <3> QED BY <3>1, <3>2, <3>3
  <2>4. Is(g, n + 1)
    <3>1. g = [k \in 0..(n + 1) |-> g[k]]
      OBVIOUS
    <3> HIDE DEF g
    <3> QED BY <2>3, <3>1
  <2> HIDE DEF Is, g
  <2> QED BY <2>4
<1>3. Len(m) \in S
  <2> HIDE DEF S
  <2>1. Nat \subseteq S
    BY <1>1, <1>2, Numbers
  <2> QED BY <2>1
<1>4. maxUpTo = CHOOSE f : Is(f, Len(m))
  BY DEF maxUpTo, Next
<1>5. Is(maxUpTo, Len(m))
  <2>1. \E f : Is(f, Len(m))
    BY <1>3
  <2> HIDE DEF Is
  <2> QED BY <1>4, <2>1
<1>6. maxUpTo[0] = 0 /\ \A k \in 1..Len(m) : maxUpTo[k] = Next(k, maxUpTo[k - 1])
  BY <1>5
<1> QED BY <1>6 DEF Next

\* Both bounds of a quotient.
LEMMA Quotient ==
  ASSUME NEW n \in Nat
  PROVE  /\ n \div PageUnits \in Nat /\ n \div PageUnits <= n
         /\ \A p \in Int : (p + 1) * PageUnits <= n => p < n \div PageUnits
         /\ \A m \in Nat : m <= n => m \div PageUnits <= n \div PageUnits
<1>1. ASSUME NEW u \in Nat \ {0}
      PROVE  /\ n \div u \in Nat /\ n \div u <= n
             /\ \A p \in Int : (p + 1) * u <= n => p < n \div u
             /\ \A m \in Nat : m <= n => m \div u <= n \div u
  OBVIOUS
<1> QED BY <1>1, PhysicalAssumption

\* Where the memory of an entry ends, as AddFreeMemory is told.
Finish(e) == e.base + Length(e)

\* Of two entries that do not overlap, the one that begins later ends later.
LEMMA FinishesInOrder ==
  ASSUME NEW d \in Entry, PageLeft(d), Usable(Fixed(d))
  PROVE  /\ Finish(Fixed(d)) \in Nat /\ Finish(Fixed(d)) < Word
         /\ \A e \in Entry : /\ d.base < e.base /\ Units(d) \cap Units(e) = {}
                             /\ PageLeft(e) /\ Usable(Fixed(e))
                            => Finish(Fixed(d)) <= Finish(Fixed(e))
<1>1. ASSUME NEW e \in Entry, PageLeft(e), Usable(Fixed(e))
      PROVE  /\ e.base \in Nat /\ e.length \in Nat /\ e.length > 0
             /\ e.base <= Finish(Fixed(e)) /\ Finish(Fixed(e)) <= e.base + e.length
             /\ Finish(Fixed(e)) \in Nat /\ Finish(Fixed(e)) < Word
  <2> DEFINE f == Fixed(e)
             n == IF f.base + f.length >= Word THEN Word - 1 - f.base ELSE f.length
  <2>1. e.base \in Nat /\ e.length \in Nat /\ Word \in Nat \ {0}
    BY PhysicalAssumption DEF Entry
  <2>2. /\ f.base \in Nat /\ f.length \in Int /\ f.base >= e.base
        /\ f.length >= 0 /\ f.base + f.length <= e.base + e.length
        /\ f.length # 0 /\ f.base < Word
    BY <1>1, FixedAbove DEF Usable
  <2> HIDE DEF f
  <2>3. n \in Nat /\ n < Word /\ f.base + n < Word /\ n <= f.length
    BY <2>1, <2>2
  <2>4. Length(f) = n
    <3>1. \A i, w \in Nat : i < w => i % w = i
      OBVIOUS
    <3>2. Length(f) = n % Word
      BY DEF Length
    <3> HIDE DEF n
    <3> QED BY <2>1, <2>3, <3>1, <3>2
  <2>5. Finish(f) = f.base + n
    BY <2>4 DEF Finish
  <2> HIDE DEF n
  <2>6. Finish(f) \in Nat /\ Finish(f) < Word
    BY <2>2, <2>3, <2>5
  <2>7. e.length > 0 /\ e.base <= Finish(f)
    BY <2>1, <2>2, <2>3, <2>5
  <2>8. Finish(f) <= e.base + e.length
    BY <2>1, <2>2, <2>3, <2>5
  <2> QED BY <2>1, <2>6, <2>7, <2>8 DEF f
<1>2. ASSUME NEW e \in Entry, d.base < e.base, Units(d) \cap Units(e) = {},
             PageLeft(e), Usable(Fixed(e))
      PROVE  Finish(Fixed(d)) <= Finish(Fixed(e))
  <2>1. /\ d.base \in Nat /\ d.length \in Nat /\ Finish(Fixed(d)) \in Nat
        /\ Finish(Fixed(d)) <= d.base + d.length
    BY <1>1
  <2>2. /\ e.base \in Nat /\ e.length \in Nat /\ e.length > 0
        /\ Finish(Fixed(e)) \in Nat /\ e.base <= Finish(Fixed(e))
    BY <1>1, <1>2
  <2>3. e.base \in Units(e)
    BY <2>2 DEF Units
  <2>4. e.base \notin Units(d)
    BY <1>2, <2>3
  <2>5. d.base + d.length <= e.base
    BY <1>2, <2>1, <2>2, <2>4 DEF Units
  <2> QED BY <2>1, <2>2, <2>5
<1> QED BY <1>1, <1>2

\* If they end in their order, the last region decides rightly.
LEMMA MaximumCovers ==
  ASSUME Len(memoryEntries) \in Nat,
         \A k \in 1..Len(memoryEntries) : Usable(memoryEntries[k]) =>
           Finish(memoryEntries[k]) \in Nat /\ Finish(memoryEntries[k]) < Word,
         \A j, k \in 1..Len(memoryEntries) :
           j < k /\ Usable(memoryEntries[j]) /\ Usable(memoryEntries[k])
           => Finish(memoryEntries[j]) <= Finish(memoryEntries[k])
  PROVE  /\ MaxFreed \in Nat
         /\ \A k \in 1..Len(memoryEntries) : Usable(memoryEntries[k]) =>
              Finish(memoryEntries[k]) \div PageUnits <= MaxFreed
<1> DEFINE m == memoryEntries
           M == maxUpTo
           n == Len(m)
           Covers(k) == /\ M[k] \in Nat
                        /\ \A j \in 1..k : Usable(m[j]) => Finish(m[j]) \div PageUnits <= M[k]
           S == {k \in Nat : k <= n => Covers(k)}
<1>1. M[0] = 0 /\ n \in Nat
  BY Maxima
<1>2. ASSUME NEW k \in 1..n, Usable(m[k])
      PROVE  M[k] = IF Finish(m[k]) > M[k - 1] THEN Finish(m[k]) \div PageUnits ELSE M[k - 1]
  <2>1. M[k] = MaxAdded(M[k - 1], m[k].base, Length(m[k]))
    BY <1>2, Maxima
  <2>2. \A i, w \in Nat : i < w => i % w = i
    OBVIOUS
  <2>3. Finish(m[k]) % Word = Finish(m[k])
    BY <1>2, <2>2, PhysicalAssumption
  <2> QED BY <2>1, <2>3 DEF MaxAdded, Finish
<1>3. \A k \in 1..n : ~Usable(m[k]) => M[k] = M[k - 1]
  BY Maxima
<1> HIDE DEF M
<1>4. 0 \in S
  BY <1>1
<1>5. ASSUME NEW i \in Nat, i \in S PROVE i + 1 \in S
  <2> SUFFICES ASSUME i + 1 <= n PROVE Covers(i + 1)
    OBVIOUS
  <2> DEFINE k == i + 1
  <2>1. k \in 1..n /\ k - 1 = i /\ 1..k = (1..i) \cup {k} /\ 1..k \subseteq 1..n
    BY <1>1
  <2>2. Covers(i)
    BY <1>1, <1>5
  <2>3. CASE ~Usable(m[k])
    <3>1. M[k] = M[i]
      BY <1>3, <2>1, <2>3
    <3> QED BY <2>1, <2>2, <2>3, <3>1
  <2>4. CASE Usable(m[k])
    <3> DEFINE end == Finish(m[k])
    <3>1. end \in Nat /\ M[k] = IF end > M[i] THEN end \div PageUnits ELSE M[i]
      BY <1>2, <2>1, <2>4
    <3>2. \A j \in 1..i : Usable(m[j]) => Finish(m[j]) \in Nat /\ Finish(m[j]) <= end
      BY <2>1, <2>4
    <3> HIDE DEF end, k
    <3>3. /\ end \div PageUnits \in Nat /\ end \div PageUnits <= end
          /\ \A j \in 1..i : Usable(m[j]) => Finish(m[j]) \div PageUnits <= end \div PageUnits
      BY <3>1, <3>2, Quotient
    <3>4. CASE end > M[i]
      <4>1. M[k] = end \div PageUnits
        BY <3>1, <3>4
      <4> QED BY <2>1, <3>3, <4>1 DEF end, k
    <3>5. CASE ~(end > M[i])
      <4>1. M[k] = M[i] /\ end \div PageUnits <= M[i]
        BY <2>2, <3>1, <3>3, <3>5
      <4> QED BY <2>1, <2>2, <4>1 DEF end, k
    <3> QED BY <3>4, <3>5
  <2> QED BY <2>3, <2>4
<1>6. n \in S
  <2> HIDE DEF S
  <2>1. Nat \subseteq S
    BY <1>4, <1>5, Numbers
  <2> QED BY <1>1, <2>1
<1>7. Covers(n)
  BY <1>1, <1>6
<1> QED BY <1>7 DEF MaxFreed, M

\* A pass that exchanges nothing has found the entries in order.
LEMMA PassInOrder ==
  ASSUME NEW entries \in Seq(Entry), Exchanged(entries) = {}
  PROVE  \A j, k \in DOMAIN Passed(entries) : j < k => Passed(entries)[j].base < Passed(entries)[k].base
<1>1. /\ DOMAIN entries = 1..Len(entries) /\ Len(entries) \in Nat
      /\ \A k \in DOMAIN entries : entries[k].base \in Nat
  <2>1. \A k \in DOMAIN entries : entries[k] \in Entry
    OBVIOUS
  <2> QED BY <2>1 DEF Entry
<1>2. ASSUME NEW k \in DOMAIN entries
      PROVE  /\ \A i \in 1..k : entries[i].base <= Bubble(entries, k).base
             /\ \E c \in 1..k : Bubble(entries, k) = entries[c]
  <2> DEFINE First(j) == \A i \in 1..k : \/ entries[i].base < entries[j].base
                                         \/ entries[i].base = entries[j].base /\ j <= i
             c == CHOOSE j \in 1..k : First(j)
  <2>1. \E j \in 1..k : First(j)
    BY FirstGreatest
  <2>2. c \in 1..k /\ First(c)
    <3> HIDE DEF First
    <3> QED BY <2>1
  <2>3. Bubble(entries, k) = entries[c]
    BY DEF Bubble
  <2> HIDE DEF c
  <2>4. 1..k \subseteq DOMAIN entries
    BY <1>1
  <2> QED BY <1>1, <2>2, <2>3, <2>4
<1>3. \A k \in DOMAIN entries : Passed(entries)[k] = Bubble(entries, k)
  BY DEF Passed
<1>4. DOMAIN Passed(entries) = DOMAIN entries
  BY DEF Passed
<1>5. ASSUME NEW j \in DOMAIN entries, NEW k \in DOMAIN entries, j < k
      PROVE  Bubble(entries, j).base < Bubble(entries, k).base
  <2>1. k \in DOMAIN entries \ {1} /\ k - 1 \in DOMAIN entries /\ 1..j \subseteq 1..(k - 1)
        /\ k \in 1..k
    BY <1>1, <1>5
  <2>2. ~(entries[k].base <= Bubble(entries, k - 1).base)
    BY <2>1 DEF Exchanged
  <2>3. PICK c \in 1..j : Bubble(entries, j) = entries[c]
    BY <1>2
  <2>4. entries[c].base <= Bubble(entries, k - 1).base
    BY <1>2, <2>1, <2>3
  <2>5. entries[k].base <= Bubble(entries, k).base
    BY <1>2, <2>1
  <2>6. /\ entries[c].base \in Nat /\ entries[k].base \in Nat
        /\ Bubble(entries, k - 1).base \in Nat /\ Bubble(entries, k).base \in Nat
    <3>1. c \in DOMAIN entries /\ 1..k \subseteq DOMAIN entries /\ 1..(k - 1) \subseteq DOMAIN entries
      BY <1>1, <2>1
    <3> QED BY <1>1, <1>2, <2>1, <3>1
  <2> QED BY <2>2, <2>3, <2>4, <2>5, <2>6
<1> QED BY <1>3, <1>4, <1>5

\* What MapShown needs to be inductive: the entries are in the order of their
\* bases once they are sorted, and later the same with their ends fixed.
InOrder(j, k) ==
  \E i, l \in DOMAIN bootMap :
    /\ memoryEntries[j] = Fixed(bootMap[i]) /\ memoryEntries[k] = Fixed(bootMap[l])
    /\ bootMap[i].base < bootMap[l].base

ShownInv ==
  /\ booted = "FixEntries" =>
       \A j, k \in DOMAIN memoryEntries : j < k => memoryEntries[j].base < memoryEntries[k].base
  /\ booted = "CreateMemoryMap" =>
       /\ Len(memoryEntries) \in Nat /\ DOMAIN memoryEntries = 1..Len(memoryEntries)
       /\ \A j, k \in DOMAIN memoryEntries : j < k => InOrder(j, k)
  /\ MapShown

Apart ==
  /\ \A j, k \in DOMAIN bootMap : j # k => Units(bootMap[j]) \cap Units(bootMap[k]) = {}
  /\ \A k \in DOMAIN bootMap : PageLeft(bootMap[k])

\* The kernel's regions can only raise the maximum.
LEMMA MaximumKept ==
  ASSUME MaxFreed \in Nat, CreateMemoryMap
  PROVE  maxMemoryIndex' \in Int /\ MaxFreed <= maxMemoryIndex'
<1> DEFINE f == [r \in Regions |-> MaxReserved(MaxFreed, r[1], r[2])]
           ends == {MaxReserved(MaxFreed, r[1], r[2]) : r \in Regions}
<1>1. /\ IsFiniteSet(Regions) /\ Regions # {}
      /\ \A r \in Regions : r[1] \in Int /\ r[2] \in Int
  <2>1. /\ IsFiniteSet(Reserved) /\ Reserved \subseteq Nat \X Nat
        /\ KernelBeg \in Int /\ KernelEnd - KernelBeg \in Int
    BY PhysicalAssumption
  <2>2. IsFiniteSet(Regions)
    BY <2>1, FS_AddElement DEF Regions
  <2>3. KernelRegion \in Regions
    BY DEF Regions
  <2>4. KernelRegion[1] = KernelBeg /\ KernelRegion[2] = KernelEnd - KernelBeg
    BY DEF KernelRegion
  <2>5. ASSUME NEW r \in Reserved PROVE r[1] \in Nat /\ r[2] \in Nat
    BY <2>1
  <2>6. ASSUME NEW r \in Regions PROVE r[1] \in Int /\ r[2] \in Int
    BY <2>1, <2>4, <2>5 DEF Regions
  <2> QED BY <2>2, <2>3, <2>6
<1>2. ASSUME NEW r \in Regions PROVE f[r] \in Int /\ MaxFreed <= f[r]
  <2> DEFINE n == r[1] + r[2]
  <2>1. n \in Int
    BY <1>1
  <2> HIDE DEF n
  <2>2. n \div PageUnits \in Int
    BY <2>1, Division
  <2>3. f[r] = IF n \div PageUnits > MaxFreed THEN n \div PageUnits ELSE MaxFreed
    BY DEF MaxReserved, n
  <2> QED BY <2>2, <2>3
<1>3. f \in [Regions -> Int]
  BY <1>2
<1>4. ends = {f[r] : r \in Regions}
  OBVIOUS
<1> HIDE DEF f
<1>5. PICK m \in Regions : \A r \in Regions : f[r] <= f[m]
  BY <1>1, <1>3, Greatest
<1>6. \E end \in ends : \A e \in ends : e <= end
  BY <1>4, <1>5
<1>7. maxMemoryIndex' = CHOOSE end \in ends : \A e \in ends : e <= end
  BY DEF CreateMemoryMap
<1>8. maxMemoryIndex' \in ends
  <2> HIDE DEF ends
  <2> QED BY <1>6, <1>7
<1> QED BY <1>2, <1>4, <1>8

LEMMA CreateMemoryMapShows ==
  ASSUME MemoryInv, ShownInv, CreateMemoryMap, Apart
  PROVE  \A p \in free' : p < maxMemoryIndex'
<1> DEFINE m == memoryEntries
<1>1. /\ Len(m) \in Nat /\ DOMAIN m = 1..Len(m)
      /\ \A j, k \in DOMAIN m : j < k => InOrder(j, k)
      /\ \A k \in DOMAIN m : \E j \in DOMAIN bootMap : m[k] = Fixed(bootMap[j])
      /\ \A k \in DOMAIN bootMap : bootMap[k] \in Entry
  BY DEF MemoryInv, BootInv, ShownInv, CreateMemoryMap
<1>2. ASSUME NEW k \in 1..Len(m), Usable(m[k])
      PROVE  Finish(m[k]) \in Nat /\ Finish(m[k]) < Word
  <2>1. PICK j \in DOMAIN bootMap : m[k] = Fixed(bootMap[j])
    BY <1>1
  <2>2. bootMap[j] \in Entry /\ PageLeft(bootMap[j]) /\ Usable(Fixed(bootMap[j]))
    BY <1>1, <1>2, <2>1 DEF Apart
  <2> QED BY <2>1, <2>2, FinishesInOrder
<1>3. ASSUME NEW j \in 1..Len(m), NEW k \in 1..Len(m), j < k, Usable(m[j]), Usable(m[k])
      PROVE  Finish(m[j]) <= Finish(m[k])
  <2>1. PICK i, l \in DOMAIN bootMap :
          m[j] = Fixed(bootMap[i]) /\ m[k] = Fixed(bootMap[l]) /\ bootMap[i].base < bootMap[l].base
    BY <1>1, <1>3 DEF InOrder
  <2>2. /\ bootMap[i] \in Entry /\ PageLeft(bootMap[i]) /\ Usable(Fixed(bootMap[i]))
        /\ bootMap[l] \in Entry /\ PageLeft(bootMap[l]) /\ Usable(Fixed(bootMap[l]))
    BY <1>1, <1>3, <2>1 DEF Apart
  <2>3. i # l
    <3>1. bootMap[i].base \in Nat
      BY <2>2 DEF Entry
    <3> QED BY <2>1, <3>1
  <2>4. Units(bootMap[i]) \cap Units(bootMap[l]) = {}
    BY <2>3 DEF Apart
  <2> QED BY <2>1, <2>2, <2>4, FinishesInOrder
<1>4. /\ MaxFreed \in Nat
      /\ \A k \in 1..Len(m) : Usable(m[k]) => Finish(m[k]) \div PageUnits <= MaxFreed
  BY <1>1, <1>2, <1>3, MaximumCovers
<1>5. maxMemoryIndex' \in Int /\ MaxFreed <= maxMemoryIndex'
  BY <1>4, MaximumKept
<1>6. ASSUME NEW p \in free' PROVE p < maxMemoryIndex'
  <2>1. PICK k \in DOMAIN m : Usable(m[k]) /\ p \in Added(m[k].base, Length(m[k]))
    BY <1>6 DEF CreateMemoryMap, FreedPages
  <2>2. PICK j \in DOMAIN bootMap : m[k] = Fixed(bootMap[j])
    BY <1>1
  <2>3. bootMap[j] \in Entry /\ Fixed(bootMap[j]).type = 1
    BY <1>1, <2>1, <2>2 DEF Usable
  <2>4. m[k].base \in Nat /\ m[k].length \in Int /\ m[k].base < Word
    BY <2>1, <2>2, <2>3, FixedAbove DEF Usable
  <2>5. Length(m[k]) \in Nat
    BY <2>4, LengthInside
  <2>6. p \in 0..(BitmapPages + ByteBits - 1) /\ (p + 1) * PageUnits <= Finish(m[k])
    BY <2>1, <2>4, <2>5, AddedInside DEF Finish
  <2>7. p \in Int
    BY <2>6
  <2>8. Finish(m[k]) \in Nat /\ Finish(m[k]) \div PageUnits <= MaxFreed
    BY <1>1, <1>2, <1>4, <2>1
  <2>9. p < Finish(m[k]) \div PageUnits /\ Finish(m[k]) \div PageUnits \in Nat
    BY <2>6, <2>7, <2>8, Quotient
  <2> QED BY <1>4, <1>5, <2>7, <2>8, <2>9
<1> QED BY <1>6

\* After the boot pages are only taken, and the map stays.
LEMMA OnlyTaken ==
  ASSUME \/ \E c \in Callers : CallerStep(c)
         \/ \E count \in Requests : MapDevice(count) \/ MapStack(count)
  PROVE  booted = "done" /\ UNCHANGED bootVars /\ free' \subseteq free
<1>1. ASSUME NEW c \in Callers, CallerStep(c)
      PROVE  booted = "done" /\ UNCHANGED bootVars /\ free' \subseteq free
  <2>1. CASE \E count \in Requests : Alloc(c, count)
    BY <2>1 DEF Alloc, Running, physicalVars
  <2>2. CASE Test(c)
    BY <2>2 DEF Test, Running, physicalVars
  <2>3. CASE Clear(c)
    BY <2>3 DEF Clear, Taking, Running
  <2>4. CASE MapInTable(c)
    BY <2>4 DEF MapInTable, MapPage, Running
  <2>5. CASE MapNewTable(c)
    BY <2>5 DEF MapNewTable, MapPage, Taking, Running
  <2>6. CASE MapStops(c)
    BY <2>6 DEF MapStops, Running, physicalVars
  <2> QED BY <1>1, <2>1, <2>2, <2>3, <2>4, <2>5, <2>6 DEF CallerStep
<1>2. ASSUME NEW a, NEW p, NEW count, MapRun(a, p, count) PROVE free' \subseteq free
  BY <1>2 DEF MapRun
<1>3. ASSUME NEW count \in Requests, MapDevice(count)
      PROVE  booted = "done" /\ UNCHANGED bootVars /\ free' \subseteq free
  BY <1>2, <1>3 DEF MapDevice, ThreadFree, Running
<1>4. ASSUME NEW count \in Requests, MapStack(count)
      PROVE  booted = "done" /\ UNCHANGED bootVars /\ free' \subseteq free
  BY <1>2, <1>4 DEF MapStack, ThreadFree, Running
<1> QED BY <1>1, <1>3, <1>4

LEMMA ShownInit == LogicalInit => ShownInv
BY DEF LogicalInit, PhysicalInit, ShownInv, MapShown

LEMMA ShownStep == MemoryInv /\ ShownInv /\ [LogicalNext]_memoryVars => ShownInv'
<1> SUFFICES ASSUME MemoryInv, ShownInv, [LogicalNext]_memoryVars PROVE ShownInv'
  OBVIOUS
<1>1. CASE SortEntries
  <2>1. /\ booted = "SortEntries" /\ free' = free /\ free = {}
        /\ booted' = IF Exchanged(memoryEntries) = {} THEN "FixEntries" ELSE "SortEntries"
        /\ memoryEntries' = Passed(memoryEntries) /\ memoryEntries \in Seq(Entry)
    BY <1>1 DEF SortEntries, MemoryInv, BootInv
  <2>2. booted' = "FixEntries" =>
          \A j, k \in DOMAIN memoryEntries' :
            j < k => memoryEntries'[j].base < memoryEntries'[k].base
    BY <2>1, PassInOrder
  <2> QED BY <2>1, <2>2 DEF ShownInv, MapShown
<1>2. CASE FixEntries
  <2> DEFINE m == memoryEntries
  <2>1. /\ booted = "FixEntries" /\ booted' = "CreateMemoryMap" /\ free' = free /\ free = {}
        /\ m' = [k \in DOMAIN m |-> Fixed(m[k])] /\ bootMap' = bootMap
        /\ m \in Seq(Entry) /\ \A k \in DOMAIN m : FromLoader(m[k])
    BY <1>2 DEF FixEntries, MemoryInv, BootInv
  <2>2. DOMAIN m' = DOMAIN m /\ DOMAIN m = 1..Len(m) /\ Len(m) \in Nat
    BY <2>1
  <2>3. Len(m') = Len(m)
    <3>1. m' \in Seq({Fixed(m[k]) : k \in DOMAIN m})
      BY <2>1, <2>2
    <3>2. DOMAIN m' = 1..Len(m') /\ Len(m') \in Nat
      BY <3>1
    <3> QED BY <2>2, <3>2
  <2>4. ASSUME NEW j \in DOMAIN m, NEW k \in DOMAIN m, j < k PROVE InOrder(j, k)'
    <3>1. m[j].base < m[k].base
      BY <2>1, <2>4 DEF ShownInv
    <3>2. PICK i \in DOMAIN bootMap : m[j] = bootMap[i]
      BY <2>1 DEF FromLoader
    <3>3. PICK l \in DOMAIN bootMap : m[k] = bootMap[l]
      BY <2>1 DEF FromLoader
    <3> QED BY <2>1, <3>1, <3>2, <3>3 DEF InOrder
  <2> QED BY <2>1, <2>2, <2>3, <2>4 DEF ShownInv, MapShown
<1>3. CASE CreateMemoryMap
  <2>1. booted' = "done" /\ (Apart' => Apart)
    BY <1>3 DEF CreateMemoryMap, Apart, Units, PageLeft
  <2>2. Apart => \A p \in free' : p < maxMemoryIndex'
    BY <1>3, CreateMemoryMapShows
  <2>3. MapShown'
    BY <2>1, <2>2 DEF MapShown, Apart
  <2> QED BY <2>1, <2>3 DEF ShownInv
<1>4. CASE \/ \E c \in Callers : CallerStep(c)
           \/ \E count \in Requests : MapDevice(count) \/ MapStack(count)
  <2>1. booted = "done" /\ UNCHANGED bootVars /\ free' \subseteq free
    BY <1>4, OnlyTaken
  <2> QED BY <2>1 DEF bootVars, ShownInv, MapShown
<1>5. CASE UNCHANGED memoryVars
  BY <1>5 DEF memoryVars, physicalVars, bootVars, ShownInv, MapShown, InOrder
<1> QED BY <1>1, <1>2, <1>3, <1>4, <1>5 DEF LogicalNext, Boot

-----------------------------------------------------------------------------
(* The invariant, and what follows from it.                                *)

LEMMA MemoryNextInv == MemoryInv /\ [LogicalNext]_memoryVars => MemoryInv'
<1> SUFFICES ASSUME MemoryInv, [LogicalNext]_memoryVars PROVE MemoryInv'
  OBVIOUS
<1>1. CASE Boot /\ UNCHANGED logicalVars
  BY <1>1, BootStep
<1>2. ASSUME NEW c \in Callers, CallerStep(c) PROVE MemoryInv'
  BY <1>2, AllocStep, TestStep, ClearStep, MapInTableStep, MapNewTableStep, MapStopsStep
  DEF CallerStep
<1>3. ASSUME NEW count \in Requests, MapDevice(count) \/ MapStack(count) PROVE MemoryInv'
  BY <1>3, MapDeviceStep, MapStackStep
<1>4. CASE UNCHANGED memoryVars
  <2> USE <1>4 DEF memoryVars, physicalVars, bootVars, logicalVars
  <2>1. MemoryTypeOK' /\ KernelKept' /\ FreeIsMemory'
    BY DEF MemoryInv, MemoryTypeOK, KernelKept, FreeIsMemory
  <2>2. BootInv'
    BY DEF MemoryInv, BootInv, FromLoader
  <2>3. PagesInv'
    <3>1. \A p : /\ Mapped(p)' = Mapped(p) /\ IsTable(p)' = IsTable(p)
                 /\ Holding(p)' = Holding(p)
      BY DEF Mapped, IsTable, Holding
    <3>2. QED
      BY <3>1 DEF MemoryInv, PagesInv, Unheld, HeldOnce, One
  <2>4. CallsInv'
    BY DEF MemoryInv, CallsInv, Ahead, Used
  <2> QED BY <2>1, <2>2, <2>3, <2>4 DEF MemoryInv
<1> QED BY <1>1, <1>2, <1>3, <1>4 DEF LogicalNext

LEMMA MemoryInvariant == LogicalSpec => []MemoryInv
<1> QED BY MemoryInitInv, MemoryNextInv, PTL DEF LogicalSpec

\* The variables keep their types: above all, nothing is ever written behind the
\* byte after the bitmap (Physical::AddFreeMemory, ReserveMemory), no request
\* runs over the end of the address space, and no table entry names a page that
\* the bitmap does not have.
THEOREM MemoryTypeCorrect == LogicalSpec => []MemoryTypeOK
<1>1. MemoryInv => MemoryTypeOK
  BY DEF MemoryInv
<1> QED BY <1>1, MemoryInvariant, PTL

\* No page that the kernel reaches into is ever free, whatever memory map the
\* loader passes on (FixEntries).
THEOREM KernelNeverFree == LogicalSpec => []KernelKept
<1>1. MemoryInv => KernelKept
  BY DEF MemoryInv
<1> QED BY <1>1, MemoryInvariant, PTL

\* Every free page lies wholly inside one entry of the loader's map that is
\* memory, if no memory lies between two pages' beginnings (FixEntries,
\* AddFreeMemory).
THEOREM OnlyMemoryFree == LogicalSpec => []FreeIsMemory
<1>1. MemoryInv => FreeIsMemory
  BY DEF MemoryInv
<1> QED BY <1>1, MemoryInvariant, PTL

\* No free page lies beyond what PrintMemoryMap shows, if the loader's entries do
\* not overlap: they are sorted, so that the last region decides rightly
\* (AddFreeMemory, Memory_Physical.cpp:107).
THEOREM MapIsShown == LogicalSpec => []MapShown
<1>1. LogicalSpec => []ShownInv
  BY MemoryInvariant, ShownInit, ShownStep, PTL DEF LogicalSpec
<1>2. ShownInv => MapShown
  BY DEF ShownInv
<1> QED BY <1>1, <1>2, PTL

\* A page is in use in one place at most and is then not free, whoever allocates
\* while others are interrupted (Logical::Alloc, Map, AllocPage), unless it was
\* taken between the test and the clearing of its bit.
THEOREM PagesNeverShared == LogicalSpec => []PagesUnshared
<1>1. MemoryInv => PagesUnshared
  <2> SUFFICES ASSUME MemoryInv, NEW p \in Pages \ {0}, Uses(p) # {}
               PROVE  /\ p \notin free
                      /\ p \notin torn => \A u, v \in Uses(p) : u = v
    BY DEF PagesUnshared
  <2>1. Uses(p) = Mapped(p) \X {"page"} \cup IsTable(p) \X {"table"}
    BY DEF Uses, Mapped, IsTable
  <2>2. p \in free => Mapped(p) = {} /\ IsTable(p) = {}
    BY DEF MemoryInv, PagesInv, Unheld
  <2>3. p \notin torn => /\ One(Mapped(p)) /\ One(IsTable(p))
                         /\ Mapped(p) = {} \/ IsTable(p) = {}
    BY DEF MemoryInv, PagesInv, HeldOnce
  <2>4. p \notin free
    BY <2>1, <2>2
  <2>5. p \notin torn => \A u, v \in Uses(p) : u = v
    BY <2>1, <2>3 DEF One
  <2> QED BY <2>4, <2>5
<1> QED BY <1>1, MemoryInvariant, PTL

\* What is mapped stays mapped to the same page, except at the addresses that a
\* search has found wrongly or a handler has mapped from under the thread
\* (FindFreeLogicalSpace, Logical::Alloc).
THEOREM MappingsNeverMove == LogicalSpec => MappingsStay
<1>1. MemoryInv /\ [LogicalNext]_memoryVars =>
        [\A a \in Address : pte[a] # 0 => pte'[a] = pte[a] \/ a \in exposed']_memoryVars
  <2> SUFFICES ASSUME MemoryInv, LogicalNext, NEW a \in Address, pte[a] # 0, pte'[a] # pte[a]
               PROVE  a \in exposed'
    OBVIOUS
  <2>1. ASSUME NEW c \in Callers, MapInTable(c) \/ MapNewTable(c) PROVE a \in exposed'
    <3>1. /\ MapPage(c, call[c].address, call[c].page) /\ call[c].at = "map"
          /\ call[c] \in CallState
      BY <2>1, CallTypes DEF MapInTable, MapNewTable
    <3>2. a = call[c].address
      BY <3>1, CallTypes DEF MapPage
    <3>3. a \in Ahead(c) /\ Used(a)
      BY <3>1, <3>2 DEF MemoryInv, CallsInv, Ahead, CallState, Address, Used
    <3>4. a \in exposed
      BY <3>1, <3>3 DEF MemoryInv, CallsInv
    <3> QED BY <3>1, <3>4 DEF MapPage
  <2>2. ASSUME NEW c \in Callers, CallerStep(c) PROVE a \in exposed'
    BY <2>1, <2>2 DEF CallerStep, Alloc, Test, Clear, MapStops
  <2>3. ASSUME NEW count \in Requests, MapDevice(count) \/ MapStack(count) PROVE a \in exposed'
    BY <2>3, MapDeviceStep, MapStackStep DEF Used
  <2> QED BY <2>2, <2>3 DEF LogicalNext, logicalVars
<1> QED BY <1>1, MemoryInvariant, PTL DEF LogicalSpec, MappingsStay
=============================================================================
