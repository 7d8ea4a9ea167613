------------------------------- MODULE Logical -------------------------------
(***************************************************************************)
(* Logical memory (kernel/Core/Memory_Logical.cpp): the page tables of the *)
(* kernel's half of the address space, the search for free space and the   *)
(* allocation of pages, by a thread and by an interrupt handler on top of  *)
(* it: the heap asks for pages in both (Signal::Raise and the lists it     *)
(* fills).  Addresses are page numbers from 0x80000000 on; the last table, *)
(* through which the directory is seen, is left out.  Nothing is ever      *)
(* given back: nobody calls Free.                                          *)
(***************************************************************************)
EXTENDS Physical

CONSTANTS Tables,     \* the page tables of the kernel's half
          PerTable,   \* the entries of one (a power of 2)
          StackTop,   \* the address below which CreateKernelStack maps
          Requests    \* the numbers of pages that are asked for

Address == 0..(Tables * PerTable - 1)
Callers == {"thread", "handler"}

ASSUME LogicalAssumption ==
  /\ BitmapPages > 1
  /\ Tables \in Nat \ {0, 1}
  /\ PerTable \in Nat \ {0}
  /\ PerTable <= BitmapPages
  /\ StackTop \in 1..(Tables * PerTable)
  /\ Requests \subseteq Nat \ {0}

VARIABLES dir,      \* the page of each table, 0 if there is none
          pte,      \* the page at each address, 0 if there is none
          call,     \* how far each caller is in Alloc
          torn,     \* the pages a handler took from under the thread's hand
          exposed   \* the addresses found by a search though they were not free,
                    \* or not any more when they were mapped

logicalVars == <<dir, pte, call, torn, exposed>>
memoryVars == <<physicalVars, logicalVars>>

Idle == [at |-> "idle", address |-> 0, left |-> 0, page |-> 0]

MemoryTypeOK ==
  /\ free \subseteq 0..(BitmapPages + ByteBits - 1)
  /\ dir \in [0..(Tables - 1) -> 0..BitmapPages - 1]
  /\ pte \in [Address -> 0..BitmapPages - 1]
  /\ call \in [Callers -> [at : {"idle", "test", "clear", "map", "stopped"},
                           address : Address, left : Nat, page : 0..BitmapPages - 1]]
  /\ torn \subseteq Pages
  /\ exposed \subseteq Address

-----------------------------------------------------------------------------
\* The loader maps the first table's worth of memory at 0x80000000.
LogicalInit ==
  /\ PhysicalInit
  /\ dir = [t \in 0..(Tables - 1) |-> IF t = 0 THEN 1 ELSE 0]
  /\ pte = [a \in Address |-> IF a < PerTable THEN a ELSE 0]
  /\ call = [c \in Callers |-> Idle]
  /\ torn = {}
  /\ exposed = {}

TableOf(a) == a \div PerTable

\* The first table is full, its page 0 included.
Used(a) == a < PerTable \/ pte[a] # 0

\* Stretches, one page short.
MutantStretches(count) ==
  {a \in Address \ {0} : /\ a + count - 1 \in Address
                         /\ Used(a - 1)
                         /\ \A b \in a..(a + count - 2) : ~Used(b)}

\* FindFreeLogicalSpace: the beginning of the first stretch of count free pages ...
Stretches(count) ==
  {a \in Address : /\ a + count - 1 \in Address
                   /\ Used(a - 1)
                   /\ \A b \in a..(a + count - 1) : ~Used(b)}

\* ... as abToAddr puts it together.  Behind the last entry of a table the index
\* is PerTable, whose bit is set already in the number of an odd table.
Found(a) ==
  IF a % PerTable = 0 /\ TableOf(a - 1) % 2 = 1 THEN a - PerTable ELSE a

\* Map: a page table is added where there is none.
NeedsTable(a) == dir[TableOf(a)] = 0

Step(c, next) == call' = [call EXCEPT ![c] = next]

\* Whoever is on top of the other, and has the processor.
Running(c) ==
  /\ booted = "done"
  /\ c = "thread" => call["handler"].at = "idle"
  /\ call[c].at # "stopped"

\* Alloc begins with the search; without space the machine stops.
Alloc(c, count) ==
  /\ Running(c)
  /\ call[c].at = "idle"
  /\ IF Stretches(count) = {}
     THEN Step(c, [Idle EXCEPT !.at = "stopped"]) /\ UNCHANGED exposed
     ELSE \E a \in Stretches(count) :
            /\ IsFirst(a, Stretches(count))
            /\ Step(c, [Idle EXCEPT !.at = "test", !.address = Found(a), !.left = count])
            /\ exposed' = IF Found(a) = a THEN exposed
                          ELSE exposed \cup Found(a)..(Found(a) + count - 1)
  /\ UNCHANGED <<physicalVars, dir, pte, torn>>

\* AllocPage tests the bits one after the other ...
Test(c) ==
  /\ Running(c)
  /\ call[c].at = "test"
  /\ IF free \cap Pages = {}
     THEN Step(c, [call[c] EXCEPT !.at = "stopped"])
     ELSE \E p \in Pages : /\ IsFirst(p, free \cap Pages)
                           /\ Step(c, [call[c] EXCEPT !.at = "clear", !.page = p])
  /\ UNCHANGED <<physicalVars, dir, pte, torn, exposed>>

\* The page that the thread has found free, until it clears the bit.
InHand == IF call["thread"].at = "clear" THEN {call["thread"].page} ELSE {}

\* Taking, had the bit not been cleared.
MutantTaking(c, pages) ==
  /\ UNCHANGED free
  /\ torn' = IF c = "handler" THEN torn \cup (pages \cap InHand) ELSE torn

Taking(c, pages) ==
  /\ free' = free \ pages
  /\ torn' = IF c = "handler" THEN torn \cup (pages \cap InHand) ELSE torn

\* ... and clears the one it has found set.
Clear(c) ==
  /\ Running(c)
  /\ call[c].at = "clear"
  /\ Taking(c, {call[c].page})
  /\ Step(c, [call[c] EXCEPT !.at = "map"])
  /\ UNCHANGED <<bootVars, dir, pte, exposed>>

\* The addresses the thread has found free and has not mapped yet.
Pending == call["thread"].address..(call["thread"].address + call["thread"].left - 1)

\* Map puts one page at one address.
MapPage(c, a, p) ==
  /\ pte' = [pte EXCEPT ![a] = p]
  /\ exposed' = IF c = "handler" /\ a \in Pending THEN exposed \cup {a} ELSE exposed
  /\ Step(c, IF call[c].left = 1 THEN Idle
             ELSE [at |-> "test", address |-> a + 1, left |-> call[c].left - 1, page |-> 0])
  /\ UNCHANGED bootVars

MapInTable(c) ==
  LET a == call[c].address
  IN /\ Running(c)
     /\ call[c].at = "map"
     /\ ~NeedsTable(a)
     /\ MapPage(c, a, call[c].page)
     /\ UNCHANGED <<free, dir, torn>>

MapNewTable(c) ==
  LET a == call[c].address
  IN /\ Running(c)
     /\ call[c].at = "map"
     /\ NeedsTable(a)
     /\ \E p \in Pages : /\ IsFirst(p, free \cap Pages)
                         /\ Taking(c, {p})
                         /\ dir' = [dir EXCEPT ![TableOf(a)] = p]
     /\ MapPage(c, a, call[c].page)

MapStops(c) ==
  /\ Running(c)
  /\ call[c].at = "map"
  /\ NeedsTable(call[c].address)
  /\ free \cap Pages = {}
  /\ Step(c, [call[c] EXCEPT !.at = "stopped"])
  /\ UNCHANGED <<physicalVars, dir, pte, torn, exposed>>

\* The run of pages beginning with p at the addresses from a on, with the tables
\* that this takes: each has the first page that is then free.
MapRun(a, p, count) ==
  LET run == p..(p + count - 1)
      added == {t \in {TableOf(b) : b \in a..(a + count - 1)} : dir[t] = 0}
      left == (free \cap Pages) \ run
  IN \E page \in [added -> left] :
       /\ \A t, u \in added : t < u => page[t] < page[u]
       /\ \A t \in added : \A q \in left : q < page[t] => \E u \in added : page[u] = q
       /\ dir' = [t \in DOMAIN dir |-> IF t \in added THEN page[t] ELSE dir[t]]
       /\ pte' = [b \in Address |-> IF b \in a..(a + count - 1) THEN p + b - a ELSE pte[b]]
       /\ free' = (free \ run) \ {page[t] : t \in added}

ThreadFree == Running("thread") /\ call["thread"].at = "idle"

\* Interrupt::Init and Floppy::Init: physical pages first, then a place for them;
\* without a place the pages are lost.
MapDevice(count) ==
  /\ ThreadFree
  /\ \E p \in Pages :
       /\ IsFirst(p, Runs(count))
       /\ IF Stretches(count) = {}
          THEN free' = free \ (p..(p + count - 1)) /\ UNCHANGED <<dir, pte, exposed>>
          ELSE \E a \in Stretches(count) :
                 /\ IsFirst(a, Stretches(count))
                 /\ MapRun(Found(a), p, count)
                 /\ exposed' = IF Found(a) = a THEN exposed
                               ELSE exposed \cup Found(a)..(Found(a) + count - 1)
  /\ UNCHANGED <<bootVars, call, torn>>

\* CreateKernelStack, once: the place is fixed.
MapStack(count) ==
  /\ ThreadFree
  /\ count <= StackTop
  /\ \A b \in (StackTop - count)..(StackTop - 1) : ~Used(b)
  /\ \E p \in Pages : IsFirst(p, Runs(count)) /\ MapRun(StackTop - count, p, count)
  /\ UNCHANGED <<bootVars, call, torn, exposed>>

CallerStep(c) ==
  \/ \E count \in Requests : Alloc(c, count)
  \/ Test(c)
  \/ Clear(c)
  \/ MapInTable(c)
  \/ MapNewTable(c)
  \/ MapStops(c)

LogicalNext ==
  \/ Boot /\ UNCHANGED logicalVars
  \/ \E c \in Callers : CallerStep(c)
  \/ \E count \in Requests : MapDevice(count) \/ MapStack(count)

LogicalSpec == LogicalInit /\ [][LogicalNext]_memoryVars /\ WF_memoryVars(Boot /\ UNCHANGED logicalVars)

-----------------------------------------------------------------------------
\* Where the page p is in use: mapped, behind the first table, or a table itself.
Uses(p) == {a \in Address : a >= PerTable /\ pte[a] = p} \X {"page"}
           \cup {t \in 1..(Tables - 1) : dir[t] = p} \X {"table"}

\* A page is in use in one place at most, and is then not free, whoever
\* allocates while others are interrupted in the middle of it: except for a page
\* that a handler takes after the thread has found its bit set and before it
\* clears it (Memory_Physical.cpp:218-220).
PagesUnshared ==
  \A p \in Pages \ {0} : Uses(p) # {} =>
    /\ p \notin free
    /\ p \notin torn => \A u, v \in Uses(p) : u = v

\* What is mapped stays mapped to the same page, whatever else is allocated:
\* except where a search has lost its carry, or a handler has mapped the address
\* while the thread was about to (Memory_Logical.cpp:54, 200-227).
MappingsStay ==
  [][\A a \in Address : pte[a] # 0 => pte'[a] = pte[a] \/ a \in exposed']_memoryVars
=============================================================================
