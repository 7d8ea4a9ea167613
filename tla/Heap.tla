-------------------------------- MODULE Heap --------------------------------
(***************************************************************************)
(* The kernel's heap (kernel/Core/Memory.cpp: Alloc, Free, MallocMerge),   *)
(* called by one caller at a time.  Memory obtained from Logical::Alloc is *)
(* cut into blocks, each a header followed by length bytes.  Blocks that   *)
(* are not in use are in a list whose head is mallocPage.  New pages come  *)
(* at higher addresses than all earlier ones, since no logical page is ever *)
(* given back, and are appended; Free inserts by address.  So the order of *)
(* the list is the order of the addresses, and the set freeList stands for *)
(* it.  Interrupts in the middle of a call are left out.                   *)
(***************************************************************************)
EXTENDS Integers, FiniteSets

CONSTANTS HeaderSize,   \* sizeof(MallocHeader)
          PageSize,
          MinPages,     \* the pages of the smallest request to Logical::Alloc
          Sizes,        \* the numbers of bytes that callers ask for
          HeapEnd       \* bound: the end of the address space, whose
                        \* addresses count from the kernel's first page

ASSUME HeapAssumption ==
  /\ HeaderSize \in Nat \ {0}
  /\ PageSize \in Nat \ {0}
  /\ MinPages \in Nat
  /\ Sizes \subseteq Nat
  /\ HeapEnd \in Nat

VARIABLES mapped,     \* the bytes that Logical::Alloc has returned
          length,     \* for each header, the bytes of its block
          used,       \* the headers of the blocks in use
          freeList,   \* the headers that can be reached from mallocPage
          asked       \* what the callers of Alloc asked for the blocks in use

heapVars == <<mapped, length, used, freeList, asked>>

Headers == DOMAIN length
End(h) == h + HeaderSize + length[h]

HeapTypeOK ==
  /\ mapped \subseteq 0..HeapEnd
  /\ length \in [Headers -> Nat]
  /\ Headers \subseteq 0..HeapEnd
  /\ used \subseteq Headers
  /\ freeList \subseteq Headers
  /\ used \cap freeList = {}
  /\ asked \in [used -> Nat]

HeapInit ==
  /\ mapped = {}
  /\ length = [h \in {} |-> 0]
  /\ used = {}
  /\ freeList = {}
  /\ asked = [h \in {} |-> 0]

-----------------------------------------------------------------------------
RoundUp(n) == ((n + PageSize - 1) \div PageSize) * PageSize

TotalSize(bytes) ==
  IF RoundUp(bytes + HeaderSize) < MinPages * PageSize
  THEN MinPages * PageSize ELSE RoundUp(bytes + HeaderSize)

\* Take, had it not shortened the block that it cuts.
MutantTake(h, bytes, lengths, list) ==
  LET rest == h + HeaderSize + bytes
      splits == lengths[h] - bytes > HeaderSize
  IN /\ length' = IF splits
                  THEN [b \in DOMAIN lengths \cup {rest} |->
                          IF b = rest THEN lengths[h] - bytes - HeaderSize
                          ELSE lengths[b]]
                  ELSE lengths
     /\ freeList' = IF splits THEN (list \ {h}) \cup {rest} ELSE list \ {h}
     /\ used' = used \cup {h}
     /\ asked' = [b \in used \cup {h} |-> IF b = h THEN bytes ELSE asked[b]]

\* A block becomes its caller's; what it has too much becomes a block of its
\* own if a header and more fit in.
Take(h, bytes, lengths, list) ==
  LET rest == h + HeaderSize + bytes
      splits == lengths[h] - bytes > HeaderSize
  IN /\ length' = IF splits
                  THEN [b \in DOMAIN lengths \cup {rest} |->
                          IF b = h THEN bytes
                          ELSE IF b = rest THEN lengths[h] - bytes - HeaderSize
                          ELSE lengths[b]]
                  ELSE lengths
     /\ freeList' = IF splits THEN (list \ {h}) \cup {rest} ELSE list \ {h}
     /\ used' = used \cup {h}
     /\ asked' = [b \in used \cup {h} |-> IF b = h THEN bytes ELSE asked[b]]

Fits(bytes) == {h \in freeList : length[h] >= bytes}

\* The first block of the list that is long enough.
AllocFits(bytes) ==
  \E h \in Fits(bytes) :
    /\ \A other \in Fits(bytes) : h <= other
    /\ Take(h, bytes, length, freeList)
    /\ UNCHANGED mapped

\* None is: new pages, behind all others, as one block at the end of the list.
AllocGrows(bytes) ==
  /\ Fits(bytes) = {}
  /\ \E page \in 0..HeapEnd :
       LET size == TotalSize(bytes)
           new == page..(page + size - 1)
       IN /\ page % PageSize = 0
          /\ \A byte \in mapped : byte < page
          /\ page + size <= HeapEnd
          /\ mapped' = mapped \cup new
          /\ Take(page, bytes,
                  [b \in Headers \cup {page} |->
                     IF b = page THEN size - HeaderSize ELSE length[b]],
                  freeList \cup {page})

\* MallocMerge: a block of the list that begins where another ends is absorbed.
Absorbed(list) == {h \in list : \E g \in list : End(g) = h}

\* MergedEnds, had the length not been added.
MutantMergedEnds(list, h) == {End(h)}

MergedEnds(list, h) == {e \in {End(g) : g \in {f \in list : f >= h}} : e \notin list}

MergedLength(list, h) ==
  (CHOOSE e \in MergedEnds(list, h) : \A f \in MergedEnds(list, h) : e <= f)
  - h - HeaderSize

MallocMerge(list) ==
  /\ length' = [h \in Headers \ Absorbed(list) |->
                  IF h \in list THEN MergedLength(list, h) ELSE length[h]]
  /\ freeList' = list \ Absorbed(list)

\* Free looks for its place from mallocPage on: in an empty list there is none.
Listed(h) == IF freeList = {} THEN {} ELSE freeList \cup {h}

\* Free, had it not cleared the header's mark.
MutantFree(h) == h \in used /\ MallocMerge(Listed(h)) /\ UNCHANGED <<mapped, used, asked>>

Free(h) ==
  /\ h \in used
  /\ used' = used \ {h}
  /\ asked' = [b \in used \ {h} |-> asked[b]]
  /\ MallocMerge(Listed(h))
  /\ UNCHANGED mapped

HeapNext ==
  \/ \E bytes \in Sizes : AllocFits(bytes) \/ AllocGrows(bytes)
  \/ \E h \in used : Free(h)

HeapSpec == HeapInit /\ [][HeapNext]_heapVars

-----------------------------------------------------------------------------
\* The blocks tile the heap: none overlaps another, and every byte that was
\* ever obtained belongs to one, however they were split and merged, and a
\* block in use stays as long as its caller asked (Memory.cpp:301-310, 345-362).
BlocksTile ==
  /\ \A g, h \in Headers : g < h => End(g) <= h
  /\ mapped = UNION {h..(End(h) - 1) : h \in Headers}
  /\ \A h \in used : asked[h] <= length[h]

\* The heap keeps the promise of an allocator to its callers, for the bytes
\* they asked for (Memory.cpp:275, 364).
Promise == INSTANCE Allocator WITH
  granted <- {[at |-> h + HeaderSize, size |-> asked[h]] : h \in used}
ImplementsAllocator == Promise!Spec

\* A block that is not in use can be allocated again.
NothingLost == Headers = used \cup freeList
=============================================================================
