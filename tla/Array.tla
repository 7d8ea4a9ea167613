-------------------------------- MODULE Array --------------------------------
(***************************************************************************)
(* The kernel's array (kernel/Containers/Array.hpp), with its elements on  *)
(* the heap of module Heap, between the blocks of its other callers.  A    *)
(* call of the heap is one step, so that growing and assigning take two.   *)
(* An element has the length of a byte.                                    *)
(***************************************************************************)
EXTENDS Heap, Sequences, SequencesExt, FiniteSetsExt

CONSTANTS Arrays,        \* the arrays
          Values,        \* the elements, numbers
          FirstCapacity, \* the capacity at the first growth, 8 in the kernel
          MaxCapacity,   \* bound: no array grows further
          MaxElements,   \* bound: nothing is inserted when the arrays hold so many
          MaxOthers      \* bound: the blocks that others hold at a time

ASSUME ArrayAssumption == FirstCapacity \in Nat \ {0}

VARIABLES data,      \* the header of the block with an array's elements, or Null
          size, capacity,
          cells,     \* what is in those blocks, cell by cell
          others,    \* the blocks of the other callers
          call       \* the array's call that is between two calls of the heap

arrayVars == <<heapVars, data, size, capacity, cells, others, call>>

Null == -1
Unset == -1
NoCall == [op |-> "none"]
Stopped == [op |-> "stopped"]

Content(a) == [i \in 1..size[a] |-> cells[data[a]][i]]
Stale(n) == [i \in 1..n |-> Unset]

\* The cells of a block of n, with these elements in front.
Filled(s, n) == s \o Stale(n - Len(s))

Blocks == {data[a] : a \in Arrays} \ {Null}

\* The block that a call of Alloc has just given.
New == CHOOSE h \in used' : h \notin used

\* operator new and operator delete.
Alloc(bytes) == AllocFits(bytes) \/ AllocGrows(bytes)
Delete(h) == IF h = Null THEN UNCHANGED heapVars ELSE Free(h)

\* An array's fields; its elements are in the block at.
Becomes(a, at, s, n) ==
  /\ data' = [data EXCEPT ![a] = at]
  /\ size' = [size EXCEPT ![a] = Len(s)]
  /\ capacity' = [capacity EXCEPT ![a] = n]

\* The blocks that stay, with the elements s in the one of array a.
Stores(a, at, s, n) ==
  LET kept == ({data[b] : b \in Arrays \ {a}} \cup {at}) \ {Null}
  IN cells' = [h \in kept |-> IF h = at THEN Filled(s, n) ELSE cells[h]]

Changes(a, s) ==
  /\ Becomes(a, data[a], s, capacity[a])
  /\ IF data[a] = Null THEN UNCHANGED cells
     ELSE cells' = [cells EXCEPT ![data[a]] = Filled(s, capacity[a])]

Idle == call = NoCall

ArrayInit ==
  /\ HeapInit
  /\ data = [a \in Arrays |-> Null]
  /\ size = [a \in Arrays |-> 0]
  /\ capacity = [a \in Arrays |-> 0]
  /\ cells = [h \in {} |-> <<>>]
  /\ others = {}
  /\ call = NoCall

-----------------------------------------------------------------------------
\* The other callers of the heap.
OthersAlloc ==
  /\ Idle /\ Cardinality(others) < MaxOthers
  /\ \E bytes \in Sizes : Alloc(bytes)
  /\ others' = others \cup {New}
  /\ UNCHANGED <<data, size, capacity, cells, call>>

OthersFree ==
  /\ Idle
  /\ \E h \in others : Delete(h) /\ others' = others \ {h}
  /\ UNCHANGED <<data, size, capacity, cells, call>>

-----------------------------------------------------------------------------
\* InsertAt.  An array that was copied from an emptied one has a capacity and no
\* block: its first element is written through a null pointer.
Insert(a, i, v) ==
  /\ Idle /\ size[a] < capacity[a]
  /\ UNCHANGED <<heapVars, others>>
  /\ IF data[a] = Null
     THEN call' = Stopped /\ UNCHANGED <<data, size, capacity, cells>>
     ELSE Changes(a, InsertAt(Content(a), i, v)) /\ UNCHANGED call

\* Resize: the new block gets what is in the old one; then that is given back.
NewCapacity(a) == IF capacity[a] > 0 THEN capacity[a] * 2 ELSE FirstCapacity

\* Resize, had it not moved the elements.
MutantResize(a, i, v) ==
  /\ Idle /\ size[a] = capacity[a] /\ NewCapacity(a) <= MaxCapacity
  /\ Alloc(NewCapacity(a))
  /\ data' = [data EXCEPT ![a] = New]
  /\ capacity' = [capacity EXCEPT ![a] = NewCapacity(a)]
  /\ cells' = [h \in Blocks \cup {New} |-> IF h = New THEN Stale(NewCapacity(a)) ELSE cells[h]]
  /\ call' = [op |-> "resized", a |-> a, i |-> i, v |-> v, old |-> data[a]]
  /\ UNCHANGED <<size, others>>

Resize(a, i, v) ==
  /\ Idle /\ size[a] = capacity[a] /\ NewCapacity(a) <= MaxCapacity
  /\ Alloc(NewCapacity(a))
  /\ LET s == Content(a)
     IN /\ Becomes(a, New, s, NewCapacity(a))
        /\ cells' = [h \in Blocks \cup {New} |->
                       IF h = New THEN Filled(s, NewCapacity(a)) ELSE cells[h]]
  /\ call' = [op |-> "resized", a |-> a, i |-> i, v |-> v, old |-> data[a]]
  /\ UNCHANGED others

Resized ==
  /\ call.op = "resized"
  /\ Delete(call.old)
  /\ LET s == InsertAt(Content(call.a), call.i, call.v)
     IN /\ Becomes(call.a, data[call.a], s, capacity[call.a])
        /\ Stores(call.a, data[call.a], s, capacity[call.a])
  /\ call' = NoCall
  /\ UNCHANGED others

InsertAtIndex(a, i) ==
  /\ FoldFunction(LAMBDA x, y : x + y, 0, size) < MaxElements
  /\ \E v \in Values : Insert(a, i, v) \/ Resize(a, i, v)

PushFront(a) == InsertAtIndex(a, 1)
PushBack(a) == InsertAtIndex(a, size[a] + 1)
ArrayInsertAt(a) == \E i \in 2..size[a] : InsertAtIndex(a, i)

\* An array that is empty is left alone by its callers.
RemoveAtIndex(a, i) ==
  /\ Idle /\ i \in 1..size[a]
  /\ Changes(a, RemoveAt(Content(a), i))
  /\ UNCHANGED <<heapVars, others, call>>

PopFront(a) == RemoveAtIndex(a, 1)
PopBack(a) == RemoveAtIndex(a, size[a])
ArrayRemoveAt(a) == \E i \in 2..(size[a] - 1) : RemoveAtIndex(a, i)

\* Remove: what is not v moves up, to the place that is left to it.
Kept(s, v) == {i \in DOMAIN s : s[i] # v}
UpTo(K, i) == {j \in K : j <= i}
Without(s, v) ==
  [k \in 1..Cardinality(Kept(s, v)) |->
     s[CHOOSE i \in Kept(s, v) : Cardinality(UpTo(Kept(s, v), i)) = k]]

ArrayRemove(a) ==
  /\ Idle
  /\ \E v \in Values : Changes(a, Without(Content(a), v))
  /\ UNCHANGED <<heapVars, others, call>>

Clear(a) == Idle /\ Changes(a, <<>>) /\ UNCHANGED <<heapVars, others, call>>

-----------------------------------------------------------------------------
Fresh(a) == data[a] = Null /\ capacity[a] = 0

\* Array(capacity)
Construct(a) ==
  /\ Idle /\ Fresh(a)
  /\ Alloc(FirstCapacity)
  /\ Becomes(a, New, <<>>, FirstCapacity)
  /\ Stores(a, New, <<>>, FirstCapacity)
  /\ UNCHANGED <<others, call>>

\* Array(const Array&)
CopyConstruct(a, b) ==
  /\ Idle /\ Fresh(a) /\ a # b
  /\ IF size[b] = 0
     THEN Becomes(a, Null, <<>>, capacity[b]) /\ UNCHANGED <<heapVars, cells>>
     ELSE /\ Alloc(capacity[b])
          /\ Becomes(a, New, Content(b), capacity[b])
          /\ Stores(a, New, Content(b), capacity[b])
  /\ UNCHANGED <<others, call>>

\* operator=, had it not asked for the room.
MutantAssign(a, b) ==
  /\ Idle
  /\ UNCHANGED others
  /\ \/ /\ data[a] # Null
        /\ Changes(a, IF a = b THEN <<>> ELSE Content(b))
        /\ UNCHANGED <<heapVars, call>>
     \/ /\ data[a] = Null
        /\ call' = IF size[b] = 0 THEN NoCall ELSE [op |-> "assign", a |-> a, b |-> b]
        /\ UNCHANGED <<heapVars, data, size, capacity, cells>>

\* operator=, as far as the end of an array that is too small.
Assign(a, b) ==
  /\ Idle
  /\ UNCHANGED others
  /\ \/ /\ data[a] # Null /\ capacity[a] < size[b]
        /\ Delete(data[a])
        /\ Becomes(a, Null, <<>>, 0)
        /\ Stores(a, Null, <<>>, 0)
        /\ call' = [op |-> "assign", a |-> a, b |-> b]
     \/ /\ data[a] # Null /\ capacity[a] >= size[b]
        /\ Changes(a, IF a = b THEN <<>> ELSE Content(b))
        /\ UNCHANGED <<heapVars, call>>
     \/ /\ data[a] = Null
        /\ call' = IF size[b] = 0 THEN NoCall ELSE [op |-> "assign", a |-> a, b |-> b]
        /\ UNCHANGED <<heapVars, data, size, capacity, cells>>

Assigned ==
  /\ call.op = "assign"
  /\ LET a == call.a
         b == call.b
     IN /\ Alloc(capacity[b])
        /\ Becomes(a, New, Content(b), capacity[b])
        /\ Stores(a, New, Content(b), capacity[b])
  /\ call' = NoCall
  /\ UNCHANGED others

\* The destructor; the array may be constructed again.
Destroy(a) ==
  /\ Idle
  /\ Delete(data[a])
  /\ Becomes(a, Null, <<>>, 0)
  /\ Stores(a, Null, <<>>, 0)
  /\ UNCHANGED <<others, call>>

-----------------------------------------------------------------------------
ArrayNext ==
  \/ OthersAlloc \/ OthersFree
  \/ \E a \in Arrays :
       \/ PushFront(a) \/ PushBack(a) \/ ArrayInsertAt(a)
       \/ PopFront(a) \/ PopBack(a) \/ ArrayRemoveAt(a) \/ ArrayRemove(a) \/ Clear(a)
       \/ Construct(a) \/ Destroy(a)
       \/ \E b \in Arrays : CopyConstruct(a, b) \/ Assign(a, b)
  \/ Resized \/ Assigned

ArraySpec == ArrayInit /\ [][ArrayNext]_arrayVars

-----------------------------------------------------------------------------
\* Every block in use has one owner: an array, another caller, or a call that is
\* about to give it back; and it is as long as the owner takes it to be.
DataOwned ==
  LET old == IF call.op = "resized" THEN {call.old} \ {Null} ELSE {}
  IN /\ used = Blocks \cup others \cup old
     /\ Blocks \cap (others \cup old) = {} /\ others \cap old = {}
     /\ \A a \in Arrays : data[a] # Null =>
          /\ \A b \in Arrays : data[b] = data[a] => b = a
          /\ size[a] <= capacity[a] /\ capacity[a] <= asked[data[a]]
          /\ Len(cells[data[a]]) = capacity[a]

\* To its users an array is a sequence.
Seen == INSTANCE Vector WITH content <- [a \in Arrays |-> Content(a)]
ImplementsVector == Seen!Spec
=============================================================================
