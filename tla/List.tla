--------------------------------- MODULE List ---------------------------------
(***************************************************************************)
(* The linked list (kernel/Containers/List.hpp), pointer by pointer.  A    *)
(* list is a record of its head, its tail, its size and the items that are *)
(* allocated.  The pointers back are left out: what Input does with its    *)
(* lists never reads them.  A list is broken when a null pointer or one to *)
(* an item that was deleted is followed.                                   *)
(***************************************************************************)
EXTENDS Naturals, Sequences, FiniteSets

Null == 0

EmptyList == [head |-> Null, tail |-> Null, size |-> 0, items |-> <<>>, broken |-> FALSE]

\* An item that is not in use; one that was deleted may be used again.
NewItem(l) == CHOOSE i \in 1..(Cardinality(DOMAIN l.items) + 1) : i \notin DOMAIN l.items

WithItem(l, i, data) ==
  [l EXCEPT !.items = [j \in DOMAIN l.items \cup {i} |->
                         IF j = i THEN [data |-> data, next |-> Null] ELSE l.items[j]]]

\* PushBack, had it not linked the item before.
MutantPushBack(l, data) ==
  LET i == NewItem(l)
  IN IF l.head = Null
     THEN [WithItem(l, i, data) EXCEPT !.head = i, !.tail = i, !.size = @ + 1]
     ELSE [WithItem(l, i, data) EXCEPT !.tail = i, !.size = @ + 1]

PushBack(l, data) ==
  LET i == NewItem(l)
  IN IF l.head = Null
     THEN [WithItem(l, i, data) EXCEPT !.head = i, !.tail = i, !.size = @ + 1]
     ELSE IF l.tail \notin DOMAIN l.items THEN [l EXCEPT !.broken = TRUE]
     ELSE [WithItem(l, i, data) EXCEPT !.items[l.tail].next = i, !.tail = i, !.size = @ + 1]

Delete(l, i) ==
  IF i \notin DOMAIN l.items THEN [l EXCEPT !.broken = TRUE]
  ELSE [l EXCEPT !.items = [j \in DOMAIN l.items \ {i} |-> l.items[j]]]

\* The item that a walk from the head reaches in k steps; a walk that never comes to
\* an end is one step too long.
Reached(l) ==
  LET at[k \in 0..Cardinality(DOMAIN l.items)] ==
        IF k = 0 THEN l.head
        ELSE IF at[k - 1] \in DOMAIN l.items THEN l.items[at[k - 1]].next ELSE Null
  IN at

Elements(l) ==
  LET walk == {k \in DOMAIN Reached(l) : Reached(l)[k] \in DOMAIN l.items}
  IN [k \in 1..Cardinality(walk) |-> l.items[Reached(l)[k - 1]].data]

\* Head, tail and size tell of the same items.
Sound(l) ==
  /\ ~l.broken
  /\ Len(Elements(l)) = l.size
  /\ (l.head = Null) = (l.size = 0)
  /\ (l.tail = Null) = (l.size = 0)
  /\ l.tail # Null => l.items[l.tail].data = Elements(l)[l.size] /\ l.items[l.tail].next = Null
=============================================================================
