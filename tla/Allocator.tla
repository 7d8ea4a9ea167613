----------------------------- MODULE Allocator -----------------------------
(***************************************************************************)
(* What the heap (kernel/Core/Memory.cpp) promises to those who allocate:  *)
(* a granted range belongs to its owner alone, stays where it is and keeps *)
(* its size until it is released.                                          *)
(***************************************************************************)
EXTENDS Integers

VARIABLE granted   \* the ranges [at, size] that have an owner

Disjoint(r, s) == r.at + r.size <= s.at \/ s.at + s.size <= r.at

Init == granted = {}

Grant ==
  \E r \in granted' :
    /\ r \notin granted
    /\ \A s \in granted : Disjoint(r, s)
    /\ granted' = granted \cup {r}

Release == \E r \in granted : granted' = granted \ {r}

Next == Grant \/ Release

Spec == Init /\ [][Next]_granted
=============================================================================
