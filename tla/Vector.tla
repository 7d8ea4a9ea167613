------------------------------- MODULE Vector -------------------------------
(***************************************************************************)
(* What an array (kernel/Containers/Array.hpp) is to its users: a sequence, *)
(* which changes only by their calls, and never by those on another array. *)
(***************************************************************************)
EXTENDS Naturals, FiniteSets, Sequences, SequencesExt

CONSTANTS Arrays, Values

VARIABLE content

Change(a, s) == content' = [content EXCEPT ![a] = s]

Insert(a) ==
  \E i \in 1..(Len(content[a]) + 1), v \in Values : Change(a, InsertAt(content[a], i, v))
RemoveOne(a) == \E i \in 1..Len(content[a]) : Change(a, RemoveAt(content[a], i))

\* What remains are the elements that are not v, all of them and in their order.
RemoveAll(a) ==
  \E v \in Values :
    LET s == content[a]
        kept == {i \in DOMAIN s : s[i] # v}
    IN \E at \in [1..Cardinality(kept) -> kept] :
         /\ \A j, k \in DOMAIN at : j < k => at[j] < at[k]
         /\ Change(a, [k \in DOMAIN at |-> s[at[k]]])
Clear(a) == Change(a, <<>>)
Copy(a, b) == Change(a, content[b])

Init == content = [a \in Arrays |-> <<>>]

Next ==
  \E a \in Arrays :
    \/ Insert(a) \/ RemoveOne(a) \/ RemoveAll(a) \/ Clear(a)
    \/ \E b \in Arrays : Copy(a, b)

Spec == Init /\ [][Next]_content
=============================================================================
