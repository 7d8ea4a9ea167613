----------------------------- MODULE InputProofs -----------------------------
(***************************************************************************)
(* Proofs about the lists, the keyboard and the mouse (modules List and    *)
(* Input), for any keys, buttons and packets, any number of bytes and any  *)
(* number of them lost.                                                    *)
(***************************************************************************)
EXTENDS Input, FiniteSetTheorems, SequenceTheorems, WellFoundedInduction, TLAPS

-----------------------------------------------------------------------------
(* Lists.                                                                  *)

Orders == Seq(Nat \ {Null})

IsList(l) ==
  /\ l = [head |-> l.head, tail |-> l.tail, size |-> l.size, items |-> l.items, broken |-> l.broken]
  /\ l.items = [j \in DOMAIN l.items |-> [data |-> l.items[j].data, next |-> l.items[j].next]]

\* The items of l are those of s, which follow one another as in s, and those of rest.
Chained(l, s, rest) ==
  /\ IsList(l)
  /\ DOMAIN l.items = Range(s) \cup rest
  /\ Range(s) \cap rest = {}
  /\ \A j, k \in DOMAIN s : s[j] = s[k] => j = k
  /\ \A k \in DOMAIN s : l.items[s[k]].next = IF k = Len(s) THEN Null ELSE s[k + 1]
  /\ l.head = IF s = <<>> THEN Null ELSE s[1]
  /\ l.broken = FALSE

\* The tail too is as s tells.
Linked(l, s, rest) ==
  /\ Chained(l, s, rest)
  /\ l.tail = IF s = <<>> THEN Null ELSE s[Len(s)]

DataIn(l, s) == [k \in 1..Len(s) |-> l.items[s[k]].data]

LEMMA NextChanged ==
  ASSUME NEW D, NEW f, f = [j \in D |-> f[j]], NEW x \in D, NEW a, NEW b, NEW i,
         f[x] = [data |-> a, next |-> b]
  PROVE  [f EXCEPT ![x].next = i] = [j \in D |-> IF j = x THEN [data |-> a, next |-> i] ELSE f[j]]
<1>1. [f[x] EXCEPT !.next = i] = [data |-> a, next |-> i]
  OBVIOUS
<1> QED BY <1>1

LEMMA Order ==
  ASSUME NEW s \in Orders
  PROVE  /\ Len(s) \in Nat /\ DOMAIN s = 1..Len(s)
         /\ \A k \in 1..Len(s) : s[k] \in Nat \ {Null} /\ s[k] \in Range(s)
         /\ s = <<>> <=> Len(s) = 0
         /\ Range(s) \subseteq Nat \ {Null}
<1>1. Len(s) \in Nat /\ DOMAIN s = 1..Len(s) /\ s \in [1..Len(s) -> Nat \ {Null}]
  BY LenProperties DEF Orders
<1>2. s = <<>> <=> Len(s) = 0
  BY EmptySeq DEF Orders
<1> QED BY <1>1, <1>2 DEF Range

\* As many items as there are places.
LEMMA Items ==
  ASSUME NEW s \in Orders, \A j, k \in DOMAIN s : s[j] = s[k] => j = k
  PROVE  IsFiniteSet(Range(s)) /\ Cardinality(Range(s)) = Len(s)
<1>1. Len(s) \in Nat /\ DOMAIN s = 1..Len(s)
  BY Order
<1>2. IsFiniteSet(1..Len(s)) /\ Cardinality(1..Len(s)) = Len(s)
  <2>1. 1 \in Int /\ Len(s) \in Int
    BY <1>1
  <2>2. IsFiniteSet(1..Len(s)) /\ Cardinality(1..Len(s)) = IF 1 > Len(s) THEN 0 ELSE Len(s) - 1 + 1
    BY <2>1, FS_Interval
  <2> QED BY <1>1, <2>2
<1>3. s \in Bijection(1..Len(s), Range(s))
  <2>1. s \in [1..Len(s) -> Range(s)]
    BY <1>1, LenProperties DEF Range, Orders
  <2> QED BY <1>1, <2>1 DEF Bijection, Injection, Surjection, Range, IsInjective
<1>4. ExistsBijection(1..Len(s), Range(s))
  BY <1>3 DEF ExistsBijection
<1> QED BY <1>2, <1>4, FS_Bijection

LEMMA NewItemIsNew ==
  ASSUME NEW l, IsFiniteSet(DOMAIN l.items)
  PROVE  NewItem(l) \in Nat \ {Null} /\ NewItem(l) \notin DOMAIN l.items
<1> DEFINE n == Cardinality(DOMAIN l.items)
<1>1. n \in Nat
  BY FS_CardinalityType
<1>2. IsFiniteSet(1..(n + 1)) /\ Cardinality(1..(n + 1)) = n + 1
  <2>1. 1 \in Int /\ n + 1 \in Int /\ ~(1 > n + 1) /\ n + 1 - 1 + 1 = n + 1
    BY <1>1
  <2> QED BY <2>1, FS_Interval
<1>3. \E i \in 1..(n + 1) : i \notin DOMAIN l.items
  <2> SUFFICES ASSUME 1..(n + 1) \subseteq DOMAIN l.items PROVE FALSE
    OBVIOUS
  <2>1. 1..(n + 1) \in SUBSET DOMAIN l.items
    OBVIOUS
  <2>2. Cardinality(1..(n + 1)) <= n
    BY <2>1, FS_Subset
  <2> QED BY <1>1, <1>2, <2>2
<1>4. NewItem(l) \in 1..(n + 1) /\ NewItem(l) \notin DOMAIN l.items
  BY <1>3 DEF NewItem
<1> QED BY <1>1, <1>4 DEF Null

\* What a push to l with order s makes of it: p with order t.
Pushed(l, s, rest, data, p, t) ==
  /\ t \in Orders /\ Linked(p, t, rest) /\ p.size = l.size + 1
  /\ DOMAIN p.items = DOMAIN l.items \cup {NewItem(l)}
  /\ NewItem(l) \notin DOMAIN l.items
  /\ p.items[NewItem(l)].data = data
  /\ \A j \in DOMAIN l.items : p.items[j].data = l.items[j].data
  /\ DataIn(p, t) = Append(DataIn(l, s), data)

\* What PushBack does: the new item comes last, and nothing else changes its data.
LEMMA PushBackEffect ==
  ASSUME NEW l, NEW s \in Orders, NEW rest, IsFiniteSet(rest), Linked(l, s, rest), NEW data,
         l.size \in Nat
  PROVE  Pushed(l, s, rest, data, PushBack(l, data), Append(s, NewItem(l)))
<1> DEFINE i == NewItem(l)
           p == PushBack(l, data)
           t == Append(s, i)
           n == Len(s)
           w == WithItem(l, i, data)
<1>1. i \in Nat \ {Null} /\ i \notin DOMAIN l.items
  <2>1. IsFiniteSet(Range(s))
    BY Items DEF Linked, Chained
  <2>2. IsFiniteSet(Range(s) \cup rest)
    BY <2>1, FS_Union
  <2>3. DOMAIN l.items = Range(s) \cup rest
    BY DEF Linked, Chained
  <2> QED BY <2>2, <2>3, NewItemIsNew
<1> HIDE DEF i
<1>2. /\ n \in Nat /\ DOMAIN s = 1..n /\ (s = <<>> <=> n = 0)
      /\ \A k \in 1..n : s[k] \in Nat \ {Null} /\ s[k] \in Range(s)
  BY Order
<1>3. /\ t \in Orders /\ Len(t) = n + 1 /\ DOMAIN t = 1..(n + 1) /\ t # <<>>
      /\ t[n + 1] = i /\ \A k \in 1..n : t[k] = s[k]
  BY <1>1, <1>2, AppendProperties, LenProperties DEF Orders
<1>4. Range(t) = Range(s) \cup {i}
  <2>1. ASSUME NEW x \in Range(t) PROVE x \in Range(s) \cup {i}
    BY <1>2, <1>3 DEF Range
  <2>2. ASSUME NEW x \in Range(s) \cup {i} PROVE x \in Range(t)
    <3>1. CASE x = i
      <4>1. n + 1 \in DOMAIN t
        BY <1>2, <1>3
      <4> QED BY <1>3, <3>1, <4>1 DEF Range
    <3>2. CASE x \in Range(s)
      <4>1. PICK k \in 1..n : x = s[k]
        BY <1>2, <3>2 DEF Range
      <4> QED BY <1>2, <1>3, <4>1 DEF Range
    <3> QED BY <3>1, <3>2
  <2> QED BY <2>1, <2>2
<1> DEFINE wi == [j \in DOMAIN l.items \cup {i} |->
                    IF j = i THEN [data |-> data, next |-> Null]
                    ELSE [data |-> l.items[j].data, next |-> l.items[j].next]]
<1>5. w = [head |-> l.head, tail |-> l.tail, size |-> l.size, items |-> wi, broken |-> l.broken]
  <2>1. l.items = [j \in DOMAIN l.items |-> [data |-> l.items[j].data, next |-> l.items[j].next]]
    BY DEF Linked, Chained, IsList
  <2>2. wi = [j \in DOMAIN l.items \cup {i} |->
                IF j = i THEN [data |-> data, next |-> Null] ELSE l.items[j]]
    BY <2>1
  <2>3. l = [head |-> l.head, tail |-> l.tail, size |-> l.size, items |-> l.items, broken |-> l.broken]
    BY DEF Linked, Chained, IsList
  <2> HIDE DEF wi
  <2>4. w = [l EXCEPT !.items = wi]
    BY <2>2 DEF WithItem
  <2> QED BY <2>3, <2>4
<1>6. /\ p = [head |-> IF n = 0 THEN i ELSE l.head, tail |-> i, size |-> l.size + 1,
              items |-> p.items, broken |-> l.broken]
      /\ p.items = [j \in DOMAIN l.items \cup {i} |->
                      IF j = i THEN [data |-> data, next |-> Null]
                      ELSE [data |-> l.items[j].data,
                            next |-> IF n # 0 /\ j = l.tail THEN i ELSE l.items[j].next]]
  <2> HIDE DEF w
  <2>1. CASE n = 0
    <3>1. l.head = Null
      BY <1>2, <2>1 DEF Linked, Chained
    <3>2. p = [w EXCEPT !.head = i, !.tail = i, !.size = @ + 1]
      BY <3>1 DEF PushBack, w, i
    <3>3. p = [head |-> i, tail |-> i, size |-> l.size + 1, items |-> wi, broken |-> l.broken]
      <4> HIDE DEF p, wi
      <4> QED BY <1>5, <3>2
    <3>4. wi = [j \in DOMAIN l.items \cup {i} |->
                      IF j = i THEN [data |-> data, next |-> Null]
                      ELSE [data |-> l.items[j].data,
                            next |-> IF n # 0 /\ j = l.tail THEN i ELSE l.items[j].next]]
      BY <2>1
    <3> HIDE DEF p
    <3> QED BY <2>1, <3>3, <3>4
  <2>2. CASE n # 0
    <3>1. l.head # Null
      BY <1>2, <2>2 DEF Linked, Chained
    <3>2. l.tail \in DOMAIN l.items
      BY <1>2, <2>2 DEF Linked, Chained
    <3>3. p = [w EXCEPT !.items[l.tail].next = i, !.tail = i, !.size = @ + 1]
      BY <3>1, <3>2 DEF PushBack, w, i
    <3>4. l.tail # i /\ l.tail \in DOMAIN wi
      BY <1>1, <3>2
    <3>5. p = [head |-> l.head, tail |-> i, size |-> l.size + 1, broken |-> l.broken,
               items |-> [wi EXCEPT ![l.tail].next = i]]
      <4> HIDE DEF p, wi
      <4> QED BY <1>5, <3>3
    <3>6. [wi EXCEPT ![l.tail].next = i]
            = [j \in DOMAIN l.items \cup {i} |->
                 IF j = i THEN [data |-> data, next |-> Null]
                 ELSE [data |-> l.items[j].data,
                       next |-> IF n # 0 /\ j = l.tail THEN i ELSE l.items[j].next]]
      <4> DEFINE D == DOMAIN l.items \cup {i}
      <4>1. wi[l.tail] = [data |-> l.items[l.tail].data, next |-> l.items[l.tail].next]
        BY <3>4
      <4>2. [wi EXCEPT ![l.tail].next = i]
              = [j \in D |-> IF j = l.tail THEN [data |-> l.items[l.tail].data, next |-> i] ELSE wi[j]]
        <5>1. wi = [j \in D |-> wi[j]] /\ l.tail \in D
          BY <3>4
        <5> HIDE DEF wi, D
        <5> QED BY <4>1, <5>1, NextChanged
      <4> QED BY <2>2, <3>4, <4>2
    <3> HIDE DEF p
    <3> QED BY <2>2, <3>5, <3>6
  <2> QED BY <2>1, <2>2
<1> HIDE DEF p, t, w
<1>7. Linked(p, t, rest)
  <2>1. IsList(p)
    BY <1>6 DEF IsList
  <2>2. DOMAIN p.items = Range(t) \cup rest /\ Range(t) \cap rest = {}
    BY <1>1, <1>4, <1>6 DEF Linked, Chained
  <2>3. ASSUME NEW j \in DOMAIN t, NEW k \in DOMAIN t, t[j] = t[k] PROVE j = k
    <3>1. \A m \in 1..n : t[m] # i
      BY <1>1, <1>2, <1>3 DEF Linked, Chained
    <3>2. j \in 1..n <=> k \in 1..n
      BY <1>2, <1>3, <2>3, <3>1
    <3> QED BY <1>2, <1>3, <2>3, <3>2 DEF Linked, Chained
  <2>4. ASSUME NEW k \in DOMAIN t
        PROVE  p.items[t[k]].next = IF k = Len(t) THEN Null ELSE t[k + 1]
    <3>1. CASE k = n + 1
      BY <1>3, <1>6, <3>1
    <3>2. CASE k = n
      <4>1. n \in DOMAIN s /\ n # 0 /\ k # Len(t) /\ t[k] = s[n] /\ t[k + 1] = i
        <5>1. k \in 1..(n + 1) /\ k # 0
          BY <1>3
        <5>2. k \in 1..n /\ k # n + 1 /\ n \in 1..n /\ n # 0
          <6> HIDE DEF n
          <6> QED BY <1>2, <3>2, <5>1
        <5>3. t[k] = s[k] /\ t[k + 1] = i
          BY <1>3, <3>2, <5>2
        <5> QED BY <1>2, <1>3, <3>2, <5>2, <5>3
      <4>2. s[n] \in DOMAIN l.items /\ s[n] # i /\ l.tail = s[n]
        BY <1>1, <1>2, <4>1 DEF Linked, Chained
      <4> QED BY <1>6, <4>1, <4>2
    <3>3. CASE k \in 1..(n - 1)
      <4>1. t[k] = s[k] /\ s[k] \in DOMAIN l.items /\ s[k] # i /\ t[k + 1] = s[k + 1]
        BY <1>1, <1>2, <1>3, <3>3 DEF Linked, Chained
      <4>2. l.tail = s[n] /\ s[n] # s[k]
        BY <1>2, <3>3 DEF Linked, Chained
      <4>3. l.items[s[k]].next = s[k + 1]
        BY <1>2, <3>3 DEF Linked, Chained
      <4> QED BY <1>2, <1>3, <1>6, <3>3, <4>1, <4>2, <4>3
    <3> QED BY <1>2, <1>3, <3>1, <3>2, <3>3
  <2>5. p.head = t[1] /\ p.tail = t[Len(t)] /\ p.broken = FALSE
    BY <1>2, <1>3, <1>6 DEF Linked, Chained
  <2> QED BY <1>3, <2>1, <2>2, <2>3, <2>4, <2>5 DEF Linked, Chained
<1>8. /\ p.size = l.size + 1
      /\ DOMAIN p.items = DOMAIN l.items \cup {i}
      /\ p.items[i].data = data
      /\ \A j \in DOMAIN l.items : p.items[j].data = l.items[j].data
  BY <1>1, <1>6
<1>9. DataIn(p, t) = Append(DataIn(l, s), data)
  <2>1. \A k \in 1..n : s[k] \in DOMAIN l.items
    BY <1>2 DEF Linked, Chained
  <2>2. Append(DataIn(l, s), data) = [k \in 1..(n + 1) |-> IF k = n + 1 THEN data ELSE l.items[s[k]].data]
    BY <1>2 DEF DataIn
  <2>3. \A k \in 1..(n + 1) : p.items[t[k]].data = IF k = n + 1 THEN data ELSE l.items[s[k]].data
    BY <1>2, <1>3, <1>8, <2>1
  <2> QED BY <1>3, <2>2, <2>3 DEF DataIn
<1> QED BY <1>1, <1>3, <1>7, <1>8, <1>9 DEF p, t, i, Pushed

\* Induction, for a set of numbers.
LEMMA Numbers ==
  ASSUME NEW S, 0 \in S, \A n \in Nat : n \in S => n + 1 \in S
  PROVE  Nat \subseteq S
<1> DEFINE K == Nat \ S
           R == StrictSubsetOrdering(Nat)
           T == {0..n : n \in K}
<1> SUFFICES ASSUME K # {} PROVE FALSE
  OBVIOUS
<1>1. IsWellFoundedOn(R, FiniteSubsetsOf(Nat))
  BY FS_StrictSubsetOrderingWellFounded
<1>2. T \subseteq FiniteSubsetsOf(Nat)
  <2>1. \A n \in K : 0..n \in SUBSET Nat
    OBVIOUS
  <2>2. ASSUME NEW n \in K PROVE IsFiniteSet(0..n)
    <3>1. n \in Int /\ 0 \in Int
      OBVIOUS
    <3> QED BY <3>1, FS_Interval
  <2> QED BY <2>1, <2>2 DEF FiniteSubsetsOf
<1>3. \E x \in T : \A y \in T : ~(<<y, x>> \in R)
  <2>1. T # {}
    OBVIOUS
  <2> HIDE DEF R, T
  <2> QED BY <1>1, <1>2, <2>1, WFMin
<1>4. PICK m \in K : \A n \in K : ~(<<0..n, 0..m>> \in R)
  BY <1>3
<1>5. m # 0 /\ m - 1 \in K
  <2>1. m \in Nat /\ m \notin S /\ m # 0
    OBVIOUS
  <2>2. m - 1 \in Nat /\ (m - 1) + 1 = m
    BY <2>1
  <2> QED BY <2>1, <2>2
<1>6. 0..(m - 1) \subseteq 0..m /\ m \notin 0..(m - 1) /\ m \in 0..m
  OBVIOUS
<1>7. <<0..(m - 1), 0..m>> \in R
  BY <1>6 DEF StrictSubsetOrdering
<1> QED BY <1>4, <1>5, <1>7

\* A walk finds the items in their order.
LEMMA WalkFinds ==
  ASSUME NEW l, NEW s \in Orders, Linked(l, s, {})
  PROVE  /\ DOMAIN Reached(l) = 0..Len(s)
         /\ \A k \in 0..Len(s) : Reached(l)[k] = IF k = Len(s) THEN Null ELSE s[k + 1]
<1> DEFINE n == Len(s)
           D == DOMAIN l.items
           Is(f) == f = [k \in 0..n |-> IF k = 0 THEN l.head
                                      ELSE IF f[k - 1] \in D THEN l.items[f[k - 1]].next ELSE Null]
           g == [k \in 0..n |-> IF k = n THEN Null ELSE s[k + 1]]
           r == Reached(l)
<1>1. /\ n \in Nat /\ DOMAIN s = 1..n /\ (s = <<>> <=> n = 0)
      /\ \A k \in 1..n : s[k] \in Nat \ {Null} /\ s[k] \in Range(s)
      /\ Range(s) \subseteq Nat \ {Null}
  BY Order
<1>2. D = Range(s) /\ Null \notin D
  BY <1>1 DEF Linked, Chained
<1>3. Cardinality(D) = n
  BY <1>2, Items DEF Linked, Chained
<1>4. \A k \in 1..n : l.items[s[k]].next = IF k = n THEN Null ELSE s[k + 1]
  BY <1>1 DEF Linked, Chained
<1>5. l.head = IF n = 0 THEN Null ELSE s[1]
  BY <1>1 DEF Linked, Chained
<1>6. r = CHOOSE f : Is(f)
  BY <1>3 DEF Reached
<1> HIDE DEF D, r
<1>7. ASSUME NEW k \in 1..n, NEW f, f[k - 1] = g[k - 1]
      PROVE  g[k] = IF f[k - 1] \in D THEN l.items[f[k - 1]].next ELSE Null
  <2>1. k - 1 \in 0..n /\ k - 1 # n /\ (k - 1) + 1 = k /\ k \in 0..n
    BY <1>1
  <2>2. f[k - 1] = s[k] /\ s[k] \in D
    BY <1>1, <1>2, <1>7, <2>1
  <2> QED BY <1>4, <2>1, <2>2
<1>8. g[0] = l.head
  BY <1>1, <1>5
<1>9. Is(g)
  <2>1. \A k \in 0..n : k # 0 => k \in 1..n
    BY <1>1
  <2>2. \A k \in 0..n : g[k] = IF k = 0 THEN l.head
                               ELSE IF g[k - 1] \in D THEN l.items[g[k - 1]].next ELSE Null
    <3> HIDE DEF g
    <3> QED BY <1>7, <1>8, <2>1
  <2>3. g = [k \in 0..n |-> g[k]]
    OBVIOUS
  <2> HIDE DEF g
  <2> QED BY <2>2, <2>3
<1>10. Is(r)
  <2> HIDE DEF Is
  <2> QED BY <1>6, <1>9
<1> DEFINE S == {k \in Nat : k <= n => r[k] = g[k]}
<1> HIDE DEF g
<1>11. 0 \in S
  BY <1>1, <1>8, <1>10
<1>12. ASSUME NEW k \in Nat, k \in S PROVE k + 1 \in S
  <2> SUFFICES ASSUME k + 1 <= n PROVE r[k + 1] = g[k + 1]
    OBVIOUS
  <2>1. k + 1 \in 1..n /\ k + 1 \in 0..n /\ (k + 1) - 1 = k /\ k + 1 # 0 /\ r[k] = g[k]
    BY <1>1, <1>12
  <2>2. r[k + 1] = IF r[k] \in D THEN l.items[r[k]].next ELSE Null
    BY <1>10, <2>1
  <2> QED BY <1>7, <2>1, <2>2
<1>13. \A k \in 0..n : r[k] = g[k]
  <2> HIDE DEF S
  <2>1. Nat \subseteq S
    BY <1>11, <1>12, Numbers
  <2> QED BY <1>1, <2>1 DEF S
<1>14. DOMAIN r = 0..n
  BY <1>10
<1> QED BY <1>13, <1>14 DEF r, g

\* What the walk finds, and the list's own fields, tell the same.
LEMMA LinkedIsSound ==
  ASSUME NEW l, NEW s \in Orders, Linked(l, s, {}), l.size = Len(s)
  PROVE  Sound(l) /\ Elements(l) = DataIn(l, s)
<1> DEFINE n == Len(s)
           r == Reached(l)
           D == DOMAIN l.items
<1>1. /\ n \in Nat /\ DOMAIN s = 1..n /\ (s = <<>> <=> n = 0)
      /\ \A k \in 1..n : s[k] \in Nat \ {Null} /\ s[k] \in Range(s)
      /\ Range(s) \subseteq Nat \ {Null}
  BY Order
<1>2. D = Range(s) /\ Null \notin D
  BY <1>1 DEF Linked, Chained
<1>3. DOMAIN r = 0..n /\ \A k \in 0..n : r[k] = IF k = n THEN Null ELSE s[k + 1]
  BY WalkFinds
<1> HIDE DEF r, D
<1>4. {k \in DOMAIN r : r[k] \in D} = 0..(n - 1)
  <2>1. ASSUME NEW k \in 0..n PROVE r[k] \in D <=> k # n
    <3>1. CASE k = n
      BY <1>2, <1>3, <3>1
    <3>2. CASE k # n
      <4>1. k + 1 \in 1..n
        <5> HIDE DEF n
        <5> QED BY <1>1, <3>2
      <4> QED BY <1>1, <1>2, <1>3, <3>2, <4>1
    <3> QED BY <3>1, <3>2
  <2>2. \A k : k \in 0..(n - 1) <=> k \in 0..n /\ k # n
    BY <1>1
  <2> QED BY <1>3, <2>1, <2>2
<1>5. Cardinality(0..(n - 1)) = n
  <2>1. 0 \in Int /\ n - 1 \in Int /\ (0 > n - 1 <=> n = 0) /\ (n - 1) - 0 + 1 = n
    BY <1>1
  <2> QED BY <2>1, FS_Interval
<1>6. Elements(l) = [k \in 1..n |-> l.items[r[k - 1]].data]
  BY <1>4, <1>5 DEF Elements, r, D
<1>7. \A k \in 1..n : r[k - 1] = s[k]
  <2>1. \A k \in 1..n : k - 1 \in 0..n /\ k - 1 # n /\ (k - 1) + 1 = k
    BY <1>1
  <2> QED BY <1>3, <2>1
<1>8. Elements(l) = DataIn(l, s)
  BY <1>6, <1>7 DEF DataIn
<1>9. Len(Elements(l)) = n
  BY <1>1, <1>8 DEF DataIn
<1>10. l.tail # Null => l.items[l.tail].data = Elements(l)[l.size] /\ l.items[l.tail].next = Null
  <2> SUFFICES ASSUME l.tail # Null
               PROVE  l.items[l.tail].data = Elements(l)[l.size] /\ l.items[l.tail].next = Null
    OBVIOUS
  <2>1. n # 0 /\ l.tail = s[n] /\ n \in DOMAIN s
    BY <1>1 DEF Linked
  <2> QED BY <1>1, <1>8, <2>1 DEF DataIn, Linked, Chained
<1> QED
  BY <1>1, <1>8, <1>9, <1>10 DEF Sound, Linked, Chained

-----------------------------------------------------------------------------
(* The keyboard.                                                           *)

Events == [key : Keys, pressed : BOOLEAN, shift : BOOLEAN]

\* The list holds, in the order of s, those of all the events that come after before.
Holds(l, s, rest, before, all) ==
  /\ Linked(l, s, rest)
  /\ \A j \in DOMAIN l.items : l.items[j].data \in Events
  /\ all = before \o DataIn(l, s)

\* The reader has taken hold of the first item of s.
Taken(s) ==
  /\ s # <<>> /\ reader.item = s[1]
  /\ reader.next = IF Len(s) = 1 THEN Null ELSE s[2]

\* The list in every step of PopFront: whole; with an item of which the head has
\* been read; with the last one, that only the tail still shows; with one item more.
KeyList ==
  \/ /\ reader.place \in {"test", "wait", "load"}
     /\ \E s \in Orders : /\ Holds(keyEvents, s, {}, read, decoded) /\ keyEvents.size = Len(s)
                          /\ reader.place = "load" => s # <<>>
  \/ /\ reader.place = "store"
     /\ \E s \in Orders : /\ Holds(keyEvents, s, {}, read, decoded) /\ keyEvents.size = Len(s)
                          /\ Taken(s)
  \/ /\ reader.place = "clearTail" /\ reader.next = Null /\ keyEvents.head = Null
     /\ Holds([keyEvents EXCEPT !.head = reader.item], <<reader.item>>, {}, read, decoded)
     /\ IsList(keyEvents) /\ keyEvents.size = 1 /\ reader.item \in Nat \ {Null}
  \/ /\ reader.place = "delete"
     /\ reader.item \in DOMAIN keyEvents.items
     /\ \E s \in Orders :
          /\ Holds(keyEvents, s, {reader.item}, Append(read, keyEvents.items[reader.item].data), decoded)
          /\ keyEvents.size = Len(s) + 1

\* What KeyEventsKept needs to be inductive.
KeyInv ==
  ~keysTorn =>
    /\ decoded \in Seq(Events) /\ read \in Seq(Events)
    /\ reader = [place |-> reader.place, item |-> reader.item, next |-> reader.next]
    /\ KeyList

LEMMA KeyInit == InputInit => KeyInv
<1> SUFFICES ASSUME InputInit PROVE KeyInv
  OBVIOUS
<1>1. <<>> \in Orders /\ Len(<<>>) = 0 /\ <<>> \in Seq(Events)
  BY EmptySeq DEF Orders
<1>2. Linked(EmptyList, <<>>, {})
  BY <1>1 DEF Linked, Chained, IsList, EmptyList, Range
<1>3. DataIn(EmptyList, <<>>) = <<>>
  BY DEF DataIn
<1>4. Holds(keyEvents, <<>>, {}, read, decoded)
  BY <1>1, <1>2, <1>3 DEF Holds, InputInit, EmptyList
<1>5. reader = [place |-> "test", item |-> Null, next |-> Null]
  BY DEF InputInit
<1>6. KeyList
  BY <1>1, <1>4, <1>5 DEF KeyList, InputInit, EmptyList
<1> QED BY <1>1, <1>5, <1>6 DEF KeyInv, InputInit

LEMMA AppendToBoth ==
  ASSUME NEW u \in Seq(Events), NEW v \in Seq(Events), NEW e \in Events
  PROVE  Append(u \o v, e) = u \o Append(v, e)
OBVIOUS

\* One more event, whoever else is at the list.
LEMMA HoldsMore ==
  ASSUME NEW l, NEW s \in Orders, NEW rest, IsFiniteSet(rest), l.size \in Nat,
         NEW before \in Seq(Events), NEW all, Holds(l, s, rest, before, all), NEW e \in Events
  PROVE  LET p == PushBack(l, e)
         IN \E t \in Orders :
              /\ Holds(p, t, rest, before, Append(all, e)) /\ Len(t) = Len(s) + 1
              /\ s # <<>> => t[1] = s[1]
              /\ Len(s) > 1 => t[2] = s[2]
              /\ p.size = l.size + 1
              /\ DOMAIN l.items \subseteq DOMAIN p.items
              /\ \A j \in DOMAIN l.items : p.items[j].data = l.items[j].data
<1> DEFINE p == PushBack(l, e)
           i == NewItem(l)
           t == Append(s, i)
<1>1. /\ t \in Orders /\ Linked(p, t, rest) /\ p.size = l.size + 1
      /\ DOMAIN p.items = DOMAIN l.items \cup {i} /\ i \notin DOMAIN l.items
      /\ p.items[i].data = e
      /\ \A j \in DOMAIN l.items : p.items[j].data = l.items[j].data
      /\ DataIn(p, t) = Append(DataIn(l, s), e)
  BY PushBackEffect DEF Holds, Pushed
<1> HIDE DEF p
<1>2. Len(s) \in Nat /\ (s = <<>> <=> Len(s) = 0) /\ \A k \in 1..Len(s) : s[k] \in Range(s)
  BY Order
<1>3. Len(t) = Len(s) + 1 /\ \A k \in 1..Len(s) : t[k] = s[k]
  BY <1>2, AppendProperties DEF Orders
<1>4. DataIn(l, s) \in Seq(Events)
  <2>1. \A k \in 1..Len(s) : l.items[s[k]].data \in Events
    BY <1>2 DEF Holds, Linked, Chained
  <2> QED BY <1>2, <2>1 DEF DataIn
<1>5. Append(all, e) = before \o Append(DataIn(l, s), e)
  <2>1. all = before \o DataIn(l, s)
    BY DEF Holds
  <2> QED BY <1>4, <2>1, AppendToBoth
<1>6. Holds(p, t, rest, before, Append(all, e))
  BY <1>1, <1>5 DEF Holds
<1>7. (s # <<>> => t[1] = s[1]) /\ (Len(s) > 1 => t[2] = s[2])
  BY <1>2, <1>3
<1> QED BY <1>1, <1>3, <1>6, <1>7 DEF p

\* The handler of the keyboard, in any step of the reader.
LEMMA KeyHandler ==
  ASSUME KeyInv, NEW code \in Codes, KeyFIFOAdd(code)
  PROVE  KeyInv'
<1> SUFFICES ASSUME ~keysTorn', code.kind = "key" PROVE KeyInv'
  BY DEF KeyFIFOAdd, KeyInv, KeyList, Holds, Taken, keyVars
<1> DEFINE event == [key |-> code.key, pressed |-> code.pressed,
                     shift |-> Shift \in IF code.pressed THEN keysMap \cup {code.key}
                                         ELSE keysMap \ {code.key}]
<1>1. /\ keyEvents' = PushBack(keyEvents, event) /\ decoded' = Append(decoded, event)
      /\ reader' = reader /\ read' = read
      /\ ~keysTorn /\ ~(reader.place \in {"store", "clearTail"} /\ reader.next = Null)
  BY DEF KeyFIFOAdd
<1>2. event \in Events
  BY DEF Codes, Events
<1> HIDE DEF event
<1>3. /\ decoded \in Seq(Events) /\ read \in Seq(Events) /\ KeyList
      /\ reader = [place |-> reader.place, item |-> reader.item, next |-> reader.next]
  BY <1>1 DEF KeyInv
<1>4. decoded' \in Seq(Events)
  BY <1>1, <1>2, <1>3
<1>5. \A s \in Orders : Len(s) \in Nat /\ (s = <<>> <=> Len(s) = 0)
  BY Order
<1>6. IsFiniteSet({}) /\ IsFiniteSet({reader.item})
  BY FS_EmptySet, FS_Singleton
<1>7. KeyList'
  <2>1. CASE reader.place \in {"test", "wait", "load"}
    <3>1. PICK s \in Orders : /\ Holds(keyEvents, s, {}, read, decoded) /\ keyEvents.size = Len(s)
                              /\ reader.place = "load" => s # <<>>
      BY <1>3, <2>1 DEF KeyList
    <3>2. PICK t \in Orders : /\ Holds(keyEvents', t, {}, read, decoded') /\ Len(t) = Len(s) + 1
                              /\ keyEvents'.size = keyEvents.size + 1
      BY <1>1, <1>2, <1>3, <1>5, <1>6, <3>1, HoldsMore
    <3>3. t # <<>> /\ keyEvents'.size = Len(t)
      BY <1>5, <3>1, <3>2
    <3> QED BY <1>1, <2>1, <3>2, <3>3 DEF KeyList
  <2>2. CASE reader.place = "store"
    <3>1. PICK s \in Orders : /\ Holds(keyEvents, s, {}, read, decoded) /\ keyEvents.size = Len(s)
                              /\ Taken(s)
      BY <1>3, <2>2 DEF KeyList
    <3>2. PICK t \in Orders : /\ Holds(keyEvents', t, {}, read, decoded') /\ Len(t) = Len(s) + 1
                              /\ s # <<>> => t[1] = s[1]
                              /\ Len(s) > 1 => t[2] = s[2]
                              /\ keyEvents'.size = keyEvents.size + 1
      BY <1>1, <1>2, <1>3, <1>5, <1>6, <3>1, HoldsMore
    <3>3. t # <<>> /\ keyEvents'.size = Len(t)
      BY <1>5, <3>1, <3>2
    <3>4. Len(s) # 1
      BY <1>1, <2>2, <3>1 DEF Taken
    <3>5. Len(s) > 1 /\ Len(t) # 1 /\ s # <<>>
      <4>1. Len(s) \in Nat /\ Len(s) # 0 /\ s # <<>>
        BY <1>5, <3>1 DEF Taken
      <4>2. Len(t) = Len(s) + 1
        BY <3>2
      <4>3. \A m, n \in Nat : m # 0 /\ m # 1 /\ n = m + 1 => m > 1 /\ n # 1
        OBVIOUS
      <4>4. Len(t) \in Nat
        BY <1>5
      <4> QED BY <3>4, <4>1, <4>2, <4>3, <4>4
    <3>6. t[1] = s[1] /\ t[2] = s[2]
      BY <3>2, <3>5
    <3>7. reader.item = s[1] /\ reader.next = s[2]
      BY <3>1, <3>4 DEF Taken
    <3>8. Taken(t)'
      BY <1>1, <3>3, <3>5, <3>6, <3>7 DEF Taken
    <3> QED BY <1>1, <2>2, <3>2, <3>3, <3>8 DEF KeyList
  <2>3. CASE reader.place = "clearTail"
    BY <1>1, <1>3, <2>3 DEF KeyList
  <2>4. CASE reader.place = "delete"
    <3> DEFINE before == Append(read, keyEvents.items[reader.item].data)
    <3>1. PICK s \in Orders : /\ reader.item \in DOMAIN keyEvents.items
                              /\ Holds(keyEvents, s, {reader.item}, before, decoded)
                              /\ keyEvents.size = Len(s) + 1
      BY <1>3, <2>4 DEF KeyList
    <3>2. before \in Seq(Events)
      BY <1>3, <3>1 DEF Holds
    <3>3. PICK t \in Orders :
            /\ Holds(keyEvents', t, {reader.item}, before, decoded')
            /\ Len(t) = Len(s) + 1
            /\ keyEvents'.size = keyEvents.size + 1
            /\ DOMAIN keyEvents.items \subseteq DOMAIN keyEvents'.items
            /\ keyEvents'.items[reader.item].data = keyEvents.items[reader.item].data
      <4> HIDE DEF before
      <4>1. keyEvents.size \in Nat
        BY <1>5, <3>1
      <4>2. ASSUME NEW rest, rest = {reader.item}
            PROVE  \E t \in Orders :
                     /\ Holds(keyEvents', t, rest, before, decoded')
                     /\ Len(t) = Len(s) + 1
                     /\ keyEvents'.size = keyEvents.size + 1
                     /\ DOMAIN keyEvents.items \subseteq DOMAIN keyEvents'.items
                     /\ \A j \in DOMAIN keyEvents.items : keyEvents'.items[j].data = keyEvents.items[j].data
        <5>1. IsFiniteSet(rest) /\ Holds(keyEvents, s, rest, before, decoded)
          BY <1>6, <3>1, <4>2
        <5> QED BY <1>1, <1>2, <3>2, <4>1, <5>1, HoldsMore
      <4> QED BY <3>1, <4>2
    <3>4. keyEvents'.size = Len(t) + 1 /\ reader.item \in DOMAIN keyEvents'.items
      BY <1>5, <3>1, <3>3
    <3> QED BY <1>1, <2>4, <3>3, <3>4 DEF KeyList
  <2> QED BY <1>3, <2>1, <2>2, <2>3, <2>4 DEF KeyList
<1> QED BY <1>1, <1>3, <1>4, <1>7 DEF KeyInv

LEMMA TailOrder ==
  ASSUME NEW s \in Orders, s # <<>>
  PROVE  /\ Tail(s) \in Orders /\ Len(Tail(s)) = Len(s) - 1
         /\ \A k \in 1..(Len(s) - 1) : Tail(s)[k] = s[k + 1]
         /\ (\A j, k \in DOMAIN s : s[j] = s[k] => j = k) =>
              /\ Range(s) = Range(Tail(s)) \cup {s[1]} /\ s[1] \notin Range(Tail(s))
              /\ \A j, k \in DOMAIN Tail(s) : Tail(s)[j] = Tail(s)[k] => j = k
<1> DEFINE t == Tail(s)
           n == Len(s)
<1>1. n \in Nat /\ n # 0 /\ DOMAIN s = 1..n
  BY Order
<1>2. t \in Orders /\ Len(t) = n - 1 /\ DOMAIN t = 1..(n - 1) /\ \A k \in 1..(n - 1) : t[k] = s[k + 1]
  BY <1>1, HeadTailProperties, LenProperties DEF Orders
<1> HIDE DEF t, n
<1>3. ASSUME \A j, k \in DOMAIN s : s[j] = s[k] => j = k
      PROVE  /\ Range(s) = Range(t) \cup {s[1]} /\ s[1] \notin Range(t)
             /\ \A j, k \in DOMAIN t : t[j] = t[k] => j = k
  <2>1. \A k \in 1..(n - 1) : k + 1 \in 1..n /\ k + 1 # 1
    BY <1>1
  <2>2. \A k \in 1..n : k = 1 \/ (k - 1 \in 1..(n - 1) /\ (k - 1) + 1 = k)
    BY <1>1
  <2>3. 1 \in 1..n
    BY <1>1
  <2>4. ASSUME NEW x \in Range(s) PROVE x \in Range(t) \cup {s[1]}
    <3>1. PICK k \in 1..n : x = s[k]
      BY <1>1 DEF Range
    <3>2. CASE k # 1
      <4>1. t[k - 1] = x /\ k - 1 \in DOMAIN t
        BY <1>2, <2>2, <3>1, <3>2
      <4> QED BY <4>1 DEF Range
    <3> QED BY <3>1, <3>2
  <2>5. ASSUME NEW x \in Range(t) PROVE x \in Range(s) /\ x # s[1]
    <3>1. PICK k \in 1..(n - 1) : x = t[k]
      BY <1>2 DEF Range
    <3>2. x = s[k + 1]
      BY <1>2, <3>1
    <3> QED BY <1>1, <1>3, <2>1, <2>3, <3>2 DEF Range
  <2>6. s[1] \in Range(s)
    BY <1>1, <2>3 DEF Range
  <2>7. ASSUME NEW j \in 1..(n - 1), NEW k \in 1..(n - 1), t[j] = t[k] PROVE j = k
    <3>1. j + 1 = k + 1
      BY <1>1, <1>2, <1>3, <2>1, <2>7
    <3> QED BY <1>1, <3>1
  <2> QED BY <1>2, <2>4, <2>5, <2>6, <2>7
<1> QED BY <1>2, <1>3 DEF t, n

\* The first item is taken out of the order.
LEMMA FirstOut ==
  ASSUME NEW l, NEW s \in Orders, s # <<>>, Chained(l, s, {}), NEW m,
         m = [l EXCEPT !.head = l.items[s[1]].next]
  PROVE  Chained(m, Tail(s), {s[1]})
<1> DEFINE t == Tail(s)
           n == Len(s)
<1>1. n \in Nat /\ n # 0 /\ DOMAIN s = 1..n
  BY Order
<1>2. t \in Orders /\ Len(t) = n - 1 /\ \A k \in 1..(n - 1) : t[k] = s[k + 1]
  BY TailOrder
<1>3. /\ Range(s) = Range(t) \cup {s[1]} /\ s[1] \notin Range(t)
      /\ \A j, k \in DOMAIN t : t[j] = t[k] => j = k
  BY TailOrder DEF Chained
<1>4. DOMAIN t = 1..(n - 1) /\ (t = <<>> <=> n - 1 = 0)
  BY <1>2, Order
<1>5. \A k \in 1..n : l.items[s[k]].next = IF k = n THEN Null ELSE s[k + 1]
  BY <1>1 DEF Chained
<1> HIDE DEF t, n
<1>6. /\ IsList(m) /\ m.items = l.items /\ m.broken = FALSE
      /\ m.head = l.items[s[1]].next
  BY DEF Chained, IsList
<1>7. ASSUME NEW k \in 1..(n - 1)
      PROVE  m.items[t[k]].next = IF k = n - 1 THEN Null ELSE t[k + 1]
  <2>1. k + 1 \in 1..n /\ (k + 1 = n <=> k = n - 1) /\ (k # n - 1 => k + 1 \in 1..(n - 1))
    BY <1>1
  <2> QED BY <1>2, <1>5, <1>6, <2>1
<1>8. m.head = IF t = <<>> THEN Null ELSE t[1]
  <2>1. 1 \in 1..n /\ (n - 1 = 0 <=> n = 1) /\ (n # 1 => 1 \in 1..(n - 1))
    BY <1>1
  <2> QED BY <1>2, <1>4, <1>5, <1>6, <2>1
<1>9. DOMAIN m.items = Range(t) \cup {s[1]} /\ Range(t) \cap {s[1]} = {}
  BY <1>3, <1>6 DEF Chained
<1>10. \A k \in DOMAIN t : m.items[t[k]].next = IF k = Len(t) THEN Null ELSE t[k + 1]
  BY <1>2, <1>4, <1>7
<1>11. Chained(m, t, {s[1]})
  BY <1>3, <1>6, <1>8, <1>9, <1>10 DEF Chained
<1> QED BY <1>11 DEF t

LEMMA Ends ==
  ASSUME NEW l, NEW s \in Orders, s # <<>>, NEW rest, Linked(l, s, rest)
  PROVE  /\ 1 \in DOMAIN s /\ Len(s) \in DOMAIN s
         /\ l.head = s[1] /\ l.tail = s[Len(s)] /\ s[1] \in DOMAIN l.items
         /\ l.items[s[1]].next = IF Len(s) = 1 THEN Null ELSE s[2]
<1>1. Len(s) \in Nat /\ Len(s) # 0 /\ DOMAIN s = 1..Len(s)
  BY Order
<1> DEFINE n == Len(s)
<1>2. 1 \in DOMAIN s /\ n \in DOMAIN s
  <2>1. \A m \in Nat : m # 0 => 1 \in 1..m /\ m \in 1..m
    OBVIOUS
  <2> QED BY <1>1, <2>1
<1>3. /\ \A k \in DOMAIN s : l.items[s[k]].next = IF k = n THEN Null ELSE s[k + 1]
      /\ l.head = s[1] /\ l.tail = s[n] /\ DOMAIN l.items = Range(s) \cup rest
  BY DEF Linked, Chained
<1> HIDE DEF n
<1>4. l.items[s[1]].next = IF 1 = n THEN Null ELSE s[1 + 1]
  BY <1>2, <1>3
<1>5. 1 + 1 = 2
  OBVIOUS
<1>6. l.items[s[1]].next = IF n = 1 THEN Null ELSE s[2]
  BY <1>4, <1>5
<1>7. s[1] \in DOMAIN l.items
  BY <1>2, <1>3 DEF Range
<1> QED BY <1>2, <1>3, <1>6, <1>7 DEF n

LEMMA DataOfFirst ==
  ASSUME NEW l, NEW s \in Orders, s # <<>>,
         \A k \in 1..Len(s) : l.items[s[k]].data \in Events,
         NEW before \in Seq(Events)
  PROVE  before \o DataIn(l, s) = Append(before, l.items[s[1]].data) \o DataIn(l, Tail(s))
<1> DEFINE t == Tail(s)
           n == Len(s)
           d == DataIn(l, s)
           r == DataIn(l, t)
<1>1. n \in Nat /\ n # 0
  BY Order
<1>2. Len(t) = n - 1 /\ \A k \in 1..(n - 1) : t[k] = s[k + 1]
  BY TailOrder
<1>3. d = [k \in 1..n |-> l.items[s[k]].data] /\ \A k \in 1..n : l.items[s[k]].data \in Events
  BY DEF DataIn
<1>4. r = [k \in 1..(n - 1) |-> l.items[t[k]].data]
  BY <1>2 DEF DataIn
<1> HIDE DEF t, n, d, r
<1>5. \A k \in 1..(n - 1) : k + 1 \in 1..n
  BY <1>1
<1>6. r = [k \in 1..(n - 1) |-> d[k + 1]]
  BY <1>2, <1>3, <1>4, <1>5
<1>7. d \in Seq(Events) /\ d # <<>> /\ d[1] = l.items[s[1]].data
  BY <1>1, <1>3
<1>8. r = Tail(d)
  BY <1>1, <1>3, <1>6
<1>9. \A u, v \in Seq(Events) : v # <<>> => u \o v = Append(u, v[1]) \o Tail(v)
  OBVIOUS
<1> QED BY <1>7, <1>8, <1>9 DEF t, d, r

LEMMA KeyReader == KeyInv /\ ReadKey => KeyInv'
<1> SUFFICES ASSUME KeyInv, ReadKey, ~keysTorn' PROVE KeyInv'
  BY DEF KeyInv
<1>1. decoded' = decoded /\ ~keysTorn
  BY DEF ReadKey
<1>2. /\ decoded \in Seq(Events) /\ read \in Seq(Events) /\ KeyList
      /\ reader = [place |-> reader.place, item |-> reader.item, next |-> reader.next]
  BY <1>1 DEF KeyInv
<1>3. \A s \in Orders : /\ Len(s) \in Nat /\ (s = <<>> <=> Len(s) = 0) /\ DOMAIN s = 1..Len(s)
                        /\ \A k \in 1..Len(s) : s[k] \in Nat \ {Null} /\ s[k] \in Range(s)
  BY Order
<1> DEFINE item == reader.item
           all == decoded
<1>4. CASE ReaderTest
  <2>1. /\ reader' = [reader EXCEPT !.place = IF keyEvents.size = 0 THEN "wait" ELSE "load"]
        /\ keyEvents' = keyEvents /\ read' = read /\ reader.place = "test"
    BY <1>4 DEF ReaderTest, Reader
  <2>2. PICK s \in Orders : Holds(keyEvents, s, {}, read, decoded) /\ keyEvents.size = Len(s)
    BY <1>2, <2>1 DEF KeyList
  <2>3. /\ reader' = [place |-> reader'.place, item |-> reader'.item, next |-> reader'.next]
        /\ reader'.place = IF keyEvents.size = 0 THEN "wait" ELSE "load"
    BY <1>2, <2>1
  <2>4. KeyList'
    BY <1>1, <1>3, <2>1, <2>2, <2>3 DEF KeyList
  <2> QED BY <1>1, <1>2, <2>1, <2>3, <2>4 DEF KeyInv
<1>5. CASE ReaderWait
  <2>1. /\ reader' = [reader EXCEPT !.place = "test"]
        /\ keyEvents' = keyEvents /\ read' = read /\ reader.place = "wait"
    BY <1>5 DEF ReaderWait, Reader
  <2>2. /\ reader' = [place |-> reader'.place, item |-> reader'.item, next |-> reader'.next]
        /\ reader'.place = "test"
    BY <1>2, <2>1
  <2>3. KeyList'
    BY <1>1, <1>2, <2>1, <2>2 DEF KeyList
  <2> QED BY <1>1, <1>2, <2>1, <2>2, <2>3 DEF KeyInv
<1>6. CASE ReaderLoad
  <2>1. reader.place = "load" /\ read' = read
    BY <1>6 DEF ReaderLoad, Reader
  <2>2. PICK s \in Orders : /\ Holds(keyEvents, s, {}, read, decoded) /\ keyEvents.size = Len(s)
                            /\ s # <<>>
    BY <1>2, <2>1 DEF KeyList
  <2>3. keyEvents.head = s[1] /\ s[1] \in DOMAIN keyEvents.items
    BY <2>2, Ends DEF Holds
  <2>4. /\ reader' = [place |-> "store", item |-> s[1], next |-> keyEvents.items[s[1]].next]
        /\ keyEvents' = keyEvents
    BY <1>6, <2>3 DEF ReaderLoad
  <2>5. keyEvents.items[s[1]].next = IF Len(s) = 1 THEN Null ELSE s[2]
    BY <2>2, Ends DEF Holds
  <2>6. Taken(s)'
    BY <2>2, <2>4, <2>5 DEF Taken
  <2>7. KeyList'
    BY <1>1, <2>1, <2>2, <2>4, <2>6 DEF KeyList
  <2> QED BY <1>1, <1>2, <2>1, <2>4, <2>7 DEF KeyInv
<1>7. CASE ReaderStore
  <2>1. /\ reader.place = "store" /\ read' = read
        /\ keyEvents' = [keyEvents EXCEPT !.head = reader.next]
        /\ reader' = [reader EXCEPT !.place = IF keyEvents.tail = reader.item THEN "clearTail"
                                              ELSE "delete"]
    BY <1>7 DEF ReaderStore, Reader
  <2>2. PICK s \in Orders : /\ Holds(keyEvents, s, {}, read, decoded) /\ keyEvents.size = Len(s)
                            /\ Taken(s)
    BY <1>2, <2>1 DEF KeyList
  <2>3. /\ reader' = [place |-> reader'.place, item |-> item, next |-> reader.next]
        /\ reader'.place = IF keyEvents.tail = item THEN "clearTail" ELSE "delete"
    BY <1>2, <2>1
  <2>4. /\ s # <<>> /\ item = s[1] /\ 1 \in DOMAIN s /\ Len(s) \in DOMAIN s
        /\ keyEvents.tail = s[Len(s)] /\ s[1] \in DOMAIN keyEvents.items
        /\ reader.next = keyEvents.items[s[1]].next
    <3>1. s # <<>> /\ item = s[1] /\ reader.next = IF Len(s) = 1 THEN Null ELSE s[2]
      BY <2>2 DEF Taken
    <3> QED BY <2>2, <3>1, Ends DEF Holds
  <2>5. IsList(keyEvents) /\ IsList(keyEvents')
    BY <2>1, <2>2 DEF Holds, Linked, Chained, IsList
  <2>6. CASE Len(s) = 1
    <3>1. keyEvents.tail = item /\ reader.next = Null
      BY <2>2, <2>4, <2>6 DEF Taken
    <3>2. s = <<item>>
      BY <1>3, <2>4, <2>6 DEF Orders
    <3>3. [keyEvents' EXCEPT !.head = item] = keyEvents
      <4>1. keyEvents.head = item
        BY <2>2, <2>4 DEF Holds, Linked, Chained
      <4> QED BY <2>1, <2>5, <4>1 DEF IsList
    <3>4. keyEvents'.head = Null /\ keyEvents'.size = 1
      BY <2>1, <2>2, <2>5, <2>6, <3>1 DEF IsList
    <3>5. item \in Nat \ {Null}
      BY <1>3, <2>4, <2>6
    <3>6. reader'.place = "clearTail" /\ reader'.next = Null /\ reader'.item = item
      BY <2>3, <3>1
    <3>7. Holds([keyEvents' EXCEPT !.head = item], <<item>>, {}, read, decoded)
      BY <2>2, <3>2, <3>3
    <3>8. KeyList'
      BY <1>1, <2>1, <2>5, <3>4, <3>5, <3>6, <3>7 DEF KeyList
    <3> QED BY <1>1, <1>2, <2>1, <2>3, <3>8 DEF KeyInv
  <2>7. CASE Len(s) # 1
    <3>1. keyEvents.tail # item
      BY <2>2, <2>4, <2>7 DEF Holds, Linked, Chained
    <3> DEFINE t == Tail(s)
               before == Append(read, keyEvents.items[item].data)
    <3>2. /\ t \in Orders /\ Len(t) = Len(s) - 1
          /\ \A k \in 1..(Len(s) - 1) : t[k] = s[k + 1]
      BY <2>4, TailOrder
    <3>3. Chained(keyEvents', t, {item})
      <4>1. keyEvents' = [keyEvents EXCEPT !.head = keyEvents.items[s[1]].next]
        BY <2>1, <2>4
      <4>2. Chained(keyEvents, s, {})
        BY <2>2 DEF Holds, Linked
      <4> QED BY <2>4, <4>1, <4>2, FirstOut
    <3>4. /\ keyEvents'.items = keyEvents.items /\ keyEvents'.tail = keyEvents.tail
          /\ keyEvents'.size = keyEvents.size
      BY <2>1, <2>5 DEF IsList
    <3>5. t # <<>> /\ t[Len(t)] = s[Len(s)]
      <4>1. \A n \in Nat : n # 0 /\ n # 1 => n - 1 \in 1..(n - 1) /\ (n - 1) + 1 = n /\ n - 1 # 0
        OBVIOUS
      <4>2. Len(s) \in Nat /\ Len(s) # 0
        BY <1>3, <2>4
      <4> QED BY <1>3, <2>7, <3>2, <4>1, <4>2
    <3>6. Linked(keyEvents', t, {item})
      BY <2>4, <3>3, <3>4, <3>5 DEF Linked
    <3>7. decoded = before \o DataIn(keyEvents', t)
      <4>1. \A k \in 1..Len(s) : keyEvents.items[s[k]].data \in Events
        BY <1>3, <2>2 DEF Holds, Linked, Chained
      <4>2. decoded = before \o DataIn(keyEvents, t)
        BY <1>2, <2>2, <2>4, <4>1, DataOfFirst DEF Holds
      <4>3. DataIn(keyEvents', t) = DataIn(keyEvents, t)
        BY <3>4 DEF DataIn
      <4> QED BY <4>2, <4>3
    <3>8. Holds(keyEvents', t, {item}, before, decoded)
      BY <2>2, <3>4, <3>6, <3>7 DEF Holds
    <3>9. keyEvents'.size = Len(t) + 1
      BY <1>3, <2>2, <3>2, <3>4
    <3> HIDE DEF t
    <3>10. KeyList'
      BY <1>1, <2>1, <2>3, <2>4, <3>1, <3>2, <3>4, <3>8, <3>9 DEF KeyList
    <3> QED BY <1>1, <1>2, <2>1, <2>3, <3>10 DEF KeyInv
  <2> QED BY <2>6, <2>7
<1>8. CASE ReaderClearTail
  <2>1. /\ reader.place = "clearTail" /\ read' = read
        /\ keyEvents' = [keyEvents EXCEPT !.tail = Null]
        /\ reader' = [reader EXCEPT !.place = "delete"]
    BY <1>8 DEF ReaderClearTail, Reader
  <2>2. /\ reader.next = Null /\ keyEvents.head = Null
        /\ Holds([keyEvents EXCEPT !.head = item], <<item>>, {}, read, decoded)
        /\ IsList(keyEvents) /\ keyEvents.size = 1 /\ item \in Nat \ {Null}
    BY <1>2, <2>1 DEF KeyList
  <2>3. reader' = [place |-> "delete", item |-> item, next |-> reader.next]
    BY <1>2, <2>1
  <2> DEFINE m == [keyEvents EXCEPT !.head = item]
             before == Append(read, keyEvents.items[item].data)
             s == <<item>>
  <2>4. m.items = keyEvents.items /\ m.broken = keyEvents.broken
    BY <2>2 DEF IsList
  <2>5. s \in Orders /\ s # <<>> /\ Tail(s) = <<>> /\ s[1] = item /\ Range(s) = {item}
    BY <2>2 DEF Orders, Range
  <2>6. DOMAIN keyEvents.items = {item} /\ keyEvents.broken = FALSE
        /\ keyEvents.items[item].data \in Events
    <3> HIDE DEF m, s
    <3> QED BY <2>2, <2>4, <2>5 DEF Holds, Linked, Chained, m, s
  <2>7. IsList(keyEvents') /\ keyEvents'.items = keyEvents.items /\ keyEvents'.head = Null
        /\ keyEvents'.tail = Null /\ keyEvents'.size = 1 /\ keyEvents'.broken = FALSE
    BY <2>1, <2>2, <2>6 DEF IsList
  <2>8. <<>> \in Orders /\ Len(<<>>) = 0 /\ Range(<<>>) = {} /\ DOMAIN <<>> = {}
    BY EmptySeq DEF Orders, Range
  <2>9. Linked(keyEvents', <<>>, {item})
    BY <2>6, <2>7, <2>8 DEF Linked, Chained
  <2>10. decoded = before \o DataIn(keyEvents', <<>>)
    <3>1. \A k \in 1..Len(s) : m.items[s[k]].data \in Events
      BY <2>4, <2>5, <2>6
    <3>2. decoded = read \o DataIn(m, s)
      BY <2>2 DEF Holds
    <3>3. decoded = before \o DataIn(m, <<>>)
      <4> HIDE DEF m, s
      <4>1. read \o DataIn(m, s) = Append(read, m.items[s[1]].data) \o DataIn(m, Tail(s))
        BY <1>2, <2>5, <3>1, DataOfFirst
      <4> QED BY <2>4, <2>5, <3>2, <4>1
    <3>4. DataIn(m, <<>>) = DataIn(keyEvents', <<>>)
      BY <2>8 DEF DataIn
    <3> QED BY <3>3, <3>4
  <2>11. Holds(keyEvents', <<>>, {item}, before, decoded)
    BY <2>6, <2>7, <2>9, <2>10 DEF Holds
  <2>12. keyEvents'.size = Len(<<>>) + 1
    BY <2>7, <2>8
  <2>13. KeyList'
    BY <1>1, <2>1, <2>3, <2>6, <2>7, <2>8, <2>11, <2>12 DEF KeyList
  <2> QED BY <1>1, <1>2, <2>1, <2>3, <2>13 DEF KeyInv
<1>9. CASE ReaderDelete
  <2>1. /\ reader.place = "delete"
        /\ keyEvents' = [Delete(keyEvents, item) EXCEPT !.size = @ - 1]
        /\ read' = Append(read, keyEvents.items[item].data)
        /\ reader' = [place |-> "test", item |-> Null, next |-> Null]
    BY <1>9 DEF ReaderDelete, Reader
  <2>2. PICK s \in Orders :
          /\ item \in DOMAIN keyEvents.items
          /\ Holds(keyEvents, s, {item}, Append(read, keyEvents.items[item].data), decoded)
          /\ keyEvents.size = Len(s) + 1
    BY <1>2, <2>1 DEF KeyList
  <2> DEFINE kept == [j \in DOMAIN keyEvents.items \ {item} |-> keyEvents.items[j]]
  <2>3. /\ IsList(keyEvents)
        /\ DOMAIN keyEvents.items = Range(s) \cup {item} /\ Range(s) \cap {item} = {}
    BY <2>2 DEF Holds, Linked, Chained
  <2>4. keyEvents' = [keyEvents EXCEPT !.items = kept, !.size = @ - 1]
    BY <2>1, <2>2 DEF Delete
  <2>5. keyEvents' = [head |-> keyEvents.head, tail |-> keyEvents.tail, size |-> keyEvents.size - 1,
                      items |-> kept, broken |-> keyEvents.broken]
    <3> HIDE DEF kept
    <3> QED BY <2>3, <2>4 DEF IsList
  <2>6. DOMAIN kept = Range(s) /\ \A j \in Range(s) : kept[j] = keyEvents.items[j]
    BY <2>3
  <2>7. kept = [j \in DOMAIN kept |-> [data |-> kept[j].data, next |-> kept[j].next]]
    <3>1. \A j \in DOMAIN keyEvents.items :
            keyEvents.items[j] = [data |-> keyEvents.items[j].data, next |-> keyEvents.items[j].next]
      BY <2>3 DEF IsList
    <3> QED BY <2>3, <3>1
  <2> HIDE DEF kept
  <2>8. Linked(keyEvents', s, {})
    <3>1. IsList(keyEvents')
      BY <2>5, <2>7 DEF IsList
    <3>2. \A k \in DOMAIN s : s[k] \in Range(s)
      BY DEF Range
    <3> QED BY <2>2, <2>5, <2>6, <3>1, <3>2 DEF Holds, Linked, Chained
  <2>9. DataIn(keyEvents', s) = DataIn(keyEvents, s)
    BY <1>3, <2>5, <2>6 DEF DataIn
  <2>10. Holds(keyEvents', s, {}, read', decoded)
    <3>1. decoded = read' \o DataIn(keyEvents', s)
      BY <2>1, <2>2, <2>9 DEF Holds
    <3>2. keyEvents'.items = kept
      BY <2>5
    <3>3. \A j \in DOMAIN kept : kept[j].data \in Events
      BY <2>2, <2>3, <2>6 DEF Holds
    <3> QED BY <2>8, <3>1, <3>2, <3>3 DEF Holds
  <2>11. keyEvents'.size = Len(s)
    BY <1>3, <2>2, <2>5
  <2>12. read' \in Seq(Events)
    BY <1>2, <2>1, <2>2 DEF Holds
  <2>13. KeyList'
    BY <1>1, <2>1, <2>10, <2>11 DEF KeyList
  <2> QED BY <1>1, <1>2, <2>1, <2>12, <2>13 DEF KeyInv
<1> QED
  BY <1>4, <1>5, <1>6, <1>7, <1>8, <1>9 DEF ReadKey

-----------------------------------------------------------------------------
(* The controller and Mouse::Init.                                         *)

Replies == {Conf, Ack, Id}
MouseBytes == [kind : {"mouse"}, of : Nat, sync : BOOLEAN, down : SUBSET Range(Buttons),
               moves : BOOLEAN]

\* The replies q are still to be read, and the first of them may be in the controller;
\* a byte of the keyboard came before it was silent.
Coming(q) ==
  \/ output = NoByte /\ answers = q
  \/ q # <<>> /\ output = Head(q) /\ answers = Tail(q)

Stray(q) == output \in Codes /\ answers = q

\* What may still be to be read in the steps of Mouse::Init.
Due(queues) == \E q \in queues : Coming(q)

DueInv ==
  /\ step \in {"disable", "getStatus"} => Due({<<>>}) \/ Stray(<<>>)
  /\ step = "readStatus" => Due({<<>>, <<Conf>>}) \/ Stray(<<>>) \/ Stray(<<Conf>>)
  /\ step \in {"setStatus", "getId"} => Due({<<>>, <<Conf>>})
  /\ step = "readAck" => Due({<<>>, <<Conf>>, <<Ack, Id>>, <<Conf, Ack, Id>>})
  /\ step = "readId" => Due({<<>>, <<Id>>, <<Ack, Id>>})
  /\ step = "setDefaults" => Due({<<>>, <<Id>>})
  /\ step = "awaitDefaults" => Due({<<>>, <<Id>>, <<Ack>>, <<Id, Ack>>})
  /\ step = "enableStreaming" => Due({<<>>, <<Ack>>})
  /\ step = "awaitStreaming" =>
       Due({<<>>, <<Ack>>, <<Ack, Ack>>}) \/ (output \in MouseBytes /\ answers = <<>>)

\* The driver reads all that the mouse replies before it takes its bytes.
AnswersInv ==
  /\ output \in {NoByte} \cup Replies \cup Codes \cup MouseBytes
  /\ answers \in Seq(Replies)
  /\ packet \in Packets /\ nth \in Nat /\ lost \in Nat
  /\ handleData => step = "done"
  /\ streaming => step \in {"awaitStreaming", "enableKeyboard", "enableMouse", "handle", "done"}
  /\ mouseEnabled => /\ step \in {"enableKeyboard", "enableMouse", "handle", "done"}
                     /\ answers = <<>> /\ output \notin {Ack, Id}
  /\ DueInv

LEMMA Kinds ==
  /\ \A b \in Replies : b.kind \in {"conf", "ack", "id"}
  /\ \A b \in Codes : b.kind \in {"key", "ignored"}
  /\ \A b \in MouseBytes : b.kind = "mouse"
  /\ NoByte.kind = "none" /\ Conf.kind = "conf" /\ Ack.kind = "ack" /\ Id.kind = "id"
  /\ NoByte \notin Replies \cup Codes \cup MouseBytes
  /\ \A b \in Codes \cup MouseBytes : b \notin Replies
  /\ Codes \cap MouseBytes = {}
  /\ Ack # Id /\ Ack # Conf /\ Conf # Id
BY DEF Replies, Codes, MouseBytes, NoByte, Conf, Ack, Id

LEMMA ComingAnswered ==
  ASSUME NEW q \in Seq(Replies), Coming(q), Answer
  PROVE  Coming(q)'
<1>1. output = NoByte /\ output' = Head(answers) /\ answers' = Tail(answers) /\ answers # <<>>
  BY DEF Answer, Sends
<1>2. q # <<>> => Head(q) # NoByte
  <2>1. q # <<>> => Head(q) \in Replies
    OBVIOUS
  <2> QED BY <2>1, Kinds
<1> QED BY <1>1, <1>2 DEF Coming

LEMMA FirstOfBoth ==
  ASSUME NEW R, NEW u \in Seq(R), NEW v \in Seq(R), u # <<>>
  PROVE  u \o v # <<>> /\ Head(u \o v) = Head(u) /\ Tail(u \o v) = Tail(u) \o v
<1> DEFINE m == Len(u)
           n == Len(v)
           w == u \o v
           t == Tail(u)
<1>1. m \in Nat /\ m # 0 /\ n \in Nat
  BY EmptySeq, LenProperties
<1>2. w \in Seq(R) /\ Len(w) = m + n
      /\ \A i \in 1..(m + n) : w[i] = IF i <= m THEN u[i] ELSE v[i - m]
  BY ConcatProperties
<1>3. t \in Seq(R) /\ Len(t) = m - 1 /\ \A i \in 1..(m - 1) : t[i] = u[i + 1]
  BY HeadTailProperties
<1>4. t \o v \in Seq(R) /\ Len(t \o v) = (m - 1) + n
      /\ \A i \in 1..((m - 1) + n) : (t \o v)[i] = IF i <= m - 1 THEN t[i] ELSE v[i - (m - 1)]
  BY <1>3, ConcatProperties
<1>5. w # <<>>
  BY <1>1, <1>2, EmptySeq
<1>6. /\ Tail(w) \in Seq(R) /\ Len(Tail(w)) = (m + n) - 1
      /\ \A i \in 1..((m + n) - 1) : Tail(w)[i] = w[i + 1]
  BY <1>2, <1>5, HeadTailProperties
<1>7. Head(w) = w[1] /\ Head(u) = u[1]
  BY <1>2, <1>5
<1> HIDE DEF m, n, w, t
<1>8. w[1] = u[1]
  BY <1>1, <1>2
<1>9. ASSUME NEW i \in 1..((m + n) - 1) PROVE Tail(w)[i] = (t \o v)[i]
  <2>1. i + 1 \in 1..(m + n) /\ i \in 1..((m - 1) + n) /\ (i <= m - 1 <=> i + 1 <= m)
        /\ (i + 1) - m = i - (m - 1) /\ (i <= m - 1 => i \in 1..(m - 1))
    BY <1>1
  <2> QED BY <1>2, <1>3, <1>4, <1>6, <2>1
<1>10. (m + n) - 1 = (m - 1) + n
  BY <1>1
<1>11. Tail(w) = t \o v
  BY <1>4, <1>6, <1>9, <1>10, SeqEqual
<1> QED BY <1>5, <1>7, <1>8, <1>11 DEF w, t

LEMMA ComingMore ==
  ASSUME NEW q \in Seq(Replies), Coming(q), NEW more \in Seq(Replies),
         output' = output, Accepts(more)
  PROVE  Coming(q \o more)'
<1>1. answers' = answers \o more
  BY DEF Accepts
<1>2. CASE output = NoByte /\ answers = q
  BY <1>1, <1>2 DEF Coming
<1>3. CASE q # <<>> /\ output = Head(q) /\ answers = Tail(q)
  <2>2. q \o more # <<>> /\ Head(q \o more) = Head(q) /\ Tail(q \o more) = Tail(q) \o more
    BY <1>3, FirstOfBoth
  <2> QED BY <1>1, <1>3, <2>2 DEF Coming
<1> QED BY <1>2, <1>3 DEF Coming

LEMMA ComingRead ==
  ASSUME NEW q \in Seq(Replies), Coming(q), ReadData
  PROVE  \/ q = <<>> /\ output = NoByte /\ Coming(q)'
         \/ q # <<>> /\ output = Head(q) /\ Coming(Tail(q))'
<1>1. (output # NoByte \/ answers = <<>>) /\ output' = NoByte /\ answers' = answers
  BY DEF ReadData, controllerVars
<1> QED BY <1>1 DEF Coming

LEMMA Queues ==
  /\ <<>> \in Seq(Replies) /\ <<Conf>> \in Seq(Replies) /\ <<Id>> \in Seq(Replies)
  /\ <<Ack>> \in Seq(Replies) /\ <<Ack, Id>> \in Seq(Replies) /\ <<Id, Ack>> \in Seq(Replies)
  /\ <<Ack, Ack>> \in Seq(Replies) /\ <<Conf, Ack, Id>> \in Seq(Replies)
  /\ <<Conf>> # <<>> /\ <<Id>> # <<>> /\ <<Ack>> # <<>> /\ <<Ack, Id>> # <<>>
  /\ <<Id, Ack>> # <<>> /\ <<Ack, Ack>> # <<>> /\ <<Conf, Ack, Id>> # <<>>
  /\ Tail(<<Conf>>) = <<>> /\ Tail(<<Id>>) = <<>> /\ Tail(<<Ack>>) = <<>>
  /\ Tail(<<Ack, Id>>) = <<Id>> /\ Tail(<<Id, Ack>>) = <<Ack>> /\ Tail(<<Ack, Ack>>) = <<Ack>>
  /\ Tail(<<Conf, Ack, Id>>) = <<Ack, Id>>
  /\ Head(<<Conf>>) = Conf /\ Head(<<Id>>) = Id /\ Head(<<Ack>>) = Ack
  /\ Head(<<Ack, Id>>) = Ack /\ Head(<<Id, Ack>>) = Id /\ Head(<<Ack, Ack>>) = Ack
  /\ Head(<<Conf, Ack, Id>>) = Conf
<1> DEFINE R == Replies
<1>1. Conf \in R /\ Ack \in R /\ Id \in R
  BY DEF Replies
<1> HIDE DEF R
<1>2. \A a \in R : <<a>> \in Seq(R) /\ <<a>> # <<>> /\ Tail(<<a>>) = <<>> /\ Head(<<a>>) = a
  OBVIOUS
<1>3. \A a, b \in R : <<a, b>> \in Seq(R) /\ <<a, b>> # <<>> /\ Tail(<<a, b>>) = <<b>> /\ Head(<<a, b>>) = a
  OBVIOUS
<1>4. \A a, b, c \in R : /\ <<a, b, c>> \in Seq(R) /\ <<a, b, c>> # <<>>
                         /\ Tail(<<a, b, c>>) = <<b, c>> /\ Head(<<a, b, c>>) = a
  OBVIOUS
<1>5. <<>> \in Seq(R)
  OBVIOUS
<1> QED BY <1>1, <1>2, <1>3, <1>4, <1>5 DEF R

LEMMA Together ==
  /\ <<>> \o <<Conf>> = <<Conf>> /\ <<>> \o <<Ack>> = <<Ack>> /\ <<>> \o <<Ack, Id>> = <<Ack, Id>>
  /\ <<Conf>> \o <<Ack, Id>> = <<Conf, Ack, Id>> /\ <<Id>> \o <<Ack>> = <<Id, Ack>>
  /\ <<Ack>> \o <<Ack>> = <<Ack, Ack>>
  /\ \A q \in Seq(Replies) : q \o <<>> = q
<1> DEFINE R == Replies
<1>1. ASSUME NEW a \in R, NEW b \in R
      PROVE  /\ <<a>> \in Seq(R) /\ <<a, b>> \in Seq(R)
             /\ <<a, b>> = Append(<<a>>, b) /\ \A c \in R : <<a, b, c>> = Append(<<a, b>>, c)
  OBVIOUS
<1>2. \A a \in R : <<>> \o <<a>> = <<a>>
  BY <1>1, ConcatEmptySeq
<1>3. ASSUME NEW a \in R, NEW b \in R
      PROVE  <<>> \o <<a, b>> = <<a, b>> /\ <<a>> \o <<b>> = <<a, b>>
  <2>1. Append(<<a>>, b) = <<a>> \o <<b>>
    BY <1>1, AppendIsConcat, Zenon
  <2>2. <<>> \o <<a, b>> = <<a, b>>
    BY <1>1, ConcatEmptySeq
  <2> QED BY <1>1, <2>1, <2>2, Zenon
<1>4. ASSUME NEW a \in R, NEW b \in R, NEW c \in R PROVE <<a>> \o <<b, c>> = <<a, b, c>>
  <2>1. <<a>> \o (<<b>> \o <<c>>) = (<<a>> \o <<b>>) \o <<c>>
    BY <1>1, ConcatAssociative
  <2>2. <<b>> \o <<c>> = <<b, c>> /\ <<a>> \o <<b>> = <<a, b>>
    BY <1>3
  <2>3. <<a, b>> \o <<c>> = <<a, b, c>>
    <3>1. Append(<<a, b>>, c) = <<a, b>> \o <<c>>
      BY <1>1, AppendIsConcat, Zenon
    <3> QED BY <1>1, <3>1, Zenon
  <2> QED BY <2>1, <2>2, <2>3
<1>6. \A q \in Seq(R) : q \o <<>> = q
  BY ConcatEmptySeq
<1>5. Conf \in Replies /\ Ack \in Replies /\ Id \in Replies
  BY DEF Replies
<1> QED BY <1>2, <1>3, <1>4, <1>5, <1>6

LEMMA AnswersInit == InputInit => AnswersInv
<1> SUFFICES ASSUME InputInit PROVE AnswersInv
  OBVIOUS
<1>1. output = NoByte /\ answers = <<>> /\ step = "disable"
  BY DEF InputInit
<1>2. Due({<<>>})
  BY <1>1 DEF Due, Coming
<1> QED BY <1>1, <1>2, Queues DEF AnswersInv, DueInv, InputInit

LEMMA DueStays ==
  ASSUME DueInv, output' = output, answers' = answers, step' = step
  PROVE  DueInv'
BY DEF DueInv, Due, Coming, Stray

LEMMA PacketByteIs ==
  ASSUME AnswersInv
  PROVE  PacketByte \in MouseBytes
<1>1. packet.down \in SUBSET Range(Buttons) /\ packet.moves \in BOOLEAN
  BY InputAssumption DEF AnswersInv
<1>2. nth \div 3 \in Nat /\ (nth % 3 = 0) \in BOOLEAN
  BY DEF AnswersInv
<1> QED BY <1>1, <1>2 DEF PacketByte, MouseBytes

LEMMA AnswersOfDevices ==
  ASSUME AnswersInv, KeyByte \/ MouseByte \/ Answer
  PROVE  AnswersInv'
<1>1. CASE KeyByte
  <2>1. /\ step \in {"disable", "enableMouse", "handle", "done"} /\ output = NoByte
        /\ output' \in Codes
        /\ UNCHANGED <<step, answers, packet, nth, lost, handleData, streaming, mouseEnabled>>
    BY <1>1 DEF KeyByte, initVars, controllerVars
  <2>2. DueInv'
    <3>1. CASE step = "disable"
      <4>1. answers = <<>>
        BY <2>1, <3>1, Kinds DEF AnswersInv, DueInv, Due, Coming, Stray
      <4>2. Stray(<<>>)'
        BY <2>1, <4>1 DEF Stray
      <4> QED BY <2>1, <3>1, <4>2 DEF DueInv
    <3>2. CASE step # "disable"
      BY <2>1, <3>2 DEF DueInv
    <3> QED BY <3>1, <3>2
  <2>3. output' \notin {Ack, Id}
    BY <2>1, Kinds DEF Replies
  <2> QED BY <2>1, <2>2, <2>3 DEF AnswersInv
<1>2. CASE MouseByte
  <2>1. /\ streaming /\ answers = <<>> /\ nth' = nth + 1
        /\ packet' \in IF nth % 3 = 2 THEN Packets ELSE {packet}
        /\ \/ output' = PacketByte /\ lost' = lost
           \/ lost' = lost + 1 /\ output' = output
        /\ UNCHANGED <<step, answers, handleData, streaming, mouseEnabled>>
    BY <1>2 DEF MouseByte, Sends, initVars, controllerVars, bufferVars
  <2>2. packet' \in Packets /\ nth' \in Nat /\ lost' \in Nat
    BY <2>1 DEF AnswersInv
  <2>3. PacketByte \in MouseBytes /\ PacketByte \notin {Ack, Id}
    BY PacketByteIs, Kinds DEF Replies
  <2>4. DueInv'
    <3>1. CASE output' = output
      BY <2>1, <3>1, DueStays DEF AnswersInv
    <3>2. CASE output' = PacketByte
      BY <2>1, <2>3, <3>2 DEF AnswersInv, DueInv
    <3> QED BY <2>1, <3>1, <3>2
  <2> QED BY <2>1, <2>2, <2>3, <2>4 DEF AnswersInv
<1>3. CASE Answer
  <2>1. /\ answers # <<>> /\ output = NoByte /\ output' = Head(answers)
        /\ answers' = Tail(answers)
        /\ UNCHANGED <<step, packet, nth, lost, handleData, streaming, mouseEnabled>>
    BY <1>3 DEF Answer, Sends, initVars
  <2>2. Head(answers) \in Replies /\ Tail(answers) \in Seq(Replies)
    BY <2>1 DEF AnswersInv
  <2>3. ~mouseEnabled
    BY <2>1 DEF AnswersInv
  <2>4. ~Stray(<<>>) /\ ~Stray(<<Conf>>)
    BY <2>1, Kinds DEF Stray
  <2>5. ASSUME NEW qs \in SUBSET Seq(Replies), Due(qs) PROVE Due(qs)'
    BY <1>3, <2>5, ComingAnswered DEF Due
  <2>6. DueInv'
    <3>1. /\ {<<>>} \in SUBSET Seq(Replies) /\ {<<>>, <<Conf>>} \in SUBSET Seq(Replies)
          /\ {<<>>, <<Conf>>, <<Ack, Id>>, <<Conf, Ack, Id>>} \in SUBSET Seq(Replies)
          /\ {<<>>, <<Id>>, <<Ack, Id>>} \in SUBSET Seq(Replies)
          /\ {<<>>, <<Id>>} \in SUBSET Seq(Replies)
          /\ {<<>>, <<Id>>, <<Ack>>, <<Id, Ack>>} \in SUBSET Seq(Replies)
          /\ {<<>>, <<Ack>>} \in SUBSET Seq(Replies)
          /\ {<<>>, <<Ack>>, <<Ack, Ack>>} \in SUBSET Seq(Replies)
      BY Queues
    <3>2. DueInv /\ step' = step
      BY <2>1 DEF AnswersInv
    <3> HIDE DEF Replies
    <3>3. step \in {"disable", "getStatus"} => Due({<<>>})'
      BY <2>4, <2>5, <3>1, <3>2 DEF DueInv
    <3>4. step = "readStatus" => Due({<<>>, <<Conf>>})'
      BY <2>4, <2>5, <3>1, <3>2 DEF DueInv
    <3>5. step \in {"setStatus", "getId"} => Due({<<>>, <<Conf>>})'
      BY <2>5, <3>1, <3>2 DEF DueInv
    <3>6. step = "readAck" => Due({<<>>, <<Conf>>, <<Ack, Id>>, <<Conf, Ack, Id>>})'
      BY <2>5, <3>1, <3>2 DEF DueInv
    <3>7. step = "readId" => Due({<<>>, <<Id>>, <<Ack, Id>>})'
      BY <2>5, <3>1, <3>2 DEF DueInv
    <3>8. step = "setDefaults" => Due({<<>>, <<Id>>})'
      BY <2>5, <3>1, <3>2 DEF DueInv
    <3>9. step = "awaitDefaults" => Due({<<>>, <<Id>>, <<Ack>>, <<Id, Ack>>})'
      BY <2>5, <3>1, <3>2 DEF DueInv
    <3>10. step = "enableStreaming" => Due({<<>>, <<Ack>>})'
      BY <2>5, <3>1, <3>2 DEF DueInv
    <3>11. step = "awaitStreaming" => Due({<<>>, <<Ack>>, <<Ack, Ack>>})'
      BY <2>1, <2>5, <3>1, <3>2, Kinds DEF DueInv
    <3> QED
      BY <3>2, <3>3, <3>4, <3>5, <3>6, <3>7, <3>8, <3>9, <3>10, <3>11 DEF DueInv
  <2> QED BY <2>1, <2>2, <2>3, <2>6 DEF AnswersInv
<1> QED BY <1>1, <1>2, <1>3

LEMMA Reads ==
  ASSUME ReadData
  PROVE  /\ Coming(<<>>) => output = NoByte /\ Coming(<<>>)'
         /\ Coming(<<Conf>>) => output = Conf /\ Coming(<<>>)'
         /\ Coming(<<Id>>) => output = Id /\ Coming(<<>>)'
         /\ Coming(<<Ack>>) => output = Ack /\ Coming(<<>>)'
         /\ Coming(<<Ack, Id>>) => output = Ack /\ Coming(<<Id>>)'
         /\ Coming(<<Id, Ack>>) => output = Id /\ Coming(<<Ack>>)'
         /\ Coming(<<Ack, Ack>>) => output = Ack /\ Coming(<<Ack>>)'
         /\ Coming(<<Conf, Ack, Id>>) => output = Conf /\ Coming(<<Ack, Id>>)'
<1>1. ASSUME NEW q \in Seq(Replies), Coming(q)
      PROVE  /\ q = <<>> => output = NoByte /\ Coming(q)'
             /\ q # <<>> => output = Head(q) /\ Coming(Tail(q))'
  BY <1>1, ComingRead
<1>2. Coming(<<>>) => output = NoByte /\ Coming(<<>>)'
  BY <1>1, Queues
<1>3. Coming(<<Conf>>) => output = Conf /\ Coming(<<>>)'
  BY <1>1, Queues
<1>4. Coming(<<Id>>) => output = Id /\ Coming(<<>>)'
  BY <1>1, Queues
<1>5. Coming(<<Ack>>) => output = Ack /\ Coming(<<>>)'
  BY <1>1, Queues
<1>6. Coming(<<Ack, Id>>) => output = Ack /\ Coming(<<Id>>)'
  BY <1>1, Queues
<1>7. Coming(<<Id, Ack>>) => output = Id /\ Coming(<<Ack>>)'
  BY <1>1, Queues
<1>8. Coming(<<Ack, Ack>>) => output = Ack /\ Coming(<<Ack>>)'
  BY <1>1, Queues
<1>9. Coming(<<Conf, Ack, Id>>) => output = Conf /\ Coming(<<Ack, Id>>)'
  BY <1>1, Queues
<1> QED BY <1>2, <1>3, <1>4, <1>5, <1>6, <1>7, <1>8, <1>9

LEMMA AcceptsReplies ==
  ASSUME answers \in Seq(Replies), NEW more \in Seq(Replies), Accepts(more)
  PROVE  answers' \in Seq(Replies)
BY ConcatProperties DEF Accepts

LEMMA AnswersOfInit ==
  ASSUME AnswersInv, MouseInit
  PROVE  AnswersInv'
<1>1. DueInv /\ UNCHANGED handleData
  BY DEF AnswersInv, MouseInit
<1>2. CASE GetStatus /\ UNCHANGED <<bufferVars, keyBytes, nth, packet, lost>>
  <2>1. /\ step = "getStatus" /\ step' = "readStatus"
        /\ answers' = answers \/ Accepts(<<Conf>>)
        /\ UNCHANGED <<output, packet, nth, lost, streaming, mouseEnabled>>
    BY <1>2 DEF GetStatus, Goes, bufferVars
  <2>2. Due({<<>>})' \/ Stray(<<>>)' \/ Due({<<Conf>>})' \/ Stray(<<Conf>>)'
    <3>1. CASE answers' = answers
      BY <1>1, <2>1, <3>1 DEF DueInv, Due, Coming, Stray
    <3>2. CASE Accepts(<<Conf>>)
      <4>1. CASE Coming(<<>>)
        BY <2>1, <3>2, <4>1, ComingMore, Queues, Together DEF Due
      <4>2. CASE Stray(<<>>)
        BY <2>1, <3>2, <4>2, Together DEF Stray, Accepts
      <4> QED BY <1>1, <2>1, <4>1, <4>2 DEF DueInv, Due
    <3> QED BY <2>1, <3>1, <3>2
  <2>3. DueInv'
    BY <2>1, <2>2 DEF DueInv, Due
  <2>4. answers' \in Seq(Replies)
    BY <2>1, Queues, AcceptsReplies DEF AnswersInv
  <2> QED BY <1>1, <2>1, <2>3, <2>4 DEF AnswersInv
<1>3. CASE ReadStatus
  <2>1. /\ step = "readStatus" /\ step' = "setStatus" /\ ReadData
        /\ output' = NoByte /\ answers' = answers /\ lost' \in Nat
        /\ UNCHANGED <<packet, nth, streaming, mouseEnabled>>
    BY <1>3 DEF ReadStatus, Goes, ReadData, controllerVars, AnswersInv
  <2>2. Due({<<>>, <<Conf>>})'
    <3>1. CASE Due({<<>>, <<Conf>>})
      BY <2>1, <3>1, Reads DEF Due
    <3>2. CASE Stray(<<>>) \/ Stray(<<Conf>>)
      BY <2>1, <3>2 DEF Stray, Due, Coming
    <3> QED BY <1>1, <2>1, <3>1, <3>2 DEF DueInv
  <2>3. DueInv'
    BY <2>1, <2>2 DEF DueInv
  <2> QED BY <1>1, <2>1, <2>3 DEF AnswersInv
<1>4. CASE SetStatus /\ UNCHANGED <<bufferVars, keyBytes, nth, packet, lost>>
  <2>1. /\ step = "setStatus" /\ UNCHANGED <<output, packet, nth, lost, streaming>>
        /\ \/ Accepts(<<>>) /\ step' = "getId" /\ UNCHANGED mouseEnabled
           \/ step' = "enableKeyboard" /\ mouseEnabled' = FALSE /\ UNCHANGED answers
    BY <1>4 DEF SetStatus, Commands, Returns, bufferVars
  <2>2. answers' = answers
    BY <2>1, Together DEF Accepts, AnswersInv
  <2>3. Due({<<>>, <<Conf>>})'
    BY <1>1, <2>1, <2>2 DEF DueInv, Due, Coming
  <2>4. DueInv'
    BY <2>1, <2>3 DEF DueInv
  <2> QED BY <1>1, <2>1, <2>2, <2>4 DEF AnswersInv
<1>5. CASE GetId /\ UNCHANGED <<bufferVars, keyBytes, nth, packet, lost>>
  <2>1. /\ UNCHANGED <<output, packet, nth, lost, streaming>>
        /\ Commands("getId", "readAck", FromMouse(<<Ack, Id>>))
           \/ Commands("setDefaults", "awaitDefaults", FromMouse(<<Ack>>))
    BY <1>5 DEF GetId, bufferVars
  <2>2. CASE step' = "enableKeyboard" /\ mouseEnabled' = FALSE /\ answers' = answers
    <3>1. DueInv'
      BY <2>2 DEF DueInv
    <3>2. step \in {"getId", "setDefaults"}
      BY <2>1 DEF Commands
    <3> QED BY <1>1, <2>1, <2>2, <3>1, <3>2 DEF AnswersInv
  <2>3. CASE /\ step = "getId" /\ step' = "readAck" /\ mouseEnabled' = mouseEnabled
             /\ Accepts(FromMouse(<<Ack, Id>>))
    <3>1. Accepts(<<>>) \/ Accepts(<<Ack, Id>>)
      BY <2>3 DEF FromMouse
    <3>2. Due({<<>>, <<Conf>>, <<Ack, Id>>, <<Conf, Ack, Id>>})'
      <4>1. Coming(<<>>) \/ Coming(<<Conf>>)
        BY <1>1, <2>3 DEF DueInv, Due
      <4>2. CASE Accepts(<<>>)
        BY <2>1, <4>1, <4>2, ComingMore, Queues, Together DEF Due
      <4>3. CASE Accepts(<<Ack, Id>>)
        BY <2>1, <4>1, <4>3, ComingMore, Queues, Together DEF Due
      <4> QED BY <3>1, <4>2, <4>3
    <3>3. DueInv'
      BY <2>3, <3>2 DEF DueInv
    <3>4. answers' \in Seq(Replies)
      BY <2>1, <3>1, Queues, AcceptsReplies, Together DEF AnswersInv
    <3> QED BY <1>1, <2>1, <2>3, <3>3, <3>4 DEF AnswersInv
  <2>4. CASE /\ step = "setDefaults" /\ step' = "awaitDefaults" /\ mouseEnabled' = mouseEnabled
             /\ Accepts(FromMouse(<<Ack>>))
    <3>1. Accepts(<<>>) \/ Accepts(<<Ack>>)
      BY <2>4 DEF FromMouse
    <3>2. Due({<<>>, <<Id>>, <<Ack>>, <<Id, Ack>>})'
      <4>1. Coming(<<>>) \/ Coming(<<Id>>)
        BY <1>1, <2>4 DEF DueInv, Due
      <4>2. CASE Accepts(<<>>)
        BY <2>1, <4>1, <4>2, ComingMore, Queues, Together DEF Due
      <4>3. CASE Accepts(<<Ack>>)
        BY <2>1, <4>1, <4>3, ComingMore, Queues, Together DEF Due
      <4> QED BY <3>1, <4>2, <4>3
    <3>3. DueInv'
      BY <2>4, <3>2 DEF DueInv
    <3>4. answers' \in Seq(Replies)
      BY <2>1, <3>1, Queues, AcceptsReplies, Together DEF AnswersInv
    <3> QED BY <1>1, <2>1, <2>4, <3>3, <3>4 DEF AnswersInv
  <2> QED BY <2>1, <2>2, <2>3, <2>4 DEF Commands, Returns
<1>6. CASE EnableStreaming /\ UNCHANGED <<bufferVars, keyBytes, nth, packet, lost>>
  <2>1. /\ step = "enableStreaming" /\ step' = "awaitStreaming"
        /\ UNCHANGED <<output, packet, nth, lost, mouseEnabled>>
        /\ Accepts(FromMouse(<<Ack>>)) \/ answers' = answers
    BY <1>6 DEF EnableStreaming, Goes, bufferVars
  <2>2. answers' = answers \/ Accepts(<<Ack>>)
    BY <2>1, Together DEF FromMouse, Accepts, AnswersInv
  <2>3. Due({<<>>, <<Ack>>, <<Ack, Ack>>})'
    <3>1. Coming(<<>>) \/ Coming(<<Ack>>)
      BY <1>1, <2>1 DEF DueInv, Due
    <3>2. CASE answers' = answers
      BY <2>1, <3>1, <3>2 DEF Due, Coming
    <3>3. CASE Accepts(<<Ack>>)
      BY <2>1, <3>1, <3>3, ComingMore, Queues, Together DEF Due
    <3> QED BY <2>2, <3>2, <3>3
  <2>4. DueInv'
    BY <2>1, <2>3 DEF DueInv
  <2>5. answers' \in Seq(Replies)
    BY <2>2, Queues, AcceptsReplies DEF AnswersInv
  <2> QED BY <1>1, <2>1, <2>4, <2>5 DEF AnswersInv
<1>7. CASE ReadAnswer
  <2>1. /\ ReadData /\ output' = NoByte /\ answers' = answers /\ lost' \in Nat
        /\ UNCHANGED <<packet, nth, streaming, mouseEnabled>>
    BY <1>7 DEF ReadAnswer, ReadData, controllerVars, AnswersInv
  <2>2. CASE Goes("readAck", "readId")
    <3>1. Due({<<>>, <<Id>>, <<Ack, Id>>})'
      <4>1. Due({<<>>, <<Conf>>, <<Ack, Id>>, <<Conf, Ack, Id>>})
        BY <1>1, <2>2 DEF DueInv, Goes
      <4> QED BY <2>1, <4>1, Reads DEF Due
    <3>2. DueInv'
      BY <2>2, <3>1 DEF DueInv, Goes
    <3> QED BY <1>1, <2>1, <2>2, <3>2 DEF AnswersInv, Goes
  <2>3. CASE Goes("readId", "setDefaults")
    <3>1. Due({<<>>, <<Id>>})'
      <4>1. Due({<<>>, <<Id>>, <<Ack, Id>>})
        BY <1>1, <2>3 DEF DueInv, Goes
      <4> QED BY <2>1, <4>1, Reads DEF Due
    <3>2. DueInv'
      BY <2>3, <3>1 DEF DueInv, Goes
    <3> QED BY <1>1, <2>1, <2>3, <3>2 DEF AnswersInv, Goes
  <2>4. CASE Acknowledged("awaitDefaults", "enableStreaming")
    <3>1. /\ step = "awaitDefaults"
          /\ step' = IF output = Ack THEN "awaitDefaults" ELSE "enableStreaming"
      BY <2>4 DEF Acknowledged
    <3>2. Due({<<>>, <<Ack>>})'
      <4>1. Due({<<>>, <<Id>>, <<Ack>>, <<Id, Ack>>})
        BY <1>1, <3>1 DEF DueInv
      <4> QED BY <2>1, <4>1, Reads DEF Due
    <3>3. DueInv'
      BY <3>1, <3>2 DEF DueInv, Due
    <3> QED BY <1>1, <2>1, <3>1, <3>3 DEF AnswersInv
  <2> QED BY <1>7, <2>2, <2>3, <2>4 DEF ReadAnswer
<1>8. CASE AwaitStreaming
  <2>1. /\ ReadData /\ output' = NoByte /\ answers' = answers /\ lost' \in Nat
        /\ UNCHANGED <<packet, nth, streaming>> /\ mouseEnabled' = (output # Ack)
        /\ step = "awaitStreaming"
        /\ step' = IF output = Ack THEN "awaitStreaming" ELSE "enableKeyboard"
    BY <1>8 DEF AwaitStreaming, Acknowledged, ReadData, controllerVars, AnswersInv
  <2>2. CASE output \in MouseBytes /\ answers = <<>>
    <3>1. output # Ack
      BY <2>2, Kinds
    <3>2. DueInv'
      BY <2>1, <3>1 DEF DueInv
    <3>3. output' \notin {Ack, Id}
      BY <2>1, Kinds
    <3> QED BY <1>1, <2>1, <2>2, <3>1, <3>2, <3>3 DEF AnswersInv
  <2>3. CASE Due({<<>>, <<Ack>>, <<Ack, Ack>>})
    <3>1. \/ output = NoByte /\ Coming(<<>>)'
          \/ output = Ack /\ (Coming(<<>>)' \/ Coming(<<Ack>>)')
      BY <2>1, <2>3, Reads DEF Due
    <3>2. CASE output = NoByte /\ Coming(<<>>)'
      <4>1. output # Ack /\ answers' = <<>>
        BY <2>1, <3>2, Kinds DEF Coming
      <4>2. DueInv'
        BY <2>1, <4>1 DEF DueInv
      <4>3. output' \notin {Ack, Id}
        BY <2>1, Kinds
      <4> QED BY <1>1, <2>1, <4>1, <4>2, <4>3 DEF AnswersInv
    <3>3. CASE output = Ack /\ (Coming(<<>>)' \/ Coming(<<Ack>>)')
      <4>1. DueInv'
        BY <2>1, <3>3 DEF DueInv, Due
      <4> QED BY <1>1, <2>1, <3>3, <4>1 DEF AnswersInv
    <3> QED BY <3>1, <3>2, <3>3
  <2> QED BY <1>1, <2>1, <2>2, <2>3 DEF DueInv
<1> QED
  BY <1>2, <1>3, <1>4, <1>5, <1>6, <1>7, <1>8 DEF MouseInit

LEMMA AnswersNext == AnswersInv /\ [InputNext]_inputVars => AnswersInv'
<1> SUFFICES ASSUME AnswersInv, [InputNext]_inputVars PROVE AnswersInv'
  OBVIOUS
<1>1. DueInv
  BY DEF AnswersInv
<1>2. CASE KeyByte \/ MouseByte \/ Answer
  BY <1>2, AnswersOfDevices
<1>3. CASE PS2Init
  <2>1. CASE MouseInit
    BY <2>1, AnswersOfInit
  <2>2. CASE Enable /\ UNCHANGED <<ctrlConf, mouseEnabled, bufferVars, deviceVars>>
    <3>1. /\ UNCHANGED <<output, answers, packet, nth, lost, streaming, mouseEnabled>>
          /\ \/ step = "disable" /\ step' = "getStatus" /\ handleData' = handleData
             \/ /\ step = "enableKeyboard" /\ step' \in {"enableMouse", "handle"}
                /\ handleData' = handleData
             \/ step = "enableMouse" /\ step' = "handle" /\ handleData' = handleData
             \/ step = "handle" /\ step' = "done"
      BY <2>2 DEF Enable, Goes, bufferVars, deviceVars, controllerVars
    <3>2. DueInv'
      BY <1>1, <3>1 DEF DueInv, Due, Coming, Stray
    <3> QED BY <3>1, <3>2 DEF AnswersInv
  <2> QED BY <1>3, <2>1, <2>2 DEF PS2Init
<1>4. CASE Handle
  <2>1. UNCHANGED <<step, answers, packet, nth, lost, streaming, mouseEnabled, handleData>>
    BY <1>4 DEF Handle, initVars, deviceVars, controllerVars
  <2>2. output' = output \/ (output' = NoByte /\ handleData)
    BY <1>4 DEF Handle
  <2>3. CASE output' = output
    BY <1>1, <2>1, <2>3, DueStays DEF AnswersInv
  <2>4. CASE output' = NoByte /\ handleData
    <3>1. step' = "done" /\ output' \notin {Ack, Id}
      BY <2>1, <2>4, Kinds DEF AnswersInv
    <3>2. DueInv'
      BY <3>1 DEF DueInv
    <3> QED BY <2>1, <2>4, <3>1, <3>2 DEF AnswersInv
  <2> QED BY <2>2, <2>3, <2>4
<1>5. CASE UNCHANGED <<step, output, answers, packet, nth, lost, streaming, mouseEnabled, handleData>>
  BY <1>1, <1>5, DueStays DEF AnswersInv
<1>6. CASE ReadKey \/ HandlerTask \/ UNCHANGED inputVars
  BY <1>5, <1>6
  DEF ReadKey, HandlerTask, inputVars, initVars, bufferVars, deviceVars, controllerVars
<1> QED BY <1>2, <1>3, <1>4, <1>6 DEF InputNext

LEMMA KeyNext == KeyInv /\ AnswersInv /\ [InputNext]_inputVars => KeyInv'
<1> SUFFICES ASSUME KeyInv, AnswersInv, [InputNext]_inputVars PROVE KeyInv'
  OBVIOUS
<1>1. CASE UNCHANGED keyVars
  BY <1>1 DEF KeyInv, KeyList, Holds, Taken, keyVars
<1>2. CASE ReadKey
  BY <1>2, KeyReader
<1>3. CASE Handle
  <2>1. \/ UNCHANGED keyVars
        \/ /\ ~OfMouse(output)
           /\ \E code \in IF output = Conf THEN Codes ELSE {output} : KeyFIFOAdd(code)
    BY <1>3 DEF Handle
  <2>2. CASE /\ ~OfMouse(output)
             /\ \E code \in IF output = Conf THEN Codes ELSE {output} : KeyFIFOAdd(code)
    <3>1. PICK code \in IF output = Conf THEN Codes ELSE {output} : KeyFIFOAdd(code)
      BY <2>2
    <3>2. code \in Codes \/ code = NoByte
      BY <2>2, <3>1, Kinds DEF AnswersInv, OfMouse, Replies
    <3>3. CASE code = NoByte
      BY <1>1, <3>1, <3>3, Kinds DEF KeyFIFOAdd
    <3> QED BY <3>1, <3>2, <3>3, KeyHandler
  <2> QED BY <1>1, <2>1, <2>2
<1>4. CASE KeyByte \/ MouseByte \/ Answer \/ PS2Init \/ HandlerTask \/ UNCHANGED inputVars
  BY <1>1, <1>4 DEF KeyByte, MouseByte, Answer, PS2Init, HandlerTask, inputVars
<1> QED BY <1>2, <1>3, <1>4 DEF InputNext

LEMMA KeyInvKeeps == KeyInv => KeyEventsKept
<1> SUFFICES ASSUME KeyInv, ~keysTorn
             PROVE  /\ ~keyEvents.broken
                    /\ reader.place \in {"test", "wait", "load"} =>
                         Sound(keyEvents) /\ decoded = read \o Elements(keyEvents)
  BY DEF KeyEventsKept
<1>1. KeyList
  BY DEF KeyInv
<1>2. CASE reader.place \in {"test", "wait", "load"}
  <2>1. PICK s \in Orders : Holds(keyEvents, s, {}, read, decoded) /\ keyEvents.size = Len(s)
    BY <1>1, <1>2 DEF KeyList
  <2>2. Sound(keyEvents) /\ Elements(keyEvents) = DataIn(keyEvents, s)
    BY <2>1, LinkedIsSound DEF Holds
  <2> QED BY <2>1, <2>2 DEF Holds, Sound
<1>3. CASE reader.place \in {"store", "delete"}
  BY <1>1, <1>3 DEF KeyList, Holds, Linked, Chained
<1>4. CASE reader.place = "clearTail"
  <2>1. [keyEvents EXCEPT !.head = reader.item].broken = FALSE /\ IsList(keyEvents)
    BY <1>1, <1>4 DEF KeyList, Holds, Linked, Chained
  <2>2. keyEvents.broken = FALSE
    BY <2>1 DEF IsList
  <2> QED BY <1>4, <2>2
<1> QED BY <1>1, <1>2, <1>3, <1>4 DEF KeyList

\* The list of the keyboard's events is sound between two reads, nothing that was
\* decoded is missing from it, and what was read and what is in it together are the
\* events in the order in which the handler decoded them: however its pushes fall
\* between the instructions of List::PopFront, unless one falls into the removal of
\* the only event.
THEOREM KeysKept == InputSpec => []KeyEventsKept
<1>1. InputInit => KeyInv /\ AnswersInv
  BY KeyInit, AnswersInit
<1>2. KeyInv /\ AnswersInv /\ [InputNext]_inputVars => (KeyInv /\ AnswersInv)'
  BY KeyNext, AnswersNext
<1>3. KeyInv => KeyEventsKept
  BY KeyInvKeeps
<1> QED BY <1>1, <1>2, <1>3, PTL DEF InputSpec

-----------------------------------------------------------------------------
(* The packets of the mouse.                                               *)

\* The bytes b are the last ones of those that were sent, in their order.  A byte with
\* the bit set is the first of its packet: so as many of those sent since as are not in
\* b are lost, beside one for each packet misread before.
Behind(b, sent, wrong, gone) ==
  /\ \A i \in 1..Len(b) : 3 * b[i].of < sent
  /\ \A i, j \in 1..Len(b) : i <= j => b[i].of <= b[j].of
  /\ \A i \in 1..Len(b) : b[i].sync => wrong + (sent - 3 * b[i].of) <= gone + ((Len(b) - i) + 1)

\* With the byte in the controller.
Unread == IF output \in MouseBytes THEN Append(dataBuffer, output) ELSE dataBuffer

PacketInv ==
  /\ misread \in Nat /\ misread <= lost
  /\ dataBuffer \in Seq(MouseBytes) /\ Len(dataBuffer) < 3
  /\ Behind(Unread, nth, misread, lost)

LEMMA BytesOf ==
  ASSUME NEW b \in Seq(MouseBytes), NEW i \in 1..Len(b)
  PROVE  b[i] \in MouseBytes /\ b[i].of \in Nat /\ b[i].sync \in BOOLEAN
<1>1. b[i] \in MouseBytes
  BY ElementOfSeq
<1> QED BY <1>1 DEF MouseBytes

LEMMA BehindMore ==
  ASSUME NEW b \in Seq(MouseBytes), NEW sent \in Nat, NEW wrong \in Nat, NEW gone \in Nat,
         wrong <= gone, Behind(b, sent, wrong, gone),
         NEW byte \in MouseBytes, byte.of = sent \div 3, byte.sync = (sent % 3 = 0)
  PROVE  Behind(Append(b, byte), sent + 1, wrong, gone)
<1> DEFINE n == Len(b)
           c == Append(b, byte)
<1>1. n \in Nat /\ Len(c) = n + 1 /\ c[n + 1] = byte /\ \A i \in 1..n : c[i] = b[i]
  BY AppendProperties, LenProperties
<1>2. \A i \in 1..n : b[i].of \in Nat
  BY BytesOf
<1>3. /\ \A i \in 1..n : 3 * b[i].of < sent
      /\ \A i, j \in 1..n : i <= j => b[i].of <= b[j].of
      /\ \A i \in 1..n : b[i].sync => wrong + (sent - 3 * b[i].of) <= gone + ((n - i) + 1)
  BY DEF Behind
<1> HIDE DEF n, c
<1>4. byte.of \in Nat /\ 3 * byte.of < sent + 1 /\ (byte.sync => sent = 3 * byte.of)
  <2>1. \A m, d \in Nat : d = m \div 3 => 3 * d < m + 1 /\ (m % 3 = 0 => m = 3 * d)
    OBVIOUS
  <2> QED BY <2>1 DEF MouseBytes
<1>5. \A i \in 1..n : b[i].of <= byte.of
  <2>1. \A m, d, e \in Nat : d = m \div 3 /\ 3 * e < m => e <= d
    OBVIOUS
  <2> QED BY <1>2, <1>3, <1>4, <2>1
<1>6. \A i \in 1..(n + 1) : i \in 1..n \/ i = n + 1
  BY <1>1
<1>7. ASSUME NEW i \in 1..(n + 1) PROVE 3 * c[i].of < sent + 1
  <2>1. \A of \in Nat : 3 * of < sent => 3 * of < sent + 1
    OBVIOUS
  <2>2. CASE i \in 1..n
    BY <1>1, <1>2, <1>3, <2>1, <2>2
  <2>3. CASE i = n + 1
    BY <1>1, <1>4, <2>3
  <2> QED BY <1>6, <2>2, <2>3
<1>8. ASSUME NEW i \in 1..(n + 1), NEW j \in 1..(n + 1), i <= j PROVE c[i].of <= c[j].of
  <2>1. CASE j \in 1..n
    <3>1. i \in 1..n
      BY <1>1, <1>8, <2>1
    <3> QED BY <1>1, <1>3, <1>8, <2>1, <3>1
  <2>2. CASE j = n + 1
    BY <1>1, <1>4, <1>5, <1>6, <2>2
  <2> QED BY <1>6, <2>1, <2>2
<1>9. ASSUME NEW i \in 1..(n + 1), c[i].sync
      PROVE  wrong + ((sent + 1) - 3 * c[i].of) <= gone + (((n + 1) - i) + 1)
  <2>1. CASE i \in 1..n
    <3>1. wrong + (sent - 3 * b[i].of) <= gone + ((n - i) + 1)
      BY <1>1, <1>3, <1>9, <2>1
    <3>2. \A of, m, k \in Nat : wrong + (sent - 3 * of) <= gone + ((m - k) + 1) =>
            wrong + ((sent + 1) - 3 * of) <= gone + (((m + 1) - k) + 1)
      OBVIOUS
    <3>3. i \in Nat
      OBVIOUS
    <3> QED BY <1>1, <1>2, <2>1, <3>1, <3>2, <3>3
  <2>2. CASE i = n + 1
    <3>1. sent = 3 * c[i].of /\ c[i].of \in Nat
      BY <1>1, <1>4, <1>9, <2>2
    <3>2. \A of, m \in Nat : sent = 3 * of =>
            wrong + ((sent + 1) - 3 * of) <= gone + (((m + 1) - (m + 1)) + 1)
      OBVIOUS
    <3> QED BY <1>1, <2>2, <3>1, <3>2
  <2> QED BY <1>6, <2>1, <2>2
<1> QED BY <1>1, <1>7, <1>8, <1>9 DEF Behind, c, n

LEMMA BehindLost ==
  ASSUME NEW b \in Seq(MouseBytes), NEW sent \in Nat, NEW wrong \in Nat, NEW gone \in Nat,
         Behind(b, sent, wrong, gone)
  PROVE  Behind(b, sent + 1, wrong, gone + 1)
<1> DEFINE n == Len(b)
<1>1. n \in Nat /\ \A i \in 1..n : b[i].of \in Nat
  BY BytesOf
<1>2. /\ \A i \in 1..n : 3 * b[i].of < sent
      /\ \A i, j \in 1..n : i <= j => b[i].of <= b[j].of
      /\ \A i \in 1..n : b[i].sync => wrong + (sent - 3 * b[i].of) <= gone + ((n - i) + 1)
  BY DEF Behind
<1> HIDE DEF n
<1>3. \A i \in 1..n : 3 * b[i].of < sent + 1
  <2>1. \A of \in Nat : 3 * of < sent => 3 * of < sent + 1
    OBVIOUS
  <2> QED BY <1>1, <1>2, <2>1
<1>4. ASSUME NEW i \in 1..n, b[i].sync
      PROVE  wrong + ((sent + 1) - 3 * b[i].of) <= (gone + 1) + ((n - i) + 1)
  <2>1. wrong + (sent - 3 * b[i].of) <= gone + ((n - i) + 1)
    BY <1>2, <1>4
  <2>2. \A of, m, k \in Nat : wrong + (sent - 3 * of) <= gone + ((m - k) + 1) =>
          wrong + ((sent + 1) - 3 * of) <= (gone + 1) + ((m - k) + 1)
    OBVIOUS
  <2>3. i \in Nat
    OBVIOUS
  <2> QED BY <1>1, <2>1, <2>2, <2>3
<1> QED BY <1>2, <1>3, <1>4 DEF Behind, n

LEMMA BehindTail ==
  ASSUME NEW b \in Seq(MouseBytes), b # <<>>, NEW sent \in Nat, NEW wrong \in Nat,
         NEW gone \in Nat, Behind(b, sent, wrong, gone)
  PROVE  Behind(Tail(b), sent, wrong, gone)
<1> DEFINE n == Len(b)
           t == Tail(b)
<1>1. n \in Nat /\ n # 0 /\ Len(t) = n - 1 /\ \A i \in 1..(n - 1) : t[i] = b[i + 1]
  BY HeadTailProperties, LenProperties, EmptySeq
<1>2. /\ \A i \in 1..n : 3 * b[i].of < sent
      /\ \A i, j \in 1..n : i <= j => b[i].of <= b[j].of
      /\ \A i \in 1..n : b[i].sync => wrong + (sent - 3 * b[i].of) <= gone + ((n - i) + 1)
  BY DEF Behind
<1> HIDE DEF n, t
<1>3. \A i \in 1..(n - 1) : i + 1 \in 1..n /\ (n - (i + 1)) + 1 = ((n - 1) - i) + 1
  BY <1>1
<1>4. \A i \in 1..(n - 1) : 3 * t[i].of < sent
  BY <1>1, <1>2, <1>3
<1>5. ASSUME NEW i \in 1..(n - 1), NEW j \in 1..(n - 1), i <= j PROVE t[i].of <= t[j].of
  <2>1. i + 1 <= j + 1
    BY <1>1, <1>5
  <2> QED BY <1>1, <1>2, <1>3, <2>1
<1>6. \A i \in 1..(n - 1) : t[i].sync => wrong + (sent - 3 * t[i].of) <= gone + (((n - 1) - i) + 1)
  BY <1>1, <1>2, <1>3
<1> QED BY <1>1, <1>4, <1>5, <1>6 DEF Behind, t

LEMMA BehindRead ==
  ASSUME NEW b \in Seq(MouseBytes), NEW byte \in MouseBytes, NEW sent \in Nat, NEW wrong \in Nat,
         NEW gone \in Nat, Behind(Append(b, byte), sent, wrong, gone)
  PROVE  Behind(b, sent, wrong, gone + 1)
<1> DEFINE n == Len(b)
           c == Append(b, byte)
<1>1. n \in Nat /\ Len(c) = n + 1 /\ \A i \in 1..n : c[i] = b[i]
  BY AppendProperties, LenProperties
<1>2. /\ \A i \in 1..(n + 1) : 3 * c[i].of < sent
      /\ \A i, j \in 1..(n + 1) : i <= j => c[i].of <= c[j].of
      /\ \A i \in 1..(n + 1) : c[i].sync => wrong + (sent - 3 * c[i].of) <= gone + (((n + 1) - i) + 1)
  BY <1>1 DEF Behind
<1>3. \A i \in 1..n : b[i].of \in Nat
  BY BytesOf
<1> HIDE DEF n, c
<1>4. \A i \in 1..n : i \in 1..(n + 1) /\ gone + (((n + 1) - i) + 1) = (gone + 1) + ((n - i) + 1)
  BY <1>1
<1>5. \A i \in 1..n : 3 * b[i].of < sent
  BY <1>1, <1>2, <1>4
<1>6. \A i, j \in 1..n : i <= j => b[i].of <= b[j].of
  BY <1>1, <1>2, <1>4
<1>7. \A i \in 1..n : b[i].sync => wrong + (sent - 3 * b[i].of) <= (gone + 1) + ((n - i) + 1)
  BY <1>1, <1>2, <1>4
<1> QED BY <1>5, <1>6, <1>7 DEF Behind, n

\* A packet whose bytes do not belong together is paid for by a lost byte.
LEMMA PaidFor ==
  ASSUME NEW b \in Seq(MouseBytes), Len(b) = 3, NEW sent \in Nat, NEW wrong \in Nat,
         NEW gone \in Nat, Behind(b, sent, wrong, gone), b[1].sync,
         ~ \A i \in 1..3 : b[i].of = b[1].of
  PROVE  wrong + 1 <= gone
<1> DEFINE x == b[1].of
           y == b[3].of
<1>1. \A i \in 1..3 : b[i].of \in Nat
  BY BytesOf
<1>2. /\ 3 * y < sent /\ wrong + (sent - 3 * x) <= gone + ((3 - 1) + 1)
      /\ x <= b[2].of /\ b[2].of <= y /\ x <= y
  <2>1. 1 \in 1..3 /\ 2 \in 1..3 /\ 3 \in 1..3 /\ 1 <= 2 /\ 2 <= 3 /\ 1 <= 3
    OBVIOUS
  <2> QED BY <2>1 DEF Behind
<1>3. x # y
  <2>1. \A u, v, w \in Nat : u <= w /\ w <= v /\ u = v => w = u
    OBVIOUS
  <2>2. ASSUME x = y PROVE FALSE
    <3>1. b[2].of = x /\ b[3].of = x
      BY <1>1, <1>2, <2>1, <2>2
    <3>2. \A i \in 1..3 : i = 1 \/ i = 2 \/ i = 3
      OBVIOUS
    <3> QED BY <3>1, <3>2
  <2> QED BY <2>2
<1>4. \A u, v \in Nat : /\ u <= v /\ u # v /\ 3 * v < sent
                        /\ wrong + (sent - 3 * u) <= gone + ((3 - 1) + 1)
                        => wrong + 1 <= gone
  OBVIOUS
<1> QED BY <1>1, <1>2, <1>3, <1>4

LEMMA PacketInit == InputInit => PacketInv
<1> SUFFICES ASSUME InputInit PROVE PacketInv
  OBVIOUS
<1>1. output = NoByte /\ dataBuffer = <<>> /\ misread = 0 /\ lost = 0 /\ nth = 0
  BY DEF InputInit
<1>2. Unread = <<>> /\ dataBuffer \in Seq(MouseBytes) /\ Len(dataBuffer) = 0
  BY <1>1, Kinds DEF Unread
<1>3. Behind(Unread, nth, misread, lost)
  BY <1>2 DEF Behind
<1> QED BY <1>1, <1>2, <1>3 DEF PacketInv

\* One byte of the mouse, that the handler takes.
LEMMA PacketHandler ==
  ASSUME PacketInv, AnswersInv, output \in MouseBytes, output' = NoByte, lost' = lost, nth' = nth,
         MouseFIFOAdd(output)
  PROVE  PacketInv'
<1> DEFINE b == Append(dataBuffer, output)
<1>1. /\ misread \in Nat /\ misread <= lost /\ lost \in Nat /\ nth \in Nat
      /\ dataBuffer \in Seq(MouseBytes) /\ Len(dataBuffer) < 3
      /\ Behind(b, nth, misread, lost)
  BY DEF PacketInv, AnswersInv, Unread
<1>2. b \in Seq(MouseBytes) /\ Len(b) = Len(dataBuffer) + 1 /\ Len(dataBuffer) \in Nat /\ b # <<>>
  BY <1>1, AppendProperties, LenProperties
<1>3. Unread' = dataBuffer'
  BY Kinds DEF Unread
<1>4. \/ Len(b) < 3 /\ dataBuffer' = b /\ misread' = misread
      \/ ~(Len(b) < 3) /\ dataBuffer' = Tail(b) /\ misread' = misread
      \/ /\ ~(Len(b) < 3) /\ b[1].sync /\ dataBuffer' = <<>>
         /\ misread' = misread + IF \A i \in 1..3 : b[i].of = b[1].of THEN 0 ELSE 1
  BY DEF MouseFIFOAdd, Begins
<1> HIDE DEF b
<1>5. CASE Len(b) < 3 /\ dataBuffer' = b /\ misread' = misread
  BY <1>1, <1>2, <1>3, <1>5 DEF PacketInv
<1>6. Len(b) < 3 \/ Len(b) = 3
  BY <1>1, <1>2
<1>7. CASE ~(Len(b) < 3) /\ dataBuffer' = Tail(b) /\ misread' = misread
  <2>1. Tail(b) \in Seq(MouseBytes) /\ Len(Tail(b)) = Len(b) - 1
    BY <1>2, HeadTailProperties
  <2>2. Len(Tail(b)) < 3
    <3>1. Len(b) = 3
      BY <1>6, <1>7
    <3>2. 3 - 1 < 3
      OBVIOUS
    <3> QED BY <2>1, <3>1, <3>2
  <2>3. Behind(Tail(b), nth, misread, lost)
    BY <1>1, <1>2, BehindTail
  <2> QED BY <1>1, <1>3, <1>7, <2>1, <2>2, <2>3 DEF PacketInv
<1>8. CASE /\ ~(Len(b) < 3) /\ b[1].sync /\ dataBuffer' = <<>>
           /\ misread' = misread + IF \A i \in 1..3 : b[i].of = b[1].of THEN 0 ELSE 1
  <2>1. misread' \in Nat /\ misread' <= lost
    <3>1. CASE \A i \in 1..3 : b[i].of = b[1].of
      BY <1>1, <1>8, <3>1
    <3>2. CASE ~ \A i \in 1..3 : b[i].of = b[1].of
      <4>1. misread' = misread + 1
        BY <1>8, <3>2
      <4>2. misread + 1 <= lost
        BY <1>1, <1>2, <1>6, <1>8, <3>2, PaidFor
      <4> QED BY <1>1, <4>1, <4>2
    <3> QED BY <3>1, <3>2
  <2>2. Behind(<<>>, nth, misread', lost) /\ <<>> \in Seq(MouseBytes) /\ Len(<<>>) = 0
    BY DEF Behind
  <2> QED BY <1>3, <1>8, <2>1, <2>2 DEF PacketInv
<1> QED BY <1>4, <1>5, <1>7, <1>8

LEMMA PacketNext == PacketInv /\ AnswersInv /\ [InputNext]_inputVars => PacketInv'
<1> SUFFICES ASSUME PacketInv, AnswersInv, [InputNext]_inputVars PROVE PacketInv'
  OBVIOUS
<1>1. /\ misread \in Nat /\ misread <= lost /\ lost \in Nat /\ nth \in Nat
      /\ dataBuffer \in Seq(MouseBytes) /\ Len(dataBuffer) < 3
      /\ Behind(Unread, nth, misread, lost)
  BY DEF PacketInv, AnswersInv
<1>2. CASE UNCHANGED <<misread, dataBuffer, nth, lost>> /\ Unread' = Unread
  BY <1>1, <1>2 DEF PacketInv
<1>3. CASE KeyByte \/ Answer
  <2>1. UNCHANGED <<misread, dataBuffer, nth, lost>> /\ output = NoByte
    BY <1>3 DEF KeyByte, Answer, Sends, mouseVars
  <2>2. output' \in Codes \cup Replies
    BY <1>3 DEF KeyByte, Answer, Sends, AnswersInv
  <2>3. Unread' = Unread
    BY <2>1, <2>2, Kinds DEF Unread
  <2> QED BY <1>2, <2>1, <2>3
<1>4. CASE MouseByte
  <2>1. /\ UNCHANGED <<misread, dataBuffer>> /\ nth' = nth + 1
        /\ \/ output = NoByte /\ output' = PacketByte /\ lost' = lost
           \/ lost' = lost + 1 /\ output' = output
    BY <1>4 DEF MouseByte, Sends, mouseVars, bufferVars
  <2>2. CASE output = NoByte /\ output' = PacketByte /\ lost' = lost
    <3>1. PacketByte \in MouseBytes
      BY PacketByteIs
    <3>2. Unread = dataBuffer /\ Unread' = Append(dataBuffer, PacketByte)
      BY <2>1, <2>2, <3>1, Kinds DEF Unread
    <3>3. PacketByte.of = nth \div 3 /\ PacketByte.sync = (nth % 3 = 0)
      BY DEF PacketByte
    <3> HIDE DEF PacketByte
    <3>4. Behind(Append(dataBuffer, PacketByte), nth + 1, misread, lost)
      BY <1>1, <3>1, <3>2, <3>3, BehindMore
    <3> QED BY <1>1, <2>1, <2>2, <3>2, <3>4 DEF PacketInv
  <2>3. CASE lost' = lost + 1 /\ output' = output
    <3>1. Unread' = Unread /\ Unread \in Seq(MouseBytes)
      BY <1>1, <2>1, <2>3 DEF Unread
    <3>2. Behind(Unread, nth + 1, misread, lost + 1)
      BY <1>1, <3>1, BehindLost
    <3>3. misread <= lost + 1
      BY <1>1
    <3> QED BY <1>1, <2>1, <2>3, <3>1, <3>2, <3>3 DEF PacketInv
  <2> QED BY <2>1, <2>2, <2>3
<1>5. CASE PS2Init
  <2>1. UNCHANGED <<misread, dataBuffer>>
    BY <1>5 DEF PS2Init, mouseVars
  <2>2. CASE UNCHANGED <<output, nth, lost>>
    BY <1>2, <2>1, <2>2 DEF Unread
  <2>3. CASE ReadData
    <3>1. output' = NoByte /\ lost' = lost + (IF output.kind = "mouse" THEN 1 ELSE 0) /\ nth' = nth
      BY <2>3 DEF ReadData
    <3>2. Unread' = dataBuffer
      BY <2>1, <3>1, Kinds DEF Unread
    <3>3. CASE output \in MouseBytes
      <4>1. lost' = lost + 1 /\ Unread = Append(dataBuffer, output)
        BY <3>1, <3>3, Kinds DEF Unread
      <4>2. Behind(dataBuffer, nth, misread, lost + 1)
        BY <1>1, <3>3, <4>1, BehindRead
      <4>3. misread <= lost + 1
        BY <1>1
      <4> QED BY <1>1, <2>1, <3>1, <3>2, <4>1, <4>2, <4>3 DEF PacketInv
    <3>4. CASE output \notin MouseBytes
      <4>1. output.kind # "mouse"
        BY <3>4, Kinds DEF AnswersInv
      <4>2. lost' = lost + 0 /\ lost + 0 = lost
        BY <1>1, <3>1, <4>1
      <4> QED BY <1>2, <2>1, <3>1, <3>2, <3>4, <4>2 DEF Unread
    <3> QED BY <3>3, <3>4
  <2>4. UNCHANGED <<output, nth, lost>> \/ ReadData
    <3>1. CASE MouseInit
      BY <3>1 DEF MouseInit, ReadStatus, ReadAnswer, AwaitStreaming, bufferVars
    <3>2. CASE Enable /\ UNCHANGED <<ctrlConf, mouseEnabled, bufferVars, deviceVars>>
      BY <3>2 DEF bufferVars, deviceVars
    <3> QED BY <1>5, <3>1, <3>2 DEF PS2Init
  <2> QED BY <2>2, <2>3, <2>4
<1>6. CASE Handle
  <2>1. nth' = nth /\ lost' = lost
    BY <1>6 DEF Handle, deviceVars
  <2>2. \/ output' = NoByte /\ OfMouse(output) /\ mouseEnabled /\ MouseFIFOAdd(output)
        \/ output' = NoByte /\ ~OfMouse(output) /\ UNCHANGED <<dataBuffer, misread>>
        \/ output' = output /\ UNCHANGED <<dataBuffer, misread>>
    BY <1>6 DEF Handle
  <2>3. CASE output' = NoByte /\ OfMouse(output) /\ mouseEnabled /\ MouseFIFOAdd(output)
    <3>1. output \in MouseBytes
      BY <2>3, Kinds DEF AnswersInv, OfMouse, Replies
    <3> QED BY <2>1, <2>3, <3>1, PacketHandler
  <2>4. CASE output' = NoByte /\ ~OfMouse(output) /\ UNCHANGED <<dataBuffer, misread>>
    <3>1. output \notin MouseBytes
      BY <2>4, Kinds DEF OfMouse
    <3> QED BY <1>2, <2>1, <2>4, <3>1, Kinds DEF Unread
  <2>5. CASE output' = output /\ UNCHANGED <<dataBuffer, misread>>
    BY <1>2, <2>1, <2>5 DEF Unread
  <2> QED BY <2>2, <2>3, <2>4, <2>5
<1>7. CASE ReadKey \/ HandlerTask \/ UNCHANGED inputVars
  BY <1>2, <1>7
  DEF ReadKey, HandlerTask, inputVars, mouseVars, bufferVars, deviceVars, Unread
<1> QED BY <1>3, <1>4, <1>5, <1>6, <1>7 DEF InputNext

\* The driver takes three bytes for a packet that are not one at most once for every
\* byte of the mouse that was lost on the line or read by Mouse::Init: it finds the
\* beginning of a packet again by the bit in the first byte, however many bytes came.
THEOREM Realigned == InputSpec => []MouseRealigns
<1>1. InputInit => PacketInv /\ AnswersInv
  BY PacketInit, AnswersInit
<1>2. PacketInv /\ AnswersInv /\ [InputNext]_inputVars => (PacketInv /\ AnswersInv)'
  BY PacketNext, AnswersNext
<1>3. PacketInv => MouseRealigns
  BY DEF PacketInv, MouseRealigns
<1> QED BY <1>1, <1>2, <1>3, PTL DEF InputSpec

-----------------------------------------------------------------------------
(* The events of the mouse.                                                *)

ButtonEvents == {e \in [button : Range(Buttons) \cup {Movement}, down : BOOLEAN] :
                   e.button = Movement => ~e.down}

\* Who is told an event.
Told(known, e) == IF e.down THEN known \cup {e.button} ELSE known \ {e.button}

\* KnownAfter, of those who know which buttons are down and are told the events from k on.
Known(known, events, k) ==
  {b \in Range(Buttons) :
     LET about == {i \in DOMAIN events : i >= k /\ events[i].button = b}
     IN IF about = {} THEN b \in known
        ELSE \E i \in about : events[i].down /\ \A j \in about : j <= i}

LEMMA KnownIs ==
  ASSUME NEW known, NEW events \in Seq(ButtonEvents), NEW k \in Nat, NEW b \in Range(Buttons),
         NEW n, n = Len(events)
  PROVE  b \in Known(known, events, k) <=>
           \/ b \in known /\ \A i \in 1..n : i >= k => events[i].button # b
           \/ \E i \in 1..n :
                /\ i >= k /\ events[i].button = b /\ events[i].down
                /\ \A j \in 1..n : j >= k /\ events[j].button = b => j <= i
<1> DEFINE about == {i \in 1..n : i >= k /\ events[i].button = b}
<1>1. DOMAIN events = 1..n
  BY LenProperties
<1>2. b \in Known(known, events, k) <=>
        IF about = {} THEN b \in known
        ELSE \E i \in about : events[i].down /\ \A j \in about : j <= i
  BY <1>1 DEF Known
<1> QED BY <1>2

LEMMA KnownOfNone ==
  ASSUME NEW known \in SUBSET Range(Buttons), NEW events \in Seq(ButtonEvents), NEW k \in Nat,
         k > Len(events)
  PROVE  Known(known, events, k) = known
<1> DEFINE n == Len(events)
<1>1. n \in Nat
  OBVIOUS
<1> HIDE DEF n
<1>2. \A i \in 1..n : ~(i >= k)
  BY <1>1 DEF n
<1>3. \A b \in Range(Buttons) : b \in Known(known, events, k) <=> b \in known
  BY <1>2, KnownIs DEF n
<1> QED BY <1>3 DEF Known

LEMMA KnownOfMore ==
  ASSUME NEW known, NEW events \in Seq(ButtonEvents), NEW e \in ButtonEvents,
         NEW k \in 1..(Len(events) + 1)
  PROVE  Known(known, Append(events, e), k) = Told(Known(known, events, k), e) \cap Range(Buttons)
<1> DEFINE n == Len(events)
           more == Append(events, e)
<1>1. /\ n \in Nat /\ more \in Seq(ButtonEvents) /\ n + 1 = Len(more)
      /\ more[n + 1] = e /\ \A i \in 1..n : more[i] = events[i]
  BY AppendProperties, LenProperties
<1> HIDE DEF n, more
<1>2. k \in 1..(n + 1) /\ k \in Nat /\ n + 1 >= k /\ n + 1 \in 1..(n + 1)
  BY <1>1 DEF n
<1>3. \A i \in 1..(n + 1) : i \in 1..n \/ i = n + 1
  BY <1>1
<1>4. \A i \in 1..n : i \in 1..(n + 1) /\ i <= n + 1 /\ ~(n + 1 <= i)
  BY <1>1
<1>5. ASSUME NEW b \in Range(Buttons)
      PROVE  b \in Known(known, more, k) <=> b \in Told(Known(known, events, k), e)
  <2>1. b \in Known(known, more, k) <=>
           \/ b \in known /\ \A i \in 1..(n + 1) : i >= k => more[i].button # b
           \/ \E i \in 1..(n + 1) :
                /\ i >= k /\ more[i].button = b /\ more[i].down
                /\ \A j \in 1..(n + 1) : j >= k /\ more[j].button = b => j <= i
    <3> DEFINE m == n + 1
    <3>1. m = Len(more) /\ more \in Seq(ButtonEvents) /\ k \in Nat
      BY <1>1, <1>2
    <3> HIDE DEF m
    <3>2. b \in Known(known, more, k) <=>
           \/ b \in known /\ \A i \in 1..m : i >= k => more[i].button # b
           \/ \E i \in 1..m :
                /\ i >= k /\ more[i].button = b /\ more[i].down
                /\ \A j \in 1..m : j >= k /\ more[j].button = b => j <= i
      BY <3>1, KnownIs
    <3> QED BY <3>2 DEF m
  <2>2. CASE e.button = b
    <3>1. b \in Told(Known(known, events, k), e) <=> e.down
      BY <2>2 DEF Told
    <3>2. b \in Known(known, more, k) <=> e.down
      BY <1>1, <1>2, <1>3, <1>4, <2>1, <2>2
    <3> QED BY <3>1, <3>2
  <2>3. CASE e.button # b
    <3>1. b \in Told(Known(known, events, k), e) <=> b \in Known(known, events, k)
      BY <2>3 DEF Told
    <3>2. b \in Known(known, events, k) <=>
           \/ b \in known /\ \A i \in 1..n : i >= k => events[i].button # b
           \/ \E i \in 1..n :
                /\ i >= k /\ events[i].button = b /\ events[i].down
                /\ \A j \in 1..n : j >= k /\ events[j].button = b => j <= i
      BY <1>2, KnownIs DEF n
    <3>3. (b \in known /\ \A i \in 1..(n + 1) : i >= k => more[i].button # b) <=>
          (b \in known /\ \A i \in 1..n : i >= k => events[i].button # b)
      BY <1>1, <1>3, <1>4, <2>3
    <3>4. (\E i \in 1..(n + 1) :
                /\ i >= k /\ more[i].button = b /\ more[i].down
                /\ \A j \in 1..(n + 1) : j >= k /\ more[j].button = b => j <= i) <=>
          (\E i \in 1..n :
                /\ i >= k /\ events[i].button = b /\ events[i].down
                /\ \A j \in 1..n : j >= k /\ events[j].button = b => j <= i)
      BY <1>1, <1>3, <1>4, <2>3
    <3> QED BY <2>1, <3>1, <3>2, <3>3, <3>4
  <2> QED BY <2>2, <2>3
<1> QED BY <1>5 DEF Known, more

LEMMA KnownOfFirst ==
  ASSUME NEW known, NEW events \in Seq(ButtonEvents), NEW k \in 1..Len(events)
  PROVE  Known(known, events, k) = Known(Told(known, events[k]), events, k + 1)
<1> DEFINE n == Len(events)
           e == events[k]
<1>1. n \in Nat /\ k \in 1..n /\ k \in Nat /\ k + 1 \in Nat
  OBVIOUS
<1> HIDE DEF n
<1>2. \A i \in 1..n : /\ i >= k <=> (i = k \/ i >= k + 1)
                      /\ ~(i >= k + 1 /\ i <= k)
                      /\ i >= k + 1 => k <= i /\ i # k
  BY <1>1
<1>3. k >= k /\ k <= k /\ ~(k >= k + 1)
  BY <1>1
<1>4. ASSUME NEW b \in Range(Buttons)
      PROVE  b \in Known(known, events, k) <=> b \in Known(Told(known, e), events, k + 1)
  <2>1. b \in Known(known, events, k) <=>
           \/ b \in known /\ \A i \in 1..n : i >= k => events[i].button # b
           \/ \E i \in 1..n :
                /\ i >= k /\ events[i].button = b /\ events[i].down
                /\ \A j \in 1..n : j >= k /\ events[j].button = b => j <= i
    BY <1>1, KnownIs DEF n
  <2>2. b \in Known(Told(known, e), events, k + 1) <=>
           \/ b \in Told(known, e) /\ \A i \in 1..n : i >= k + 1 => events[i].button # b
           \/ \E i \in 1..n :
                /\ i >= k + 1 /\ events[i].button = b /\ events[i].down
                /\ \A j \in 1..n : j >= k + 1 /\ events[j].button = b => j <= i
    <3> DEFINE after == Told(known, e)
    <3> HIDE DEF after
    <3>1. b \in Known(after, events, k + 1) <=>
           \/ b \in after /\ \A i \in 1..n : i >= k + 1 => events[i].button # b
           \/ \E i \in 1..n :
                /\ i >= k + 1 /\ events[i].button = b /\ events[i].down
                /\ \A j \in 1..n : j >= k + 1 /\ events[j].button = b => j <= i
      BY <1>1, KnownIs DEF n
    <3> QED BY <3>1 DEF after
  <2>3. b \in Told(known, e) <=> IF e.button = b THEN e.down ELSE b \in known
    BY DEF Told
  <2>4. CASE \A i \in 1..n : i >= k + 1 => events[i].button # b
    BY <1>1, <1>2, <1>3, <2>1, <2>2, <2>3, <2>4
  <2>5. CASE \E i \in 1..n : i >= k + 1 /\ events[i].button = b
    BY <1>1, <1>2, <1>3, <2>1, <2>2, <2>5
  <2> QED BY <2>4, <2>5
<1> QED BY <1>4 DEF Known

\* A list of the mouse's events and their order.
Carries(l, s) ==
  /\ Linked(l, s, {}) /\ l.size \in Nat
  /\ \A j \in DOMAIN l.items : l.items[j].data \in ButtonEvents

\* More events were put behind those of l: who would have known from after them all,
\* knows to.
Adds(l, s, p, t, from, to) ==
  /\ Carries(p, t) /\ Len(s) <= Len(t) /\ \A k \in 1..Len(s) : t[k] = s[k]
  /\ l.size = Len(s) => p.size = Len(t)
  /\ \A known \in SUBSET Range(Buttons), k \in 1..(Len(s) + 1) :
       Known(known, DataIn(l, s), k) = from => Known(known, DataIn(p, t), k) = to

LEMMA DataIsEvents ==
  ASSUME NEW l, NEW s \in Orders, Carries(l, s)
  PROVE  DataIn(l, s) \in Seq(ButtonEvents) /\ Len(DataIn(l, s)) = Len(s)
<1>1. Len(s) \in Nat /\ \A k \in 1..Len(s) : s[k] \in Range(s)
  BY Order
<1>2. \A k \in 1..Len(s) : l.items[s[k]].data \in ButtonEvents
  BY <1>1 DEF Carries, Linked, Chained
<1> QED BY <1>1, <1>2 DEF DataIn

LEMMA AddsNone ==
  ASSUME NEW l, NEW s \in Orders, Carries(l, s), NEW known
  PROVE  Adds(l, s, l, s, known, known)
<1>1. Len(s) \in Nat
  BY Order
<1> QED BY <1>1 DEF Adds

LEMMA AddsBoth ==
  ASSUME NEW l, NEW s \in Orders, NEW p, NEW t \in Orders, NEW q, NEW u \in Orders,
         NEW from, NEW to, NEW then, Adds(l, s, p, t, from, to), Adds(p, t, q, u, to, then)
  PROVE  Adds(l, s, q, u, from, then)
<1>1. Len(s) \in Nat /\ Len(t) \in Nat /\ Len(u) \in Nat
  BY Order
<1> DEFINE a == Len(s)
           b == Len(t)
           c == Len(u)
<1> HIDE DEF a, b, c
<1>2. a \in Nat /\ b \in Nat /\ c \in Nat /\ a <= b /\ b <= c
  BY <1>1 DEF Adds, a, b, c
<1>3. a <= c /\ 1..a \subseteq 1..b /\ 1..(a + 1) \subseteq 1..(b + 1)
  BY <1>2
<1>4. \A k \in 1..a : u[k] = s[k]
  BY <1>3 DEF Adds, a, b
<1>5. \A known \in SUBSET Range(Buttons), k \in 1..(a + 1) :
        Known(known, DataIn(l, s), k) = from => Known(known, DataIn(q, u), k) = then
  BY <1>3 DEF Adds, a, b
<1>6. Carries(q, u) /\ (l.size = a => q.size = c)
  BY DEF Adds, a, c
<1> QED BY <1>3, <1>4, <1>5, <1>6 DEF Adds, a, c

LEMMA PushBackAlone ==
  ASSUME NEW l, NEW s \in Orders, Linked(l, s, {}), NEW data, l.size \in Nat
  PROVE  Pushed(l, s, {}, data, PushBack(l, data), Append(s, NewItem(l)))
BY FS_EmptySet, PushBackEffect

LEMMA AddsOne ==
  ASSUME NEW l, NEW s \in Orders, Carries(l, s), NEW e \in ButtonEvents, NEW from
  PROVE  \E t \in Orders : Adds(l, s, PushBack(l, e), t, from, Told(from, e) \cap Range(Buttons))
<1> DEFINE p == PushBack(l, e)
           i == NewItem(l)
           t == Append(s, i)
<1>2. /\ t \in Orders /\ Linked(p, t, {}) /\ p.size = l.size + 1
      /\ DOMAIN p.items = DOMAIN l.items \cup {i} /\ p.items[i].data = e
      /\ \A j \in DOMAIN l.items : p.items[j].data = l.items[j].data
      /\ DataIn(p, t) = Append(DataIn(l, s), e)
  <2>1. Linked(l, s, {}) /\ l.size \in Nat
    BY DEF Carries
  <2> QED BY <2>1, PushBackAlone DEF Pushed
<1>3. Len(t) = Len(s) + 1 /\ Len(s) \in Nat /\ \A k \in 1..Len(s) : t[k] = s[k]
  <2>1. Len(s) \in Nat
    BY Order
  <2> QED BY <2>1, AppendProperties DEF Orders
<1>4. Carries(p, t)
  <2>1. l.size + 1 \in Nat
    BY DEF Carries
  <2>2. \A j \in DOMAIN p.items : p.items[j].data \in ButtonEvents
    BY <1>2 DEF Carries
  <2> QED BY <1>2, <2>1, <2>2 DEF Carries
<1> HIDE DEF p, t
<1>5. ASSUME NEW known \in SUBSET Range(Buttons), NEW k \in 1..(Len(s) + 1),
             Known(known, DataIn(l, s), k) = from
      PROVE  Known(known, DataIn(p, t), k) = Told(from, e) \cap Range(Buttons)
  <2>1. DataIn(l, s) \in Seq(ButtonEvents) /\ Len(DataIn(l, s)) = Len(s)
    BY DataIsEvents
  <2> QED BY <1>2, <1>5, <2>1, KnownOfMore
<1>6. Len(s) <= Len(t) /\ (l.size = Len(s) => p.size = Len(t))
  BY <1>2, <1>3
<1> QED BY <1>2, <1>3, <1>4, <1>5, <1>6 DEF Adds, p

\* The function of PushButtons, place by place.
LEMMA PushedButtons ==
  ASSUME NEW l, NEW byte
  PROVE  \E f : /\ f[Len(Buttons)] = PushButtons(l, byte)
                /\ f[0] = l
                /\ \A k \in 1..Len(Buttons) :
                     f[k] = IF Changed(Buttons[k], byte)
                            THEN PushBack(f[k - 1], [button |-> Buttons[k], down |-> Buttons[k] \in byte.down])
                            ELSE f[k - 1]
<1> DEFINE Next(k, m) == IF Changed(Buttons[k], byte)
                         THEN PushBack(m, [button |-> Buttons[k], down |-> Buttons[k] \in byte.down])
                         ELSE m
           Is(f, n) == f = [k \in 0..n |-> IF k = 0 THEN l ELSE Next(k, f[k - 1])]
           S == {n \in Nat : \E f : Is(f, n)}
           last == Len(Buttons)
<1>1. last \in Nat
  BY InputAssumption, LenProperties
<1>2. PushButtons(l, byte) = (CHOOSE f : Is(f, last))[last]
  BY DEF PushButtons
<1> HIDE DEF Next, last
<1>3. 0 \in S
  <2>1. Is([k \in 0..0 |-> l], 0)
    OBVIOUS
  <2> QED BY <2>1
<1>4. ASSUME NEW n \in Nat, n \in S PROVE n + 1 \in S
  <2>1. PICK f : Is(f, n)
    BY <1>4
  <2> DEFINE g == [k \in 0..(n + 1) |-> IF k = n + 1 THEN Next(k, f[n]) ELSE f[k]]
  <2>2. \A k \in 0..n : g[k] = f[k] /\ f[k] = IF k = 0 THEN l ELSE Next(k, f[k - 1])
    BY <2>1
  <2>3. ASSUME NEW k \in 0..(n + 1) PROVE g[k] = IF k = 0 THEN l ELSE Next(k, g[k - 1])
    <3>1. CASE k = n + 1
      <4>1. g[n] = f[n] /\ k - 1 = n /\ k # 0
        BY <2>2, <3>1
      <4> QED BY <3>1, <4>1
    <3>2. CASE k # n + 1 /\ k # 0
      <4>1. k \in 0..n /\ k - 1 \in 0..n
        BY <3>2
      <4> QED BY <2>2, <3>2, <4>1
    <3>3. CASE k = 0
      <4>1. k \in 0..n /\ k # n + 1
        BY <3>3
      <4> QED BY <2>2, <3>3, <4>1
    <3> QED BY <3>1, <3>2, <3>3
  <2>4. Is(g, n + 1)
    <3>1. g = [k \in 0..(n + 1) |-> g[k]]
      OBVIOUS
    <3> HIDE DEF g
    <3> QED BY <2>3, <3>1
  <2> HIDE DEF Is, g
  <2> QED BY <2>4
<1>5. last \in S
  <2> HIDE DEF S
  <2> QED BY <1>1, <1>3, <1>4, Numbers
<1> DEFINE f == CHOOSE f : Is(f, last)
<1>6. Is(f, last)
  <2> HIDE DEF Is
  <2> QED BY <1>5
<1> HIDE DEF f
<1>7. f[0] = l /\ \A k \in 1..last : f[k] = Next(k, f[k - 1])
  <2>1. 0 \in 0..last /\ \A k \in 1..last : k \in 0..last /\ k # 0
    BY <1>1
  <2> QED BY <1>6, <2>1
<1> QED BY <1>2, <1>7 DEF f, Next, last

LEMMA ButtonsPushed ==
  ASSUME NEW l, NEW s \in Orders, Carries(l, s), NEW byte \in MouseBytes,
         buttonsStates \in SUBSET Range(Buttons)
  PROVE  \E t \in Orders : Adds(l, s, PushButtons(l, byte), t, buttonsStates, byte.down)
<1> DEFINE R == Range(Buttons)
           down == byte.down
           last == Len(Buttons)
           Upto(i) == {b \in R : IF \E j \in 1..i : Buttons[j] = b THEN b \in down
                                 ELSE b \in buttonsStates}
<1>1. last \in Nat /\ DOMAIN Buttons = 1..last /\ down \in SUBSET R
  BY InputAssumption, LenProperties DEF MouseBytes
<1>2. \A k \in 1..last : Buttons[k] \in R /\ Buttons[k] # Movement
  BY <1>1, InputAssumption DEF Range
<1>3. PICK f : /\ f[last] = PushButtons(l, byte) /\ f[0] = l
               /\ \A k \in 1..last :
                     f[k] = IF Changed(Buttons[k], byte)
                            THEN PushBack(f[k - 1], [button |-> Buttons[k], down |-> Buttons[k] \in down])
                            ELSE f[k - 1]
  BY PushedButtons
<1> HIDE DEF last, down
<1> DEFINE S == {i \in Nat : i <= last => \E t \in Orders : Adds(l, s, f[i], t, buttonsStates, Upto(i))}
<1>4. 0 \in S
  <2>1. Upto(0) = buttonsStates
    BY <1>1
  <2>2. Adds(l, s, f[0], s, buttonsStates, Upto(0))
    BY <1>3, <2>1, AddsNone
  <2> QED BY <2>2
<1>5. ASSUME NEW i \in Nat, i \in S PROVE i + 1 \in S
  <2> SUFFICES ASSUME i + 1 <= last
               PROVE  \E t \in Orders : Adds(l, s, f[i + 1], t, buttonsStates, Upto(i + 1))
    OBVIOUS
  <2>1. /\ i <= last /\ i + 1 \in 1..last /\ (i + 1) - 1 = i
        /\ \A j \in 1..(i + 1) : j \in 1..i \/ j = i + 1
        /\ \A j \in 1..i : j \in 1..(i + 1)
    BY <1>1
  <2>2. PICK t \in Orders : Adds(l, s, f[i], t, buttonsStates, Upto(i))
    BY <1>5, <2>1
  <2> DEFINE b == Buttons[i + 1]
             e == [button |-> b, down |-> b \in down]
  <2>3. b \in R /\ b # Movement
    BY <1>2, <2>1
  <2>4. CASE Changed(b, byte)
    <3>1. e \in ButtonEvents
      BY <2>3 DEF ButtonEvents
    <3>2. f[i + 1] = PushBack(f[i], e)
      BY <1>3, <2>1, <2>4
    <3>3. Told(Upto(i), e) \cap R = Upto(i + 1)
      <4>1. ASSUME NEW c \in R PROVE c \in Told(Upto(i), e) <=> c \in Upto(i + 1)
        <5>1. CASE c = b
          <6>1. c \in Told(Upto(i), e) <=> c \in down
            BY <5>1 DEF Told
          <6>2. c \in Upto(i + 1) <=> c \in down
            BY <2>1, <5>1
          <6> QED BY <6>1, <6>2
        <5>2. CASE c # b
          <6>1. c \in Told(Upto(i), e) <=> c \in Upto(i)
            BY <5>2 DEF Told
          <6>2. c \in Upto(i + 1) <=> c \in Upto(i)
            BY <2>1, <5>2
          <6> QED BY <6>1, <6>2
        <5> QED BY <5>1, <5>2
      <4> QED BY <4>1
    <3> HIDE DEF e, Upto
    <3>4. Carries(f[i], t)
      BY <2>2 DEF Adds
    <3>5. PICK u \in Orders : Adds(f[i], t, f[i + 1], u, Upto(i), Upto(i + 1))
      BY <3>1, <3>2, <3>3, <3>4, AddsOne
    <3> QED BY <2>2, <3>5, AddsBoth
  <2>5. CASE ~Changed(b, byte)
    <3>1. f[i + 1] = f[i]
      BY <1>3, <2>1, <2>5
    <3>2. b \in down <=> b \in buttonsStates
      BY <2>5 DEF Changed, down
    <3>3. Upto(i + 1) = Upto(i)
      BY <2>1, <2>3, <3>2
    <3> HIDE DEF Upto
    <3> QED BY <2>2, <3>1, <3>3
  <2> QED BY <2>4, <2>5
<1>6. last \in S
  <2> HIDE DEF S
  <2> QED BY <1>1, <1>4, <1>5, Numbers
<1>7. Upto(last) = down
  <2>1. \A b \in R : \E j \in 1..last : Buttons[j] = b
    BY <1>1 DEF Range
  <2> QED BY <1>1, <2>1
<1> HIDE DEF Upto
<1>8. last <= last
  BY <1>1
<1> QED BY <1>3, <1>6, <1>7, <1>8 DEF down

\* A packet's events tell what the packet tells.
LEMMA EventsPushed ==
  ASSUME NEW l, NEW s \in Orders, Carries(l, s), NEW byte \in MouseBytes,
         buttonsStates \in SUBSET Range(Buttons)
  PROVE  \E t \in Orders : Adds(l, s, PushEvents(l, byte), t, buttonsStates, byte.down)
<1>1. PICK t \in Orders : Adds(l, s, PushButtons(l, byte), t, buttonsStates, byte.down)
  BY ButtonsPushed
<1>2. CASE byte.moves
  <2> DEFINE e == [button |-> Movement, down |-> FALSE]
             m == PushButtons(l, byte)
  <2>1. e \in ButtonEvents
    BY DEF ButtonEvents
  <2>2. Told(byte.down, e) \cap Range(Buttons) = byte.down
    BY InputAssumption DEF Told, MouseBytes
  <2>3. PushEvents(l, byte) = PushBack(m, e)
    BY <1>2 DEF PushEvents
  <2>4. Carries(m, t)
    BY <1>1 DEF Adds
  <2> HIDE DEF e, m
  <2>5. PICK u \in Orders : Adds(m, t, PushBack(m, e), u, byte.down, byte.down)
    BY <2>1, <2>2, <2>4, AddsOne
  <2> QED BY <1>1, <2>3, <2>5, AddsBoth DEF m
<1>3. CASE ~byte.moves
  BY <1>1, <1>3 DEF PushEvents
<1> QED BY <1>2, <1>3

\* A packet without events tells nothing new.
LEMMA NothingTold ==
  ASSUME NEW l, NEW byte \in MouseBytes, buttonsStates \in SUBSET Range(Buttons), ~Tells(byte)
  PROVE  PushEvents(l, byte) = l /\ byte.down = buttonsStates
<1> DEFINE last == Len(Buttons)
<1>1. last \in Nat /\ DOMAIN Buttons = 1..last
  BY InputAssumption, LenProperties
<1>2. ~byte.moves /\ \A k \in 1..last : ~Changed(Buttons[k], byte)
  BY <1>1 DEF Tells
<1>3. PICK f : /\ f[last] = PushButtons(l, byte) /\ f[0] = l
               /\ \A k \in 1..last :
                     f[k] = IF Changed(Buttons[k], byte)
                            THEN PushBack(f[k - 1], [button |-> Buttons[k], down |-> Buttons[k] \in byte.down])
                            ELSE f[k - 1]
  BY PushedButtons
<1> HIDE DEF last
<1> DEFINE S == {i \in Nat : i <= last => f[i] = l}
<1>4. 0 \in S
  BY <1>3
<1>5. ASSUME NEW i \in Nat, i \in S PROVE i + 1 \in S
  <2> SUFFICES ASSUME i + 1 <= last PROVE f[i + 1] = l
    OBVIOUS
  <2>1. i <= last /\ i + 1 \in 1..last /\ (i + 1) - 1 = i
    BY <1>1
  <2> QED BY <1>2, <1>3, <1>5, <2>1
<1>6. last \in S
  <2> HIDE DEF S
  <2> QED BY <1>1, <1>4, <1>5, Numbers
<1>7. PushEvents(l, byte) = l
  <2>1. last <= last
    BY <1>1
  <2> QED BY <1>2, <1>3, <1>6, <2>1 DEF PushEvents
<1>8. byte.down = buttonsStates
  <2>1. byte.down \in SUBSET Range(Buttons)
    BY DEF MouseBytes
  <2>2. \A b \in Range(Buttons) : \E k \in 1..last : Buttons[k] = b
    BY <1>1 DEF Range
  <2>3. \A b \in Range(Buttons) : b \in byte.down <=> b \in buttonsStates
    BY <1>2, <2>2 DEF Changed
  <2> QED BY <2>1, <2>3
<1> QED BY <1>7, <1>8

\* Clear takes the first item away.
LEMMA FirstCleared ==
  ASSUME NEW l, NEW s \in Orders, s # <<>>, Chained(l, s, {})
  PROVE  /\ l.head = s[1] /\ l.head # Null
         /\ Chained([Delete(l, l.head) EXCEPT !.head = l.items[l.head].next], Tail(s), {})
<1> DEFINE x == s[1]
           h == l.items[x].next
           m == [l EXCEPT !.head = h]
           kept == [j \in DOMAIN l.items \ {x} |-> l.items[j]]
           q == [Delete(l, l.head) EXCEPT !.head = l.items[l.head].next]
           t == Tail(s)
<1>1. l.head = x /\ x \in Nat \ {Null} /\ x \in DOMAIN l.items
  <2>1. 1 \in 1..Len(s)
    <3>1. \A n \in Nat : n # 0 => 1 \in 1..n
      OBVIOUS
    <3> QED BY <3>1, Order
  <2>2. x \in Nat \ {Null} /\ x \in Range(s)
    BY <2>1, Order
  <2> QED BY <2>2 DEF Chained
<1>2. Chained(m, t, {x})
  BY FirstOut
<1>3. t \in Orders
  BY TailOrder
<1>4. IsList(l)
  BY DEF Chained
<1>5. q = [head |-> h, tail |-> l.tail, size |-> l.size, items |-> kept, broken |-> l.broken]
  <2>1. Delete(l, x) = [l EXCEPT !.items = kept]
    BY <1>1 DEF Delete
  <2>2. Delete(l, x) = [head |-> l.head, tail |-> l.tail, size |-> l.size, items |-> kept,
                        broken |-> l.broken]
    <3> HIDE DEF kept
    <3> QED BY <1>4, <2>1 DEF IsList
  <2> HIDE DEF kept, h
  <2> QED BY <1>1, <2>2 DEF h
<1>6. m = [head |-> h, tail |-> l.tail, size |-> l.size, items |-> l.items, broken |-> l.broken]
  <2> HIDE DEF h
  <2> QED BY <1>4 DEF IsList
<1>7. kept = [j \in DOMAIN kept |-> [data |-> kept[j].data, next |-> kept[j].next]]
  <2>1. \A j \in DOMAIN l.items : l.items[j] = [data |-> l.items[j].data, next |-> l.items[j].next]
    BY <1>4 DEF IsList
  <2> QED BY <2>1
<1>8. DOMAIN kept = DOMAIN l.items \ {x} /\ \A j \in DOMAIN kept : kept[j] = l.items[j]
  OBVIOUS
<1> HIDE DEF m, q, kept, h, t, x
<1>9. IsList(q)
  BY <1>5, <1>7 DEF IsList
<1>10. DOMAIN kept = Range(t)
  BY <1>2, <1>6, <1>8 DEF Chained
<1>11. \A k \in DOMAIN t : t[k] \in Range(t)
  BY DEF Range
<1>12. q.items = kept /\ q.head = m.head /\ q.broken = m.broken /\ m.items = l.items
  BY <1>5, <1>6
<1>13. \A k \in DOMAIN t : q.items[t[k]].next = IF k = Len(t) THEN Null ELSE t[k + 1]
  BY <1>2, <1>8, <1>10, <1>11, <1>12 DEF Chained
<1>14. Chained(q, t, {})
  BY <1>2, <1>9, <1>10, <1>12, <1>13 DEF Chained
<1> QED BY <1>1, <1>14 DEF x, q, t

\* The list in every step of the thread, which has told the events before the k-th.
TaskList ==
  \/ /\ task.place \in {"wait", "woken"}
     /\ \E s \in Orders : /\ Carries(mouseEvents, s) /\ mouseEvents.size = Len(s)
                          /\ Known(told, DataIn(mouseEvents, s), 1) = buttonsStates
  \/ /\ task.place = "tell" /\ task.item # Null
     /\ \E s \in Orders : \E k \in 1..Len(s) :
          /\ Carries(mouseEvents, s) /\ task.item = s[k]
          /\ Known(told, DataIn(mouseEvents, s), k) = buttonsStates
  \/ /\ task.place = "tell" /\ task.item = Null /\ told = buttonsStates
     /\ \E s \in Orders : Carries(mouseEvents, s)
  \/ /\ task.place = "clear" /\ told = buttonsStates
     /\ \E s \in Orders : Chained(mouseEvents, s, {})
  \/ /\ task.place = "reset" /\ told = buttonsStates
     /\ Chained(mouseEvents, <<>>, {})

\* What MouseEventsKept needs to be inductive.
TaskInv ==
  /\ buttonsStates \in SUBSET Range(Buttons)
  /\ ~mouseTorn =>
       /\ told \in SUBSET Range(Buttons)
       /\ task = [place |-> task.place, item |-> task.item]
       /\ TaskList

LEMMA CarriesNothing ==
  ASSUME NEW l, Chained(l, <<>>, {}), l.tail = Null, l.size = 0
  PROVE  <<>> \in Orders /\ Len(<<>>) = 0 /\ Carries(l, <<>>)
<1>1. <<>> \in Orders /\ Len(<<>>) = 0 /\ Range(<<>>) = {}
  BY EmptySeq DEF Orders, Range
<1>2. Linked(l, <<>>, {})
  BY DEF Linked
<1>3. DOMAIN l.items = {}
  BY <1>1 DEF Chained
<1> QED BY <1>1, <1>2, <1>3 DEF Carries

LEMMA TaskInit == InputInit => TaskInv
<1> SUFFICES ASSUME InputInit PROVE TaskInv
  OBVIOUS
<1>1. /\ mouseEvents = EmptyList /\ told = {} /\ buttonsStates = {}
      /\ task = [place |-> "woken", item |-> Null]
  BY DEF InputInit
<1>2. Range(<<>>) = {} /\ DOMAIN <<>> = {}
  BY DEF Range
<1>3. Chained(mouseEvents, <<>>, {}) /\ mouseEvents.tail = Null /\ mouseEvents.size = 0
  BY <1>1, <1>2 DEF Chained, IsList, EmptyList
<1>4. <<>> \in Orders /\ Len(<<>>) = 0 /\ Carries(mouseEvents, <<>>)
  BY <1>3, CarriesNothing
<1>5. Known(told, DataIn(mouseEvents, <<>>), 1) = buttonsStates
  <2>1. DataIn(mouseEvents, <<>>) \in Seq(ButtonEvents) /\ Len(DataIn(mouseEvents, <<>>)) = 0
    BY <1>4, DataIsEvents
  <2>2. 1 > 0 /\ told \in SUBSET Range(Buttons) /\ 1 \in Nat
    BY <1>1
  <2> QED BY <1>1, <2>1, <2>2, KnownOfNone
<1>6. TaskList
  BY <1>1, <1>3, <1>4, <1>5 DEF TaskList
<1> QED BY <1>1, <1>6 DEF TaskInv

\* The handler of the mouse, in any step of the thread.
LEMMA TaskHandler ==
  ASSUME TaskInv, PacketInv, NEW byte \in MouseBytes, MouseFIFOAdd(byte), UNCHANGED <<task, told>>
  PROVE  TaskInv'
<1> DEFINE b == Append(dataBuffer, byte)
<1>1. b \in Seq(MouseBytes) /\ Len(b) \in Nat
  <2>1. dataBuffer \in Seq(MouseBytes)
    BY DEF PacketInv
  <2> QED BY <2>1, AppendProperties, LenProperties
<1>2. \/ UNCHANGED <<buttonsStates, mouseEvents, mouseTorn>>
      \/ /\ ~(Len(b) < 3)
         /\ mouseEvents' = PushEvents(mouseEvents, b[1]) /\ buttonsStates' = b[1].down
         /\ mouseTorn' = (mouseTorn \/ (Closing /\ Tells(b[1])))
  BY DEF MouseFIFOAdd
<1>3. CASE UNCHANGED <<buttonsStates, mouseEvents, mouseTorn>>
  BY <1>3 DEF TaskInv, TaskList
<1> DEFINE first == b[1]
<1>4. CASE /\ ~(Len(b) < 3)
           /\ mouseEvents' = PushEvents(mouseEvents, b[1]) /\ buttonsStates' = b[1].down
           /\ mouseTorn' = (mouseTorn \/ (Closing /\ Tells(b[1])))
  <2>1. first \in MouseBytes /\ first.down \in SUBSET Range(Buttons)
    <3>1. 1 \in 1..Len(b)
      BY <1>1, <1>4
    <3> HIDE DEF b
    <3>2. b[1] \in MouseBytes
      BY <1>1, <3>1, BytesOf
    <3> QED BY <3>2 DEF MouseBytes
  <2> HIDE DEF first
  <2>2. /\ mouseEvents' = PushEvents(mouseEvents, first) /\ buttonsStates' = first.down
        /\ mouseTorn' = (mouseTorn \/ (Closing /\ Tells(first)))
    BY <1>4 DEF first
  <2>3. buttonsStates' \in SUBSET Range(Buttons) /\ buttonsStates \in SUBSET Range(Buttons)
    BY <2>1, <2>2 DEF TaskInv
  <2> SUFFICES ASSUME ~mouseTorn' PROVE TaskList'
    BY <2>2, <2>3 DEF TaskInv
  <2>4. ~mouseTorn /\ told \in SUBSET Range(Buttons) /\ TaskList /\ ~(Closing /\ Tells(first))
    BY <2>2 DEF TaskInv
  <2>5. CASE ~Tells(first)
    <3>1. mouseEvents' = mouseEvents /\ buttonsStates' = buttonsStates
      BY <2>1, <2>2, <2>3, <2>5, NothingTold
    <3> QED BY <2>4, <3>1 DEF TaskList
  <2>6. CASE ~Closing
    <3>1. CASE task.place \in {"wait", "woken"}
      <4>1. PICK s \in Orders : /\ Carries(mouseEvents, s) /\ mouseEvents.size = Len(s)
                                /\ Known(told, DataIn(mouseEvents, s), 1) = buttonsStates
        BY <2>4, <3>1 DEF TaskList
      <4>2. PICK t \in Orders : Adds(mouseEvents, s, mouseEvents', t, buttonsStates, first.down)
        BY <2>1, <2>2, <2>3, <4>1, EventsPushed
      <4>3. 1 \in 1..(Len(s) + 1)
        <5>1. \A n \in Nat : 1 \in 1..(n + 1)
          OBVIOUS
        <5> QED BY <5>1, Order
      <4>4. Carries(mouseEvents', t) /\ mouseEvents'.size = Len(t)
        BY <4>1, <4>2 DEF Adds
      <4>5. Known(told, DataIn(mouseEvents', t), 1) = first.down
        BY <2>4, <4>1, <4>2, <4>3 DEF Adds
      <4> QED BY <2>2, <3>1, <4>4, <4>5 DEF TaskList
    <3>2. CASE task.place = "tell" /\ task.item # Null
      <4> DEFINE FromHere(s, k) == /\ Carries(mouseEvents, s) /\ task.item = s[k]
                                /\ Known(told, DataIn(mouseEvents, s), k) = buttonsStates
      <4>0. PICK s \in Orders : \E k \in 1..Len(s) : FromHere(s, k)
        BY <2>4, <3>2 DEF TaskList
      <4>1. PICK k \in 1..Len(s) : FromHere(s, k)
        BY <4>0
      <4>2. PICK t \in Orders : Adds(mouseEvents, s, mouseEvents', t, buttonsStates, first.down)
        BY <2>1, <2>2, <2>3, <4>1, EventsPushed
      <4>3. k \in 1..(Len(s) + 1) /\ k \in 1..Len(t)
        <5>1. \A m, n \in Nat : \A i \in 1..m : m <= n => i \in 1..(m + 1) /\ i \in 1..n
          OBVIOUS
        <5>2. Len(s) <= Len(t)
          BY <4>2 DEF Adds
        <5> QED BY <5>1, <5>2, Order
      <4>4. Carries(mouseEvents', t) /\ t[k] = s[k]
        BY <4>2 DEF Adds
      <4>5. Known(told, DataIn(mouseEvents', t), k) = first.down
        BY <2>4, <4>1, <4>2, <4>3 DEF Adds
      <4> QED BY <2>2, <3>2, <4>1, <4>3, <4>4, <4>5 DEF TaskList
    <3> QED BY <2>4, <2>6, <3>1, <3>2 DEF TaskList, Closing
  <2> QED BY <2>4, <2>5, <2>6
<1> QED BY <1>2, <1>3, <1>4

LEMMA TaskStep == TaskInv /\ HandlerTask => TaskInv'
<1> SUFFICES ASSUME TaskInv, HandlerTask PROVE TaskInv'
  OBVIOUS
<1>1. /\ buttonsStates' = buttonsStates /\ mouseTorn' = mouseTorn
      /\ buttonsStates \in SUBSET Range(Buttons)
  BY DEF HandlerTask, TaskInv
<1> SUFFICES ASSUME ~mouseTorn
             PROVE  /\ told' \in SUBSET Range(Buttons)
                    /\ task' = [place |-> task'.place, item |-> task'.item]
                    /\ TaskList'
  BY <1>1 DEF TaskInv
<1>2. /\ told \in SUBSET Range(Buttons) /\ TaskList
      /\ task = [place |-> task.place, item |-> task.item]
  BY DEF TaskInv
<1>3. \A n \in Nat : n # 0 => 1 \in 1..n
  OBVIOUS
<1>4. CASE TaskTell
  <2>1. task.place = "tell" /\ mouseEvents' = mouseEvents
    BY <1>4 DEF TaskTell, Task
  <2>2. CASE task.item = Null
    <3>1. task' = [task EXCEPT !.place = "clear"] /\ told' = told
      BY <1>4, <2>2 DEF TaskTell
    <3>2. task' = [place |-> "clear", item |-> task.item]
      BY <1>2, <3>1
    <3>3. told = buttonsStates /\ \E s \in Orders : Chained(mouseEvents, s, {})
      BY <1>2, <2>1, <2>2 DEF TaskList, Carries, Linked
    <3>4. TaskList'
      BY <1>1, <2>1, <3>1, <3>2, <3>3 DEF TaskList
    <3> QED BY <1>2, <3>1, <3>2, <3>4
  <2>3. CASE task.item # Null
    <3> DEFINE FromHere(s, k) == /\ Carries(mouseEvents, s) /\ task.item = s[k]
                                 /\ Known(told, DataIn(mouseEvents, s), k) = buttonsStates
    <3>0. PICK s \in Orders : \E k \in 1..Len(s) : FromHere(s, k)
      BY <1>2, <2>1, <2>3 DEF TaskList
    <3>1. PICK k \in 1..Len(s) : FromHere(s, k)
      BY <3>0
    <3> DEFINE e == mouseEvents.items[s[k]].data
               n == Len(s)
               events == DataIn(mouseEvents, s)
    <3>2. /\ told' = Told(told, e)
          /\ task' = [task EXCEPT !.item = mouseEvents.items[s[k]].next]
      BY <1>4, <2>3, <3>1 DEF TaskTell, Told
    <3>3. /\ n \in Nat /\ k \in 1..n /\ k \in DOMAIN s
          /\ \A i \in 1..n : s[i] \in Nat \ {Null} /\ s[i] \in Range(s)
      BY Order
    <3>4. /\ mouseEvents.items[s[k]].next = IF k = n THEN Null ELSE s[k + 1]
          /\ e \in ButtonEvents
      BY <3>1, <3>3 DEF Carries, Linked, Chained
    <3>5. told' \in SUBSET Range(Buttons)
      <4>1. e.down => e.button \in Range(Buttons)
        BY <3>4 DEF ButtonEvents
      <4> HIDE DEF e
      <4> QED BY <1>2, <3>2, <4>1 DEF Told
    <3>6. task' = [place |-> "tell", item |-> IF k = n THEN Null ELSE s[k + 1]]
      BY <1>2, <2>1, <3>2, <3>4
    <3>7. events \in Seq(ButtonEvents) /\ Len(events) = n
      BY <3>1, DataIsEvents
    <3>8. events[k] = e
      BY <3>3 DEF DataIn
    <3> HIDE DEF e, n, events
    <3>9. Known(told', events, k + 1) = buttonsStates
      BY <3>1, <3>2, <3>3, <3>7, <3>8, KnownOfFirst DEF events
    <3>10. CASE k = n
      <4>1. k + 1 > n /\ k + 1 \in Nat
        BY <3>3, <3>10
      <4>2. told' = buttonsStates
        BY <3>5, <3>7, <3>9, <4>1, KnownOfNone
      <4>3. TaskList'
        BY <1>1, <2>1, <3>1, <3>6, <3>10, <4>2 DEF TaskList
      <4> QED BY <3>5, <3>6, <4>3
    <3>11. CASE k # n
      <4>1. k + 1 \in 1..n
        BY <3>3, <3>11
      <4>2. s[k + 1] # Null
        BY <3>3, <4>1
      <4>3. TaskList'
        BY <1>1, <2>1, <3>1, <3>6, <3>9, <3>11, <4>1, <4>2 DEF TaskList, events, n
      <4> QED BY <3>5, <3>6, <4>3
    <3> QED BY <3>10, <3>11
  <2> QED BY <2>2, <2>3
<1>5. CASE TaskClear
  <2>1. task.place = "clear" /\ told' = told
    BY <1>5 DEF TaskClear, Task
  <2>2. PICK s \in Orders : Chained(mouseEvents, s, {}) /\ told = buttonsStates
    BY <1>2, <2>1 DEF TaskList
  <2>3. CASE s = <<>>
    <3>1. mouseEvents.head = Null
      BY <2>2, <2>3 DEF Chained
    <3>2. task' = [task EXCEPT !.place = "reset"] /\ mouseEvents' = mouseEvents
      BY <1>5, <3>1 DEF TaskClear
    <3>3. task' = [place |-> "reset", item |-> task.item]
      BY <1>2, <3>2
    <3>4. TaskList'
      BY <1>1, <2>1, <2>2, <2>3, <3>2, <3>3 DEF TaskList
    <3> QED BY <1>2, <2>1, <3>3, <3>4
  <2>4. CASE s # <<>>
    <3> DEFINE q == [Delete(mouseEvents, mouseEvents.head) EXCEPT
                       !.head = mouseEvents.items[mouseEvents.head].next]
    <3>1. mouseEvents.head # Null /\ Chained(q, Tail(s), {})
      BY <2>2, <2>4, FirstCleared
    <3>2. mouseEvents' = q /\ task' = task
      BY <1>5, <3>1 DEF TaskClear
    <3>3. Tail(s) \in Orders
      BY <2>4, TailOrder
    <3> HIDE DEF q
    <3>4. TaskList'
      BY <1>1, <2>1, <2>2, <3>1, <3>2, <3>3 DEF TaskList
    <3> QED BY <1>2, <2>1, <3>2, <3>4
  <2> QED BY <2>3, <2>4
<1>6. CASE TaskReset
  <2>1. /\ task.place = "reset" /\ told' = told /\ task' = [task EXCEPT !.place = "wait"]
        /\ mouseEvents' = [mouseEvents EXCEPT !.size = 0, !.tail = Null]
    BY <1>6 DEF TaskReset, Task
  <2>2. Chained(mouseEvents, <<>>, {}) /\ told = buttonsStates
    BY <1>2, <2>1 DEF TaskList
  <2>3. /\ mouseEvents' = [head |-> mouseEvents.head, tail |-> Null, size |-> 0,
                           items |-> mouseEvents.items, broken |-> mouseEvents.broken]
    BY <2>1, <2>2 DEF Chained, IsList
  <2>4. Chained(mouseEvents', <<>>, {}) /\ mouseEvents'.tail = Null /\ mouseEvents'.size = 0
    BY <2>2, <2>3 DEF Chained, IsList
  <2>5. <<>> \in Orders /\ Len(<<>>) = 0 /\ Carries(mouseEvents', <<>>)
    BY <2>4, CarriesNothing
  <2>6. Known(told, DataIn(mouseEvents', <<>>), 1) = told
    <3>1. DataIn(mouseEvents', <<>>) \in Seq(ButtonEvents) /\ Len(DataIn(mouseEvents', <<>>)) = 0
      BY <2>5, DataIsEvents
    <3>2. 1 > 0 /\ 1 \in Nat
      OBVIOUS
    <3> QED BY <1>2, <3>1, <3>2, KnownOfNone
  <2>7. task' = [place |-> "wait", item |-> task.item]
    BY <1>2, <2>1
  <2>8. TaskList'
    BY <1>1, <2>1, <2>2, <2>4, <2>5, <2>6, <2>7 DEF TaskList
  <2> QED BY <1>2, <2>1, <2>7, <2>8
<1>7. CASE TaskWait
  <2>1. /\ task.place = "wait" /\ told' = told /\ task' = [task EXCEPT !.place = "woken"]
        /\ mouseEvents' = mouseEvents
    BY <1>7 DEF TaskWait, Task
  <2>2. task' = [place |-> "woken", item |-> task.item]
    BY <1>2, <2>1
  <2>3. TaskList'
    BY <1>1, <1>2, <2>1, <2>2 DEF TaskList
  <2> QED BY <1>2, <2>1, <2>2, <2>3
<1>8. CASE TaskWoken
  <2>1. /\ task.place = "woken" /\ told' = told /\ mouseEvents' = mouseEvents
        /\ task' = [place |-> "tell", item |-> mouseEvents.head]
    BY <1>8 DEF TaskWoken, Task
  <2>2. PICK s \in Orders : /\ Carries(mouseEvents, s) /\ mouseEvents.size = Len(s)
                            /\ Known(told, DataIn(mouseEvents, s), 1) = buttonsStates
    BY <1>2, <2>1 DEF TaskList
  <2>3. CASE s = <<>>
    <3>1. mouseEvents.head = Null
      BY <2>2, <2>3 DEF Carries, Linked, Chained
    <3>2. told = buttonsStates
      <4>1. DataIn(mouseEvents, s) \in Seq(ButtonEvents) /\ Len(DataIn(mouseEvents, s)) = 0
        BY <2>2, <2>3, Order, DataIsEvents
      <4>2. 1 > 0 /\ 1 \in Nat
        OBVIOUS
      <4> QED BY <1>2, <2>2, <4>1, <4>2, KnownOfNone
    <3>3. TaskList'
      BY <1>1, <2>1, <2>2, <3>1, <3>2 DEF TaskList
    <3> QED BY <1>2, <2>1, <3>3
  <2>4. CASE s # <<>>
    <3>1. 1 \in 1..Len(s)
      BY <1>3, <2>4, Order
    <3>2. mouseEvents.head = s[1] /\ s[1] # Null
      BY <2>2, <2>4, <3>1, Order DEF Carries, Linked, Chained
    <3>3. TaskList'
      BY <1>1, <2>1, <2>2, <3>1, <3>2 DEF TaskList
    <3> QED BY <1>2, <2>1, <3>3
  <2> QED BY <2>3, <2>4
<1> QED BY <1>4, <1>5, <1>6, <1>7, <1>8 DEF HandlerTask

LEMMA TaskNext == TaskInv /\ PacketInv /\ AnswersInv /\ [InputNext]_inputVars => TaskInv'
<1> SUFFICES ASSUME TaskInv, PacketInv, AnswersInv, [InputNext]_inputVars PROVE TaskInv'
  OBVIOUS
<1>1. CASE UNCHANGED <<buttonsStates, mouseEvents, mouseTorn, task, told>>
  BY <1>1 DEF TaskInv, TaskList
<1>2. CASE HandlerTask
  BY <1>2, TaskStep
<1>3. CASE Handle
  <2>1. UNCHANGED <<task, told>>
    BY <1>3 DEF Handle
  <2>2. \/ OfMouse(output) /\ mouseEnabled /\ MouseFIFOAdd(output)
        \/ UNCHANGED <<buttonsStates, mouseEvents, mouseTorn>>
    BY <1>3 DEF Handle
  <2>3. CASE OfMouse(output) /\ mouseEnabled /\ MouseFIFOAdd(output)
    <3>1. output \in MouseBytes
      BY <2>3, Kinds DEF AnswersInv, OfMouse, Replies
    <3> QED BY <2>1, <2>3, <3>1, TaskHandler
  <2> QED BY <1>1, <2>1, <2>2, <2>3
<1>4. CASE KeyByte \/ MouseByte \/ Answer \/ PS2Init \/ ReadKey \/ UNCHANGED inputVars
  BY <1>1, <1>4 DEF KeyByte, MouseByte, Answer, PS2Init, ReadKey, inputVars, mouseVars
<1> QED BY <1>2, <1>3, <1>4 DEF InputNext

LEMMA TaskInvKeeps == TaskInv => MouseEventsKept
<1> SUFFICES ASSUME TaskInv, ~mouseTorn
             PROVE  /\ ~mouseEvents.broken
                    /\ task.place \in {"wait", "woken"} =>
                         Sound(mouseEvents) /\ KnownAfter(Elements(mouseEvents)) = buttonsStates
  BY DEF MouseEventsKept
<1>1. TaskList
  BY DEF TaskInv
<1>2. ~mouseEvents.broken
  BY <1>1 DEF TaskList, Carries, Linked, Chained
<1>3. ASSUME task.place \in {"wait", "woken"}
      PROVE  Sound(mouseEvents) /\ KnownAfter(Elements(mouseEvents)) = buttonsStates
  <2>1. PICK s \in Orders : /\ Carries(mouseEvents, s) /\ mouseEvents.size = Len(s)
                            /\ Known(told, DataIn(mouseEvents, s), 1) = buttonsStates
    BY <1>1, <1>3 DEF TaskList
  <2>2. Sound(mouseEvents) /\ Elements(mouseEvents) = DataIn(mouseEvents, s)
    BY <2>1, LinkedIsSound DEF Carries
  <2> DEFINE events == DataIn(mouseEvents, s)
  <2>3. events \in Seq(ButtonEvents)
    BY <2>1, DataIsEvents
  <2> HIDE DEF events
  <2>4. \A i \in DOMAIN events : i >= 1
    <3>1. DOMAIN events = 1..Len(events)
      BY <2>3, LenProperties
    <3> QED BY <3>1
  <2>5. \A b : {i \in DOMAIN events : i >= 1 /\ events[i].button = b}
                 = {i \in DOMAIN events : events[i].button = b}
    BY <2>4
  <2>6. KnownAfter(events) = Known(told, events, 1)
    BY <2>5 DEF KnownAfter, Known
  <2> QED BY <2>1, <2>2, <2>6 DEF events
<1> QED BY <1>2, <1>3

\* While the mouse's thread does not walk through its list or clear it, the list is
\* sound, and whoever is told the events in it knows of every button whether it is
\* down: however packets fall between the instructions of the thread, unless one
\* with an event falls between the last event told and the end of List::Clear.
THEOREM MouseKept == InputSpec => []MouseEventsKept
<1> DEFINE Inv == TaskInv /\ PacketInv /\ AnswersInv
<1>1. InputInit => Inv
  BY TaskInit, PacketInit, AnswersInit
<1>2. Inv /\ [InputNext]_inputVars => Inv'
  BY TaskNext, PacketNext, AnswersNext
<1>3. Inv => MouseEventsKept
  BY TaskInvKeeps
<1> QED BY <1>1, <1>2, <1>3, PTL DEF InputSpec
=============================================================================
