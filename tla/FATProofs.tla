------------------------------ MODULE FATProofs ------------------------------
(***************************************************************************)
(* Between the handlers of the FAT file system the types hold and what is  *)
(* in memory is on the disk or marked.  The invariant is that the machine  *)
(* is fine: it follows from the disk by the writes that wait, each of      *)
(* which leads to a disk that is formatted, and its objects have at least  *)
(* the references that the handles hold.                                   *)
(***************************************************************************)
EXTENDS FAT, FiniteSetTheorems, SequenceTheorems, WellFoundedInduction, TLAPS

\* The fields of a machine and of an object of the cache.
Machine(t, cache, d, log, at, u) ==
  [fat |-> t, cache |-> cache, disk |-> d, log |-> log, at |-> at, unsaved |-> u]
IsMachine(m) == m = Machine(m.fat, m.cache, m.disk, m.log, m.at, m.unsaved)

Object(refs, dirty, nth, cells) ==
  [refs |-> refs, dirty |-> dirty, nth |-> nth, cells |-> cells]

-----------------------------------------------------------------------------
\* A world w is what no handler changes: the entries of the table, the disk and the
\* clusters that were linked and not marked.  A cluster is taken if it is marked, or
\* one of those.
WorldOK(w) ==
  /\ \E last \in LastCluster..(ClusterLast - 1) : w.entries = 0..last
  /\ w.dangling \subseteq w.entries

Taken(w, t, c) == c \in w.entries /\ (t[c] # 0 \/ c \in w.dangling)

Tables(w) == [w.entries -> w.entries \cup {ClusterLast}]

Links(w, t) == \A c \in w.entries : t[c] \in {0, ClusterLast} \/ Taken(w, t, t[c])

CellsOK(w, c, cells) == cells \in [0..(Size(c) - 1) -> CellOver(w.entries)]
CellsTaken(w, t, c, cells) == \A i \in 0..(Size(c) - 1) : Taken(w, t, cells[i].cluster)

DiskOK(w, d) ==
  /\ d = [fats |-> d.fats, data |-> d.data]
  /\ d.data = [c \in Clusters |-> d.data[c]]
  /\ d.fats \in [1..Copies -> Tables(w)]
  /\ d.fats[1][0] # 0 /\ d.fats[1][1] # 0
  /\ \A c \in Clusters : CellsOK(w, c, d.data[c]) /\ CellsTaken(w, d.fats[1], c, d.data[c])

\* The disks that the writes lead over.
Over(w, log, ds) ==
  /\ \E S : log \in Seq(S)
  /\ ds[0] = w.disk
  /\ \A k \in 1..Len(log) : ds[k] = Written(ds[k - 1], log[k])
  /\ \A k \in 0..Len(log) : DiskOK(w, ds[k])
Leads(w, log, d) == \E ds : Over(w, log, ds) /\ ds[Len(log)] = d

ObjectOK(w, c, o) ==
  /\ o = Object(o.refs, o.dirty, o.nth, o.cells)
  /\ o.refs \in Nat /\ o.dirty \in BOOLEAN /\ o.nth \in Nat
  /\ IF o.nth = 0 THEN o.refs = 0 ELSE CellsOK(w, c, o.cells)

\* The list of the objects has each of them in one place.
Listed(cache) ==
  /\ \A c, d \in Cached(cache) : cache[c].nth = cache[d].nth => c = d
  /\ \A c \in Cached(cache) : cache[c].nth <= Cardinality(Cached(cache))
  /\ \A k \in 1..Cardinality(Cached(cache)) : \E c \in Cached(cache) : cache[c].nth = k

CacheOK(w, cache) ==
  /\ cache = [c \in w.entries |-> cache[c]]
  /\ \A c \in w.entries : ObjectOK(w, c, cache[c])
  /\ Listed(cache)

\* An object that no handle has changed is what is on the disk, except for data.
Kept(w, t, d, u, c, o) ==
  /\ c \in Clusters /\ Taken(w, t, c)
  /\ CellsTaken(w, t, c, o.cells)
  /\ IF o.dirty THEN o.refs > 0 ELSE o.cells = d.data[c] \/ c \in u \cup w.dangling

AllKept(w, t, cache, d, u) ==
  /\ t = d.fats[1]
  /\ \A c \in Cached(cache) : Kept(w, t, d, u, c, cache[c])

\* n is how many handles hold each object, v are the clusters they know of.
Counted(w, cache, n) == n \in [w.entries -> Nat] /\ \A c \in w.entries : n[c] <= cache[c].refs

Known(w, t, v) == \A c \in v : Taken(w, t, c)

Fits(w, m) ==
  /\ WorldOK(w) /\ IsMachine(m)
  /\ m.fat \in Tables(w)
  /\ CacheOK(w, m.cache)
  /\ Leads(w, m.log, m.disk)
  /\ m.at \in {"ready", "stopped", "hung", "spoiled"}
  /\ m.unsaved \subseteq w.entries

Fine(w, m, n, v) ==
  /\ Fits(w, m)
  /\ Counted(w, m.cache, n)
  /\ v \subseteq w.entries
  /\ m.at = "ready" => /\ AllKept(w, m.fat, m.cache, m.disk, m.unsaved)
                       /\ Links(w, m.fat)
                       /\ Known(w, m.fat, v)

With(n, c) == IF c = None THEN n ELSE [n EXCEPT ![c] = @ + 1]

-----------------------------------------------------------------------------
\* Induction over the numbers.
LEMMA LeastNumber ==
  ASSUME NEW K, K \subseteq Nat, K # {}
  PROVE  \E m \in K : \A n \in K : m <= n
<1> DEFINE R == StrictSubsetOrdering(Nat)
           S == FiniteSubsetsOf(Nat)
           T == {0..n : n \in K}
<1>1. IsWellFoundedOn(R, S)
  BY FS_StrictSubsetOrderingWellFounded
<1>2. T \subseteq S
  <2>1. \A n \in K : 0..n \in SUBSET Nat
    OBVIOUS
  <2>2. ASSUME NEW n \in K PROVE IsFiniteSet(0..n)
    <3>1. n \in Int /\ 0 \in Int
      OBVIOUS
    <3> QED BY <3>1, FS_Interval
  <2> QED BY <2>1, <2>2 DEF FiniteSubsetsOf
<1>3. T # {}
  OBVIOUS
<1>4. \E x \in T : \A y \in T : ~(<<y, x>> \in R)
  <2> HIDE DEF R, S, T
  <2> QED BY <1>1, <1>2, <1>3, WFMin
<1>5. PICK m \in K : \A n \in K : ~(<<0..n, 0..m>> \in R)
  BY <1>4
<1>6. ASSUME NEW n \in K, n < m PROVE FALSE
  <2>1. 0..n \subseteq 0..m /\ m \notin 0..n /\ m \in 0..m
    BY <1>6
  <2>2. <<0..n, 0..m>> \in R
    BY <2>1 DEF StrictSubsetOrdering
  <2> QED BY <2>2, <1>5
<1> QED BY <1>5, <1>6

LEMMA Numbers ==
  ASSUME NEW S, 0 \in S, \A n \in Nat : n \in S => n + 1 \in S
  PROVE  Nat \subseteq S
<1> SUFFICES ASSUME Nat \ S # {} PROVE FALSE
  OBVIOUS
<1>1. PICK m \in Nat \ S : \A n \in Nat \ S : m <= n
  BY LeastNumber
<1>2. m # 0 /\ m - 1 \in Nat /\ (m - 1) + 1 = m /\ ~(m <= m - 1)
  OBVIOUS
<1> QED BY <1>1, <1>2

\* The constants.
LEMMA Constant ==
  /\ LastCluster \in Nat /\ LastCluster > 0 /\ Copies \in Nat /\ Copies > 0
  /\ MaxSize \in Nat /\ MaxSize > 0 /\ ClusterLast \in Nat /\ None \notin 0..(ClusterLast - 1)
  /\ \A c : Size(c) \in Nat /\ Size(c) > 0
  /\ 0 \in Clusters
BY FATAssumption DEF Size, ClusterLast, None, Clusters

\* The entries of a world.
LEMMA Entries ==
  ASSUME NEW w, WorldOK(w)
  PROVE  /\ {0, 1} \subseteq w.entries /\ Clusters \subseteq w.entries
         /\ w.entries \subseteq Nat /\ IsFiniteSet(w.entries)
         /\ None \notin w.entries /\ ClusterLast \notin w.entries
<1>1. PICK last \in LastCluster..(ClusterLast - 1) : w.entries = 0..last
  BY DEF WorldOK
<1>2. LastCluster \in Nat /\ LastCluster > 0 /\ last \in Nat /\ last >= LastCluster /\ last < 4088
  <2>1. LastCluster \in Nat /\ LastCluster > 0 /\ last \in LastCluster..(4088 - 1)
    BY <1>1, Constant DEF ClusterLast
  <2> QED BY <2>1
<1>3. {0, 1} \subseteq 0..last /\ Clusters \subseteq 0..last /\ 4095 \notin 0..last /\ 4088 \notin 0..last
  BY <1>2 DEF Clusters
<1>4. IsFiniteSet(0..last)
  BY <1>2, FS_Interval
<1> QED BY <1>1, <1>2, <1>3, <1>4 DEF None, ClusterLast

-----------------------------------------------------------------------------
(* What is written.                                                          *)

\* No entry of a table becomes free.
Grows(w, s, t) == \A c \in w.entries : s[c] # 0 => t[c] # 0

LEMMA TakenGrows ==
  ASSUME NEW w, NEW s, NEW t, Grows(w, s, t)
  PROVE  /\ \A c : Taken(w, s, c) => Taken(w, t, c)
         /\ \A c, cells : CellsTaken(w, s, c, cells) => CellsTaken(w, t, c, cells)
         /\ \A v : Known(w, s, v) => Known(w, t, v)
BY DEF Grows, Taken, CellsTaken, Known

LEMMA DiskWithCells ==
  ASSUME NEW w, NEW d, DiskOK(w, d), NEW c \in Clusters, NEW cells,
         CellsOK(w, c, cells), CellsTaken(w, d.fats[1], c, cells),
         NEW x, x = [kind |-> "data", place |-> c, what |-> cells]
  PROVE  /\ DiskOK(w, Written(d, x))
         /\ Written(d, x).fats = d.fats
         /\ Written(d, x).data = [d.data EXCEPT ![c] = cells]
<1> DEFINE e == Written(d, x)
<1>1. d = [fats |-> d.fats, data |-> d.data] /\ d.data = [b \in Clusters |-> d.data[b]]
  BY DEF DiskOK
<1>2. x.kind = "data" /\ x.place = c /\ x.what = cells /\ "data" # "fat"
  OBVIOUS
<1>3. e = [d EXCEPT !.data[c] = cells]
  BY <1>2 DEF Written
<1>4. e = [fats |-> d.fats, data |-> [d.data EXCEPT ![c] = cells]]
  BY <1>1, <1>3
<1>5. e.fats = d.fats /\ e.data = [d.data EXCEPT ![c] = cells]
  BY <1>4
<1> HIDE DEF e
<1>6. \A b \in Clusters : e.data[b] = IF b = c THEN cells ELSE d.data[b]
  BY <1>1, <1>5
<1>7. e.data = [b \in Clusters |-> e.data[b]] /\ e = [fats |-> e.fats, data |-> e.data]
  BY <1>1, <1>4, <1>5
<1>8. \A b \in Clusters : CellsOK(w, b, e.data[b]) /\ CellsTaken(w, e.fats[1], b, e.data[b])
  <2>1. ASSUME NEW b \in Clusters PROVE CellsOK(w, b, e.data[b]) /\ CellsTaken(w, e.fats[1], b, e.data[b])
    <3>1. CASE b = c
      BY <1>5, <1>6, <3>1
    <3>2. CASE b # c
      BY <1>5, <1>6, <3>2 DEF DiskOK
    <3> QED BY <3>1, <3>2
  <2> QED BY <2>1
<1>9. DiskOK(w, e)
  BY <1>5, <1>7, <1>8 DEF DiskOK
<1> QED BY <1>5, <1>9 DEF e

LEMMA DiskWithTable ==
  ASSUME NEW w, NEW d, DiskOK(w, d), WorldOK(w), NEW k \in 1..Copies, NEW t \in Tables(w),
         Grows(w, d.fats[1], t), NEW x, x = [kind |-> "fat", place |-> k, what |-> t]
  PROVE  /\ DiskOK(w, Written(d, x))
         /\ Written(d, x).data = d.data
         /\ Written(d, x).fats = [d.fats EXCEPT ![k] = t]
<1> DEFINE e == Written(d, x)
<1>1. /\ d = [fats |-> d.fats, data |-> d.data] /\ d.data = [b \in Clusters |-> d.data[b]]
      /\ d.fats \in [1..Copies -> Tables(w)]
  BY DEF DiskOK
<1>2. x.kind = "fat" /\ x.place = k /\ x.what = t
  OBVIOUS
<1>3. e = [d EXCEPT !.fats[k] = t]
  BY <1>2 DEF Written
<1>4. e = [fats |-> [d.fats EXCEPT ![k] = t], data |-> d.data]
  BY <1>1, <1>3
<1>5. e.fats = [d.fats EXCEPT ![k] = t] /\ e.data = d.data
  BY <1>4
<1> HIDE DEF e
<1>6. 1 \in 1..Copies
  BY Constant
<1>7. e.fats \in [1..Copies -> Tables(w)] /\ e.fats[1] = IF k = 1 THEN t ELSE d.fats[1]
  BY <1>1, <1>5, <1>6
<1>8. Grows(w, d.fats[1], e.fats[1])
  BY <1>7 DEF Grows
<1>9. e.fats[1][0] # 0 /\ e.fats[1][1] # 0
  BY <1>8, Entries DEF Grows, DiskOK
<1>10. \A b \in Clusters : CellsOK(w, b, e.data[b]) /\ CellsTaken(w, e.fats[1], b, e.data[b])
  BY <1>5, <1>8, TakenGrows DEF DiskOK
<1>11. e = [fats |-> e.fats, data |-> e.data] /\ e.data = [b \in Clusters |-> e.data[b]]
  BY <1>1, <1>4, <1>5
<1>12. DiskOK(w, e)
  BY <1>7, <1>9, <1>10, <1>11 DEF DiskOK
<1> QED BY <1>5, <1>12 DEF e

\* One more write, and many.
LEMMA LeadsAppend ==
  ASSUME NEW w, NEW log, NEW d, Leads(w, log, d), NEW x, DiskOK(w, Written(d, x))
  PROVE  Leads(w, Append(log, x), Written(d, x))
<1>1. PICK ds : Over(w, log, ds) /\ ds[Len(log)] = d
  BY DEF Leads
<1>2. PICK S : log \in Seq(S)
  BY <1>1 DEF Over
<1> DEFINE n == Len(log)
           l == Append(log, x)
           T == S \cup {x}
           e == Written(d, x)
           es == [k \in 0..(n + 1) |-> IF k = n + 1 THEN e ELSE ds[k]]
<1>3. n \in Nat /\ l \in Seq(T) /\ Len(l) = n + 1 /\ \A k \in 1..n : l[k] = log[k]
  <2>1. log \in Seq(T) /\ x \in T
    BY <1>2
  <2> HIDE DEF T
  <2> QED BY <2>1, AppendProperties, LenProperties
<1>4. l[n + 1] = x
  BY <1>2, AppendProperties
<1> HIDE DEF n, l, e
<1>5. /\ es[0] = ds[0] /\ es[n + 1] = e /\ es[n] = ds[n]
      /\ \A k \in 1..n : es[k] = ds[k] /\ es[k - 1] = ds[k - 1]
      /\ \A k \in 0..n : es[k] = ds[k]
  BY <1>3
<1> HIDE DEF es
<1>6. /\ ds[0] = w.disk /\ \A k \in 1..n : ds[k] = Written(ds[k - 1], log[k])
      /\ \A k \in 0..n : DiskOK(w, ds[k])
  BY <1>1 DEF Over, n
<1>7. ds[n] = d
  BY <1>1 DEF n
<1>8. \A k \in 1..(n + 1) : es[k] = Written(es[k - 1], l[k])
  <2>1. ASSUME NEW k \in 1..(n + 1) PROVE es[k] = Written(es[k - 1], l[k])
    <3>1. CASE k = n + 1
      <4>1. k - 1 = n
        BY <1>3, <3>1
      <4> QED BY <1>4, <1>5, <1>7, <3>1, <4>1 DEF e
    <3>2. CASE k # n + 1
      <4>1. k \in 1..n
        BY <1>3, <3>2
      <4> QED BY <1>3, <1>5, <1>6, <4>1
    <3> QED BY <3>1, <3>2
  <2> QED BY <2>1
<1>9. \A k \in 0..(n + 1) : DiskOK(w, es[k])
  <2>1. ASSUME NEW k \in 0..(n + 1) PROVE DiskOK(w, es[k])
    <3>1. CASE k = n + 1
      BY <1>5, <3>1 DEF e
    <3>2. CASE k # n + 1
      <4>1. k \in 0..n
        BY <1>3, <3>2
      <4> QED BY <1>5, <1>6, <4>1
    <3> QED BY <3>1, <3>2
  <2> QED BY <2>1
<1>10. Over(w, l, es) /\ es[Len(l)] = e
  BY <1>3, <1>5, <1>6, <1>8, <1>9 DEF Over
<1> QED BY <1>10 DEF Leads, l, e

LEMMA LeadsConcat ==
  ASSUME NEW w, NEW log, NEW d, Leads(w, log, d), NEW n \in Nat, NEW xs, DOMAIN xs = 1..n,
         \E S : xs \in Seq(S), NEW es, es[0] = d,
         \A k \in 1..n : es[k] = Written(es[k - 1], xs[k]), \A k \in 0..n : DiskOK(w, es[k])
  PROVE  Leads(w, log \o xs, es[n])
<1>1. PICK ds : Over(w, log, ds) /\ ds[Len(log)] = d
  BY DEF Leads
<1>2. PICK R : log \in Seq(R)
  BY <1>1 DEF Over
<1>3. PICK S : xs \in Seq(S)
  OBVIOUS
<1> DEFINE m == Len(log)
           l == log \o xs
           T == R \cup S
           fs == [k \in 0..(m + n) |-> IF k > m THEN es[k - m] ELSE ds[k]]
<1>4. m \in Nat /\ Len(xs) = n
  BY <1>2, <1>3, LenProperties
<1>5. /\ l \in Seq(T) /\ Len(l) = m + n /\ \A k \in 1..m : l[k] = log[k]
      /\ \A k \in (m + 1)..(m + n) : l[k] = xs[k - m]
  <2>1. log \in Seq(T) /\ xs \in Seq(T)
    BY <1>2, <1>3
  <2> HIDE DEF T
  <2>2. \A k \in 1..(m + n) : l[k] = IF k <= m THEN log[k] ELSE xs[k - m]
    BY <1>4, <2>1, ConcatProperties
  <2>3. l \in Seq(T) /\ Len(l) = m + n
    BY <1>4, <2>1, ConcatProperties
  <2> HIDE DEF l, m
  <2>4. \A k \in 1..m : k \in 1..(m + n) /\ k <= m
    BY <1>4
  <2>5. \A k \in (m + 1)..(m + n) : k \in 1..(m + n) /\ ~(k <= m)
    BY <1>4
  <2> QED BY <2>2, <2>3, <2>4, <2>5
<1> HIDE DEF m, l
<1>6. /\ ds[0] = w.disk /\ \A k \in 1..m : ds[k] = Written(ds[k - 1], log[k])
      /\ \A k \in 0..m : DiskOK(w, ds[k])
  BY <1>1 DEF Over, m
<1>7. ds[m] = d
  BY <1>1 DEF m
<1>8. \A k \in 0..m : fs[k] = ds[k]
  BY <1>4
<1>9. \A k \in 0..n : fs[m + k] = es[k]
  <2>1. ASSUME NEW k \in 0..n PROVE fs[m + k] = es[k]
    <3>1. CASE k = 0
      BY <1>4, <1>7, <1>8, <3>1
    <3>2. CASE k # 0
      <4>1. m + k \in 0..(m + n) /\ m + k > m /\ (m + k) - m = k
        BY <1>4, <3>2
      <4> QED BY <4>1
    <3> QED BY <3>1, <3>2
  <2> QED BY <2>1
<1> HIDE DEF fs
<1>10. \A k \in 1..(m + n) : fs[k] = Written(fs[k - 1], l[k])
  <2>1. ASSUME NEW k \in 1..(m + n) PROVE fs[k] = Written(fs[k - 1], l[k])
    <3>1. CASE k <= m
      <4>1. k \in 1..m /\ k \in 0..m /\ k - 1 \in 0..m
        BY <1>4, <3>1
      <4> QED BY <1>5, <1>6, <1>8, <4>1
    <3>2. CASE k > m
      <4> DEFINE j == k - m
      <4>1. j \in 1..n /\ j \in 0..n /\ j - 1 \in 0..n /\ m + j = k /\ m + (j - 1) = k - 1
        BY <1>4, <3>2
      <4>2. k \in (m + 1)..(m + n)
        BY <1>4, <3>2
      <4> HIDE DEF j
      <4>3. fs[k] = es[j] /\ fs[k - 1] = es[j - 1]
        BY <1>9, <4>1
      <4>4. l[k] = xs[j]
        BY <1>5, <4>2 DEF j
      <4> QED BY <4>1, <4>3, <4>4
    <3> QED BY <1>4, <3>1, <3>2
  <2> QED BY <2>1
<1>11. \A k \in 0..(m + n) : DiskOK(w, fs[k])
  <2>1. ASSUME NEW k \in 0..(m + n) PROVE DiskOK(w, fs[k])
    <3>1. CASE k <= m
      <4>1. k \in 0..m
        BY <1>4, <3>1
      <4> QED BY <1>6, <1>8, <4>1
    <3>2. CASE k > m
      <4> DEFINE j == k - m
      <4>1. j \in 0..n /\ m + j = k
        BY <1>4, <3>2
      <4> HIDE DEF j
      <4> QED BY <1>9, <4>1
    <3> QED BY <1>4, <3>1, <3>2
  <2> QED BY <2>1
<1>12. fs[0] = w.disk /\ fs[m + n] = es[n]
  BY <1>4, <1>6, <1>8, <1>9
<1>13. Over(w, l, fs) /\ fs[Len(l)] = es[n]
  BY <1>5, <1>10, <1>11, <1>12 DEF Over
<1> QED BY <1>13 DEF Leads, l

\* Nothing waits, or the first of what waits is done.
LEMMA LeadsStill ==
  ASSUME NEW w, NEW d
  PROVE  Leads(w, <<>>, d) <=> d = w.disk /\ DiskOK(w, d)
<1>1. Len(<<>>) = 0 /\ <<>> \in Seq({}) /\ 1..0 = {} /\ 0..0 = {0}
  OBVIOUS
<1>2. ASSUME Leads(w, <<>>, d) PROVE d = w.disk /\ DiskOK(w, d)
  BY <1>1, <1>2 DEF Leads, Over
<1>3. ASSUME d = w.disk, DiskOK(w, d) PROVE Leads(w, <<>>, d)
  <2> DEFINE ds == [k \in {0} |-> d]
  <2>1. Over(w, <<>>, ds) /\ ds[0] = d
    BY <1>1, <1>3 DEF Over
  <2> QED BY <1>1, <2>1 DEF Leads
<1> QED BY <1>2, <1>3

LEMMA LeadsTail ==
  ASSUME NEW w, NEW log, NEW d, Leads(w, log, d), log # <<>>,
         NEW v, v.disk = Written(w.disk, Head(log)), v.entries = w.entries, v.dangling = w.dangling
  PROVE  Leads(v, Tail(log), d)
<1>1. PICK ds : Over(w, log, ds) /\ ds[Len(log)] = d
  BY DEF Leads
<1>2. PICK S : log \in Seq(S)
  BY <1>1 DEF Over
<1> DEFINE n == Len(log)
           l == Tail(log)
           es == [k \in 0..(n - 1) |-> ds[k + 1]]
<1>3. n \in Nat /\ n > 0
  BY <1>2, LenProperties, EmptySeq
<1>4. l \in Seq(S) /\ Len(l) = n - 1 /\ Head(log) = log[1] /\ \A k \in 1..(n - 1) : l[k] = log[k + 1]
  BY <1>2, HeadTailProperties
<1> HIDE DEF n, l
<1>5. /\ ds[0] = w.disk /\ \A k \in 1..n : ds[k] = Written(ds[k - 1], log[k])
      /\ \A k \in 0..n : DiskOK(w, ds[k])
  BY <1>1 DEF Over, n
<1>6. \A k \in 0..(n - 1) : es[k] = ds[k + 1]
  OBVIOUS
<1> HIDE DEF es
<1>7. es[0] = v.disk
  <2>1. 1 \in 1..n /\ 0 \in 0..(n - 1)
    BY <1>3
  <2> QED BY <1>4, <1>5, <1>6, <2>1
<1>8. \A k \in 1..(n - 1) : es[k] = Written(es[k - 1], l[k])
  <2>1. ASSUME NEW k \in 1..(n - 1) PROVE es[k] = Written(es[k - 1], l[k])
    <3>1. k + 1 \in 1..n /\ k \in 0..(n - 1) /\ k - 1 \in 0..(n - 1) /\ (k - 1) + 1 = k /\ (k + 1) - 1 = k
      BY <1>3
    <3> QED BY <1>4, <1>5, <1>6, <3>1
  <2> QED BY <2>1
<1>9. \A k \in 0..(n - 1) : DiskOK(v, es[k])
  <2>1. ASSUME NEW k \in 0..(n - 1) PROVE DiskOK(v, es[k])
    <3>1. k + 1 \in 0..n
      BY <1>3
    <3>2. DiskOK(w, es[k])
      BY <1>5, <1>6, <3>1
    <3> QED BY <3>2 DEF DiskOK, Tables, CellsOK, CellsTaken, Taken
  <2> QED BY <2>1
<1>10. es[n - 1] = d
  <2>1. n - 1 \in 0..(n - 1) /\ (n - 1) + 1 = n
    BY <1>3
  <2> QED BY <1>1, <1>6, <2>1 DEF n
<1>11. Over(v, l, es) /\ es[Len(l)] = d
  BY <1>4, <1>7, <1>8, <1>9, <1>10 DEF Over
<1> QED BY <1>11 DEF Leads, l

\* The disk that the writes lead to.
LEMMA LeadsTo ==
  ASSUME NEW w, NEW log, NEW d, Leads(w, log, d)
  PROVE  DiskOK(w, d) /\ DiskOK(w, w.disk)
<1>1. PICK ds : Over(w, log, ds) /\ ds[Len(log)] = d
  BY DEF Leads
<1>2. Len(log) \in Nat
  BY <1>1, LenProperties DEF Over
<1>3. Len(log) \in 0..Len(log) /\ 0 \in 0..Len(log)
  BY <1>2
<1> QED BY <1>1, <1>3 DEF Over

-----------------------------------------------------------------------------
(* The cache.                                                                *)

\* An object changes and stays where it is in the list.
LEMMA ObjectPut ==
  ASSUME NEW w, NEW cache, CacheOK(w, cache), NEW c \in w.entries, NEW o, ObjectOK(w, c, o),
         o.nth = cache[c].nth
  PROVE  /\ CacheOK(w, [cache EXCEPT ![c] = o])
         /\ Cached([cache EXCEPT ![c] = o]) = Cached(cache)
         /\ \A b \in w.entries : [cache EXCEPT ![c] = o][b] = IF b = c THEN o ELSE cache[b]
<1> DEFINE x == [cache EXCEPT ![c] = o]
<1>1. DOMAIN cache = w.entries /\ x = [b \in w.entries |-> x[b]]
  BY DEF CacheOK
<1>2. \A b \in w.entries : x[b] = IF b = c THEN o ELSE cache[b]
  BY <1>1
<1> HIDE DEF x
<1>3. \A b \in w.entries : x[b].nth = cache[b].nth
  BY <1>2
<1>4. Cached(x) = Cached(cache) /\ Cached(cache) \subseteq w.entries
  BY <1>1, <1>3 DEF Cached
<1>5. Listed(x)
  <2>1. Listed(cache)
    BY DEF CacheOK
  <2> QED BY <1>3, <1>4, <2>1 DEF Listed
<1>6. \A b \in w.entries : ObjectOK(w, b, x[b])
  BY <1>2 DEF CacheOK
<1>7. CacheOK(w, x)
  BY <1>1, <1>5, <1>6 DEF CacheOK
<1> QED BY <1>2, <1>4, <1>7 DEF x

\* An object is new in the list.
LEMMA ObjectNew ==
  ASSUME NEW w, WorldOK(w), NEW cache, CacheOK(w, cache), NEW c \in w.entries, c \notin Cached(cache),
         NEW o, ObjectOK(w, c, o), o.nth = Cardinality(Cached(cache)) + 1
  PROVE  /\ CacheOK(w, [cache EXCEPT ![c] = o])
         /\ Cached([cache EXCEPT ![c] = o]) = Cached(cache) \cup {c}
         /\ \A b \in w.entries : [cache EXCEPT ![c] = o][b] = IF b = c THEN o ELSE cache[b]
<1> DEFINE x == [cache EXCEPT ![c] = o]
           C == Cached(cache)
           n == Cardinality(C)
<1>1. DOMAIN cache = w.entries /\ x = [b \in w.entries |-> x[b]]
  BY DEF CacheOK
<1>2. \A b \in w.entries : x[b] = IF b = c THEN o ELSE cache[b]
  BY <1>1
<1> HIDE DEF x
<1>3. C \subseteq w.entries
  BY <1>1 DEF Cached
<1>4. IsFiniteSet(C)
  BY <1>3, Entries, FS_Subset
<1>5. n \in Nat /\ Cardinality(C \cup {c}) = n + 1
  BY <1>4, FS_CardinalityType, FS_AddElement
<1>6. \A b \in C : cache[b].nth \in Nat /\ cache[b].nth # 0 /\ cache[b].nth <= n
  <2>1. Listed(cache) /\ \A b \in w.entries : ObjectOK(w, b, cache[b])
    BY DEF CacheOK
  <2> QED BY <1>3, <2>1 DEF Listed, ObjectOK, Cached
<1>7. \A k \in 1..n : \E b \in C : cache[b].nth = k
  BY DEF CacheOK, Listed
<1>8. \A a, b \in C : cache[a].nth = cache[b].nth => a = b
  BY DEF CacheOK, Listed
<1>9. o.nth = n + 1
  OBVIOUS
<1>10. Cached(x) = C \cup {c}
  <2>1. \A b \in w.entries : x[b].nth # 0 <=> b \in C \cup {c}
    BY <1>1, <1>2, <1>5, <1>9 DEF Cached
  <2>2. Cached(x) = {b \in w.entries : x[b].nth # 0}
    BY <1>1 DEF Cached
  <2> HIDE DEF C
  <2> QED BY <1>3, <2>1, <2>2
<1> HIDE DEF C, n
<1>11. \A b \in C : b # c /\ x[b] = cache[b]
  BY <1>2, <1>3 DEF C
<1>12. x[c].nth = n + 1
  BY <1>2, <1>9
<1>13. Listed(x)
  <2>1. Cardinality(Cached(x)) = n + 1
    BY <1>5, <1>10
  <2>2. ASSUME NEW a \in C \cup {c}, NEW b \in C \cup {c}, x[a].nth = x[b].nth PROVE a = b
    <3>1. \A e \in C : x[e].nth \in Nat /\ x[e].nth <= n
      BY <1>6, <1>11
    <3>2. \A e \in C : x[e].nth # n + 1
      BY <1>5, <3>1
    <3>3. CASE a \in C /\ b \in C
      BY <1>8, <1>11, <2>2, <3>3
    <3>4. CASE a \notin C \/ b \notin C
      BY <1>12, <2>2, <3>2, <3>4
    <3> QED BY <3>3, <3>4
  <2>3. ASSUME NEW a \in C \cup {c} PROVE x[a].nth <= n + 1
    <3>1. CASE a \in C
      <4>1. x[a].nth \in Nat /\ x[a].nth <= n
        BY <1>6, <1>11, <3>1
      <4> QED BY <1>5, <4>1
    <3>2. CASE a \notin C
      BY <1>5, <1>12, <3>2
    <3> QED BY <3>1, <3>2
  <2>4. ASSUME NEW k \in 1..(n + 1) PROVE \E a \in C \cup {c} : x[a].nth = k
    <3>1. CASE k = n + 1
      BY <1>12, <3>1
    <3>2. CASE k # n + 1
      <4>1. k \in 1..n
        BY <1>5, <3>2
      <4> QED BY <1>7, <1>11, <4>1
    <3> QED BY <3>1, <3>2
  <2> QED BY <1>10, <2>1, <2>2, <2>3, <2>4 DEF Listed
<1>14. \A b \in w.entries : ObjectOK(w, b, x[b])
  BY <1>2 DEF CacheOK
<1>15. CacheOK(w, x)
  BY <1>1, <1>13, <1>14 DEF CacheOK
<1> QED BY <1>2, <1>10, <1>15 DEF x, C

-----------------------------------------------------------------------------
(* What keeps a machine fine.                                                *)

LEMMA MachineFields ==
  ASSUME NEW t, NEW cache, NEW d, NEW log, NEW at, NEW u
  PROVE  /\ IsMachine(Machine(t, cache, d, log, at, u))
         /\ Machine(t, cache, d, log, at, u).fat = t
         /\ Machine(t, cache, d, log, at, u).cache = cache
         /\ Machine(t, cache, d, log, at, u).disk = d
         /\ Machine(t, cache, d, log, at, u).log = log
         /\ Machine(t, cache, d, log, at, u).at = at
         /\ Machine(t, cache, d, log, at, u).unsaved = u
BY DEF Machine, IsMachine

LEMMA Changes ==
  ASSUME NEW m, IsMachine(m), NEW x
  PROVE  /\ [m EXCEPT !.cache = x] = Machine(m.fat, x, m.disk, m.log, m.at, m.unsaved)
         /\ [m EXCEPT !.at = x] = Machine(m.fat, m.cache, m.disk, m.log, x, m.unsaved)
         /\ [m EXCEPT !.fat = x] = Machine(x, m.cache, m.disk, m.log, m.at, m.unsaved)
         /\ [m EXCEPT !.unsaved = x] = Machine(m.fat, m.cache, m.disk, m.log, m.at, x)
BY DEF IsMachine, Machine

LEMMA ObjectChanges ==
  ASSUME NEW o, o = Object(o.refs, o.dirty, o.nth, o.cells), NEW x
  PROVE  /\ [o EXCEPT !.refs = x] = Object(x, o.dirty, o.nth, o.cells)
         /\ [o EXCEPT !.dirty = x] = Object(o.refs, x, o.nth, o.cells)
         /\ [o EXCEPT !.cells = x] = Object(o.refs, o.dirty, o.nth, x)
BY DEF Object

\* One object is changed, and perhaps the cluster on the disk.
LEMMA FinePut ==
  ASSUME NEW w, NEW m, NEW n, NEW v, Fine(w, m, n, v), NEW c \in w.entries,
         NEW o, ObjectOK(w, c, o), o.nth = m.cache[c].nth,
         NEW k \in [w.entries -> Nat], k[c] <= o.refs, \A b \in w.entries \ {c} : k[b] <= n[b],
         NEW d, NEW log, Leads(w, log, d), NEW at \in {"ready", "stopped", "hung", "spoiled"},
         NEW u \in SUBSET w.entries, m.unsaved \ {c} \subseteq u,
         at = "ready" => /\ m.at = "ready"
                         /\ d.fats[1] = m.disk.fats[1]
                         /\ \A b \in Clusters \ {c} : d.data[b] = m.disk.data[b]
                         /\ c \in Cached(m.cache) => Kept(w, m.fat, d, u, c, o)
  PROVE  Fine(w, Machine(m.fat, [m.cache EXCEPT ![c] = o], d, log, at, u), k, v)
<1> DEFINE x == [m.cache EXCEPT ![c] = o]
           r == Machine(m.fat, x, d, log, at, u)
<1>1. Fits(w, m) /\ Counted(w, m.cache, n) /\ v \subseteq w.entries
  BY DEF Fine
<1>2. CacheOK(w, m.cache) /\ m.fat \in Tables(w) /\ WorldOK(w)
  BY <1>1 DEF Fits
<1>3. /\ CacheOK(w, x) /\ Cached(x) = Cached(m.cache)
      /\ \A b \in w.entries : x[b] = IF b = c THEN o ELSE m.cache[b]
  BY <1>2, ObjectPut
<1> HIDE DEF x
<1>4. /\ IsMachine(r) /\ r.fat = m.fat /\ r.cache = x /\ r.disk = d /\ r.log = log
      /\ r.at = at /\ r.unsaved = u
  BY MachineFields
<1> HIDE DEF r
<1>5. Fits(w, r)
  BY <1>2, <1>3, <1>4 DEF Fits
<1>6. Counted(w, x, k)
  <2>1. ASSUME NEW b \in w.entries PROVE k[b] <= x[b].refs
    <3>1. CASE b = c
      BY <1>3, <3>1
    <3>2. CASE b # c
      <4>1. k[b] \in Nat /\ n[b] \in Nat /\ x[b] = m.cache[b] /\ m.cache[b].refs \in Nat
        BY <1>1, <1>2, <1>3, <3>2 DEF Counted, CacheOK, ObjectOK
      <4>2. k[b] <= n[b] /\ n[b] <= m.cache[b].refs
        BY <1>1, <3>2 DEF Counted
      <4> QED BY <4>1, <4>2
    <3> QED BY <3>1, <3>2
  <2> QED BY <2>1 DEF Counted
<1>7. ASSUME at = "ready" PROVE AllKept(w, m.fat, x, d, u) /\ Links(w, m.fat) /\ Known(w, m.fat, v)
  <2>1. /\ AllKept(w, m.fat, m.cache, m.disk, m.unsaved)
        /\ Links(w, m.fat) /\ Known(w, m.fat, v)
    BY <1>7 DEF Fine
  <2>2. ASSUME NEW b \in Cached(x) PROVE Kept(w, m.fat, d, u, b, x[b])
    <3>1. b \in w.entries
      BY <1>3, <2>2 DEF Cached, CacheOK
    <3>2. CASE b = c
      BY <1>3, <1>7, <2>2, <3>2
    <3>3. CASE b # c
      <4>1. Kept(w, m.fat, m.disk, m.unsaved, b, m.cache[b]) /\ x[b] = m.cache[b]
        BY <1>3, <2>1, <2>2, <3>1, <3>3 DEF AllKept
      <4>2. b \in m.unsaved => b \in u
        BY <3>3
      <4> QED BY <1>7, <3>3, <4>1, <4>2 DEF Kept
    <3> QED BY <3>2, <3>3
  <2>3. AllKept(w, m.fat, x, d, u)
    BY <1>7, <2>1, <2>2 DEF AllKept
  <2> QED BY <2>1, <2>3
<1>8. Fine(w, r, k, v)
  BY <1>1, <1>4, <1>5, <1>6, <1>7 DEF Fine
<1> QED BY <1>8 DEF r, x

\* Fewer handles, fewer clusters that they know of.
LEMMA Fewer ==
  ASSUME NEW w, NEW m, NEW n, NEW v, Fine(w, m, n, v),
         NEW k \in [w.entries -> Nat], \A b \in w.entries : k[b] <= n[b], NEW u \in SUBSET v
  PROVE  Fine(w, m, k, u)
<1>1. Fits(w, m) /\ Counted(w, m.cache, n)
  BY DEF Fine
<1>2. ASSUME NEW b \in w.entries PROVE k[b] <= m.cache[b].refs
  <2>1. k[b] \in Nat /\ n[b] \in Nat /\ m.cache[b].refs \in Nat
    BY <1>1 DEF Fits, Counted, CacheOK, ObjectOK
  <2>2. k[b] <= n[b] /\ n[b] <= m.cache[b].refs
    BY <1>1 DEF Counted
  <2> QED BY <2>1, <2>2
<1>3. Counted(w, m.cache, k)
  BY <1>2 DEF Counted
<1> QED BY <1>3 DEF Fine, Known

\* A cluster that is taken can be known.
LEMMA Learn ==
  ASSUME NEW w, NEW m, NEW n, NEW v, Fine(w, m, n, v), NEW c \in w.entries,
         m.at = "ready" => Taken(w, m.fat, c)
  PROVE  Fine(w, m, n, v \cup {c})
BY DEF Fine, Known

\* A machine that stops stays fine.
StoppedAt(m, s) == [m EXCEPT !.at = s]

LEMMA Stops ==
  ASSUME NEW w, NEW m, NEW n, NEW v, Fine(w, m, n, v), NEW s \in {"stopped", "hung", "spoiled"}
  PROVE  /\ Fine(w, StoppedAt(m, s), n, v)
         /\ StoppedAt(m, s).at = s
         /\ StoppedAt(m, s).fat = m.fat
         /\ StoppedAt(m, s).cache = m.cache
<1> DEFINE r == StoppedAt(m, s)
<1>1. Fits(w, m) /\ Counted(w, m.cache, n) /\ v \subseteq w.entries
  BY DEF Fine
<1>2. r = Machine(m.fat, m.cache, m.disk, m.log, s, m.unsaved)
  BY <1>1, Changes DEF Fits, StoppedAt
<1>3. /\ IsMachine(r) /\ r.fat = m.fat /\ r.cache = m.cache /\ r.disk = m.disk /\ r.log = m.log
      /\ r.at = s /\ r.unsaved = m.unsaved
  BY <1>2, MachineFields
<1> HIDE DEF r
<1>4. Fits(w, r)
  BY <1>1, <1>3 DEF Fits
<1>5. Fine(w, r, n, v)
  BY <1>1, <1>3, <1>4 DEF Fine
<1> QED BY <1>3, <1>5 DEF r

\* What is in the cache is taken, and so is 0; what a taken entry names is.
LEMMA TakenBy ==
  ASSUME NEW w, NEW m, NEW n, NEW v, Fine(w, m, n, v), m.at = "ready"
  PROVE  /\ Taken(w, m.fat, 0) /\ m.fat[0] # 0 /\ m.fat[1] # 0
         /\ \A c \in Cached(m.cache) : Taken(w, m.fat, c) /\ c \in Clusters
         /\ \A c \in w.entries : Taken(w, m.fat, GetNextCluster(m, c))
         /\ \A c \in Cached(m.cache) : CellsTaken(w, m.fat, c, m.cache[c].cells)
<1>1. Fits(w, m) /\ AllKept(w, m.fat, m.cache, m.disk, m.unsaved) /\ Links(w, m.fat)
  BY DEF Fine
<1>2. DiskOK(w, m.disk) /\ WorldOK(w)
  BY <1>1, LeadsTo DEF Fits
<1>3. m.fat[0] # 0 /\ m.fat[1] # 0 /\ 0 \in w.entries
  BY <1>1, <1>2, Entries DEF AllKept, DiskOK
<1>4. Taken(w, m.fat, 0)
  BY <1>3 DEF Taken
<1>5. \A c \in Cached(m.cache) : /\ Taken(w, m.fat, c) /\ c \in Clusters
                                 /\ CellsTaken(w, m.fat, c, m.cache[c].cells)
  BY <1>1 DEF AllKept, Kept
<1>6. ASSUME NEW c \in w.entries PROVE Taken(w, m.fat, GetNextCluster(m, c))
  <2>1. m.fat[c] \in {0, ClusterLast} \/ Taken(w, m.fat, m.fat[c])
    BY <1>1 DEF Links
  <2> QED BY <1>4, <2>1 DEF GetNextCluster
<1> QED BY <1>3, <1>4, <1>5, <1>6

\* The types that hold also where the machine has stopped.
LEMMA Typing ==
  ASSUME NEW w, NEW m, NEW n, NEW v, Fine(w, m, n, v)
  PROVE  /\ WorldOK(w) /\ IsMachine(m) /\ m.fat \in Tables(w) /\ v \subseteq w.entries
         /\ CacheOK(w, m.cache) /\ Cached(m.cache) \subseteq w.entries
         /\ \A c \in w.entries : /\ ObjectOK(w, c, m.cache[c])
                                 /\ c \in Cached(m.cache) <=> m.cache[c].nth # 0
                                 /\ c \in Cached(m.cache) => CellsOK(w, c, m.cache[c].cells)
         /\ Leads(w, m.log, m.disk) /\ DiskOK(w, m.disk)
         /\ m.at \in {"ready", "stopped", "hung", "spoiled"} /\ m.unsaved \subseteq w.entries
         /\ n \in [w.entries -> Nat] /\ \A c \in w.entries : n[c] <= m.cache[c].refs
         /\ \A c \in w.entries : GetNextCluster(m, c) \in w.entries
<1>1. Fits(w, m) /\ Counted(w, m.cache, n) /\ v \subseteq w.entries
  BY DEF Fine
<1>2. CacheOK(w, m.cache) /\ m.fat \in Tables(w) /\ WorldOK(w)
  BY <1>1 DEF Fits
<1>3. \A c \in w.entries : ObjectOK(w, c, m.cache[c])
  BY <1>2 DEF CacheOK
<1>4. DOMAIN m.cache = w.entries
  BY <1>2 DEF CacheOK
<1>5. \A c \in w.entries : c \in Cached(m.cache) <=> m.cache[c].nth # 0
  BY <1>4 DEF Cached
<1>6. Cached(m.cache) \subseteq w.entries
  BY <1>4 DEF Cached
<1>7. \A c \in w.entries : c \in Cached(m.cache) => CellsOK(w, c, m.cache[c].cells)
  BY <1>3, <1>5 DEF ObjectOK
<1>8. DiskOK(w, m.disk)
  BY <1>1, LeadsTo DEF Fits
<1>9. ASSUME NEW c \in w.entries PROVE GetNextCluster(m, c) \in w.entries
  <2>1. m.fat[c] \in w.entries \cup {ClusterLast}
    BY <1>2 DEF Tables
  <2> QED BY <1>2, <2>1, Entries DEF GetNextCluster
<1> QED BY <1>1, <1>2, <1>3, <1>5, <1>6, <1>7, <1>8, <1>9 DEF Fits, Counted

\* One holder more.
LEMMA WithOne ==
  ASSUME NEW w, WorldOK(w), NEW n \in [w.entries -> Nat], NEW c \in w.entries \cup {None}
  PROVE  /\ With(n, c) \in [w.entries -> Nat]
         /\ \A b \in w.entries : With(n, c)[b] = IF b = c THEN n[b] + 1 ELSE n[b]
         /\ \A b \in w.entries : n[b] <= With(n, c)[b]
<1>1. None \notin w.entries
  BY Entries
<1>2. CASE c = None
  <2>1. With(n, c) = n
    BY <1>2 DEF With
  <2>2. \A b \in w.entries : b # c
    BY <1>1, <1>2
  <2> QED BY <2>1, <2>2
<1>3. CASE c # None
  <2>1. With(n, c) = [n EXCEPT ![c] = @ + 1] /\ c \in w.entries
    BY <1>3 DEF With
  <2> QED BY <2>1
<1> QED BY <1>2, <1>3

LEMMA ZeroFit ==
  ASSUME NEW w, WorldOK(w), NEW c
  PROVE  /\ ZeroCells(c) \in [0..(Size(c) - 1) -> {Zero}]
         /\ CellsOK(w, c, ZeroCells(c))
         /\ \A t : Taken(w, t, 0) => CellsTaken(w, t, c, ZeroCells(c))
<1>1. ZeroCells(c) \in [0..(Size(c) - 1) -> {Zero}]
  <2>1. [i \in 0..(Size(c) - 1) |-> Zero] \in [0..(Size(c) - 1) -> {Zero}]
    OBVIOUS
  <2> DEFINE S == [0..(Size(c) - 1) -> {Zero}]
  <2>2. (CHOOSE cells \in S : TRUE) \in S
    <3> HIDE DEF S
    <3>1. \E cells \in S : TRUE
      BY <2>1 DEF S
    <3> QED BY <3>1
  <2> QED BY <2>2 DEF ZeroCells
<1>2. Zero \in CellOver(w.entries) /\ Zero.cluster = 0
  BY Entries, Constant DEF Zero, CellOver
<1>3. CellsOK(w, c, ZeroCells(c))
  BY <1>1, <1>2 DEF CellsOK
<1>4. \A i \in 0..(Size(c) - 1) : ZeroCells(c)[i] = Zero
  BY <1>1
<1> QED BY <1>1, <1>2, <1>3, <1>4 DEF CellsTaken

LEMMA GetCacheFine ==
  ASSUME NEW w, NEW m, NEW n, NEW v, Fine(w, m, n, v), NEW c \in v
  PROVE  /\ Fine(w, GetCache(m, c), With(n, c), v)
         /\ GetCache(m, c).fat = m.fat
         /\ c \in Cached(GetCache(m, c).cache)
         /\ GetCache(m, c).at = "ready" => m.at = "ready" /\ c \in Clusters
         /\ GetCache(m, c).unsaved = m.unsaved
<1> DEFINE g == GetCache(m, c)
<1>1. /\ WorldOK(w) /\ IsMachine(m) /\ c \in w.entries /\ CacheOK(w, m.cache)
      /\ Leads(w, m.log, m.disk) /\ m.unsaved \in SUBSET w.entries
      /\ ObjectOK(w, c, m.cache[c]) /\ n \in [w.entries -> Nat] /\ n[c] <= m.cache[c].refs
      /\ m.at \in {"ready", "stopped", "hung", "spoiled"}
      /\ DiskOK(w, m.disk) /\ m.fat \in Tables(w)
  BY Typing
<1>2. /\ With(n, c) \in [w.entries -> Nat] /\ With(n, c)[c] = n[c] + 1
      /\ \A b \in w.entries \ {c} : With(n, c)[b] <= n[b]
  BY <1>1, WithOne
<1>3. CASE c \in Cached(m.cache)
  <2> DEFINE p == m.cache[c]
             o == Object(p.refs + 1, p.dirty, p.nth, p.cells)
             x == [m.cache EXCEPT ![c] = o]
  <2>1. p = Object(p.refs, p.dirty, p.nth, p.cells) /\ p.refs \in Nat /\ p.nth # 0
    BY <1>1, <1>3, Typing DEF ObjectOK
  <2>2. g = [m EXCEPT !.cache[c].refs = @ + 1]
    BY <1>3 DEF GetCache
  <2>3. [p EXCEPT !.refs = @ + 1] = o
    <3> HIDE DEF p
    <3> QED BY <2>1 DEF Object
  <2>4. g = [m EXCEPT !.cache = x]
    BY <2>2, <2>3
  <2>5. o.refs = p.refs + 1 /\ o.dirty = p.dirty /\ o.nth = p.nth /\ o.cells = p.cells
    BY DEF Object
  <2> HIDE DEF p, o
  <2>6. ObjectOK(w, c, o)
    <3>1. o = Object(o.refs, o.dirty, o.nth, o.cells)
      BY <2>5 DEF o
    <3> QED BY <1>1, <2>1, <2>5, <3>1 DEF ObjectOK, p
  <2>7. g = Machine(m.fat, x, m.disk, m.log, m.at, m.unsaved)
    BY <1>1, <2>4, Changes
  <2>8. With(n, c)[c] <= o.refs
    <3>1. n[c] \in Nat /\ n[c] <= p.refs
      BY <1>1 DEF p
    <3> QED BY <1>2, <2>1, <2>5, <3>1
  <2>9. ASSUME m.at = "ready" PROVE Kept(w, m.fat, m.disk, m.unsaved, c, o)
    <3>1. Kept(w, m.fat, m.disk, m.unsaved, c, p)
      BY <1>3, <2>9 DEF Fine, AllKept, p
    <3> QED BY <2>1, <2>5, <3>1 DEF Kept
  <2>10. Fine(w, g, With(n, c), v)
    <3>1. o.nth = m.cache[c].nth /\ m.unsaved \ {c} \subseteq m.unsaved
      BY <2>5 DEF p
    <3>2. Fine(w, Machine(m.fat, x, m.disk, m.log, m.at, m.unsaved), With(n, c), v)
      BY <1>1, <1>2, <2>6, <2>8, <2>9, <3>1, FinePut
    <3> QED BY <2>7, <3>2
  <2>11. Cached(x) = Cached(m.cache)
    BY <1>1, <2>5, <2>6, ObjectPut DEF p
  <2>12. g.fat = m.fat /\ g.cache = x /\ g.at = m.at /\ g.unsaved = m.unsaved
    BY <2>7, MachineFields
  <2>13. m.at = "ready" => c \in Clusters
    BY <1>3, TakenBy
  <2> QED BY <1>3, <2>10, <2>11, <2>12, <2>13
<1>4. CASE c \notin Cached(m.cache)
  <2> DEFINE p == m.cache[c]
             o == Loaded(m, c)
             x == [m.cache EXCEPT ![c] = o]
             at == IF c \in Clusters THEN m.at ELSE "stopped"
             cells == IF c \in Clusters THEN m.disk.data[c] ELSE ZeroCells(c)
             nth == Cardinality(Cached(m.cache)) + 1
  <2>1. g = [m EXCEPT !.cache[c] = o, !.at = IF c \in Clusters THEN @ ELSE "stopped"]
    BY <1>4 DEF GetCache
  <2>2. g = Machine(m.fat, x, m.disk, m.log, at, m.unsaved)
    BY <1>1, <2>1 DEF IsMachine, Machine
  <2>3. o.refs = 1 /\ o.dirty = FALSE /\ o.nth = nth /\ o.cells = cells
        /\ o = Object(1, FALSE, nth, cells)
    BY DEF Loaded, Object
  <2>4. nth \in Nat /\ nth # 0
    <3>1. Cached(m.cache) \subseteq w.entries
      BY Typing
    <3>2. IsFiniteSet(Cached(m.cache))
      BY <1>1, <3>1, Entries, FS_Subset
    <3>3. Cardinality(Cached(m.cache)) \in Nat
      BY <3>2, FS_CardinalityType
    <3> QED BY <3>3
  <2>5. CellsOK(w, c, cells)
    BY <1>1, ZeroFit DEF DiskOK
  <2> HIDE DEF o, nth, cells
  <2>6. ObjectOK(w, c, o)
    <3>1. o = Object(o.refs, o.dirty, o.nth, o.cells)
      BY <2>3
    <3>2. o.dirty \in BOOLEAN
      BY <2>3
    <3>3. o.refs \in Nat /\ o.nth \in Nat /\ o.nth # 0 /\ CellsOK(w, c, o.cells)
      BY <2>3, <2>4, <2>5
    <3> QED BY <3>1, <3>2, <3>3 DEF ObjectOK
  <2>7. /\ CacheOK(w, x) /\ Cached(x) = Cached(m.cache) \cup {c}
        /\ \A b \in w.entries : x[b] = IF b = c THEN o ELSE m.cache[b]
    <3>1. o.nth = Cardinality(Cached(m.cache)) + 1
      BY <2>3 DEF nth
    <3> QED BY <1>1, <1>4, <2>6, <3>1, ObjectNew
  <2> HIDE DEF x
  <2>8. /\ IsMachine(g) /\ g.fat = m.fat /\ g.cache = x /\ g.disk = m.disk /\ g.log = m.log
        /\ g.at = at /\ g.unsaved = m.unsaved
    BY <2>2, MachineFields
  <2> HIDE DEF g
  <2>9. Fits(w, g)
    BY <1>1, <2>7, <2>8 DEF Fits
  <2>10. p.refs = 0 /\ n[c] = 0
    <3>1. p.nth = 0 /\ p.refs = 0
      BY <1>1, <1>4, Typing DEF ObjectOK
    <3>2. n[c] \in Nat /\ n[c] <= p.refs
      BY <1>1
    <3> HIDE DEF p
    <3> QED BY <3>1, <3>2
  <2>11. Counted(w, x, With(n, c))
    <3>1. ASSUME NEW b \in w.entries PROVE With(n, c)[b] <= x[b].refs
      <4>1. CASE b = c
        <5>1. x[b].refs = 1
          BY <1>1, <2>3, <2>7, <4>1
        <5>2. With(n, c)[b] = 0 + 1
          BY <1>2, <2>10, <4>1
        <5> QED BY <5>1, <5>2
      <4>2. CASE b # c
        <5>1. x[b] = m.cache[b] /\ With(n, c)[b] = n[b]
          BY <1>1, <2>7, <4>2, WithOne
        <5> QED BY <5>1, Typing
      <4> QED BY <4>1, <4>2
    <3> QED BY <1>2, <3>1 DEF Counted
  <2>12. ASSUME g.at = "ready"
         PROVE  /\ AllKept(w, m.fat, x, m.disk, m.unsaved) /\ Links(w, m.fat) /\ Known(w, m.fat, v)
                /\ m.at = "ready" /\ c \in Clusters
    <3>1. m.at = "ready" /\ c \in Clusters
      BY <2>8, <2>12
    <3>2. /\ AllKept(w, m.fat, m.cache, m.disk, m.unsaved)
          /\ Links(w, m.fat) /\ Known(w, m.fat, v)
      BY <3>1 DEF Fine
    <3>3. Kept(w, m.fat, m.disk, m.unsaved, c, o)
      <4>1. Taken(w, m.fat, c) /\ m.fat = m.disk.fats[1]
        BY <3>2 DEF Known, AllKept
      <4>2. cells = m.disk.data[c] /\ CellsTaken(w, m.fat, c, cells)
        BY <1>1, <3>1, <4>1 DEF DiskOK, cells
      <4> QED BY <2>3, <3>1, <4>1, <4>2 DEF Kept
    <3>4. ASSUME NEW b \in Cached(x) PROVE Kept(w, m.fat, m.disk, m.unsaved, b, x[b])
      <4>1. b \in w.entries /\ (b = c \/ b \in Cached(m.cache))
        BY <1>1, <2>7, <3>4, Typing
      <4> QED BY <2>7, <3>2, <3>3, <4>1 DEF AllKept
    <3> QED BY <3>1, <3>2, <3>4 DEF AllKept
  <2>13. Fine(w, g, With(n, c), v)
    BY <1>1, <2>8, <2>9, <2>11, <2>12, Typing DEF Fine
  <2> QED BY <2>7, <2>8, <2>12, <2>13 DEF g
<1> QED BY <1>3, <1>4

\* A cluster is written.
LEMMA WriteFine ==
  ASSUME NEW w, NEW m, Fits(w, m), NEW c \in w.entries, NEW cells, CellsOK(w, c, cells),
         m.at = "ready" => c # 1 /\ m.fat = m.disk.fats[1] /\ CellsTaken(w, m.fat, c, cells)
  PROVE  \E d, log : \E at \in {"ready", "stopped", "hung", "spoiled"} :
            /\ Write(m, c, cells) = Machine(m.fat, m.cache, d, log, at, m.unsaved)
            /\ Leads(w, log, d)
            /\ at = "ready" => /\ m.at = "ready" /\ c \in Clusters /\ d.fats = m.disk.fats
                               /\ d.data = [m.disk.data EXCEPT ![c] = cells]
            /\ m.at = "ready" /\ c \in Clusters => at = "ready"
            /\ m.at # "ready" => at = m.at
<1> DEFINE x == [kind |-> "data", place |-> c, what |-> cells]
           r == Write(m, c, cells)
<1>1. /\ IsMachine(m) /\ WorldOK(w) /\ Leads(w, m.log, m.disk) /\ DiskOK(w, m.disk)
      /\ m.at \in {"ready", "stopped", "hung", "spoiled"}
  BY LeadsTo DEF Fits
<1>2. CASE m.at # "ready"
  <2>1. r = Machine(m.fat, m.cache, m.disk, m.log, m.at, m.unsaved)
    BY <1>1, <1>2 DEF Write, IsMachine
  <2> QED BY <1>1, <1>2, <2>1
<1>3. CASE m.at = "ready" /\ c > LastCluster
  <2>1. r = Machine(m.fat, m.cache, m.disk, m.log, "stopped", m.unsaved)
    BY <1>1, <1>3, Changes DEF Write
  <2>2. c \notin Clusters
    <3>1. c \in Nat /\ LastCluster \in Nat
      BY <1>1, Entries, Constant
    <3> QED BY <1>3, <3>1, Constant DEF Clusters
  <2> QED BY <1>1, <1>3, <2>1, <2>2
<1>4. CASE m.at = "ready" /\ ~(c > LastCluster)
  <2>1. c \in Clusters
    <3>1. c \in Nat /\ LastCluster \in Nat /\ c # 1
      BY <1>1, <1>4, Entries, Constant
    <3> QED BY <1>4, <3>1 DEF Clusters
  <2> DEFINE d == Written(m.disk, x)
             log == Append(m.log, x)
  <2>2. r = [m EXCEPT !.disk = d, !.log = log]
    BY <1>4 DEF Write
  <2>3. r = Machine(m.fat, m.cache, d, log, "ready", m.unsaved)
    <3> HIDE DEF d, log, r
    <3> QED BY <1>1, <1>4, <2>2 DEF IsMachine, Machine
  <2>4. DiskOK(w, d) /\ d.fats = m.disk.fats /\ d.data = [m.disk.data EXCEPT ![c] = cells]
    BY <1>1, <1>4, <2>1, DiskWithCells
  <2>5. Leads(w, log, d)
    BY <1>1, <2>4, LeadsAppend
  <2> HIDE DEF d, log, r
  <2> QED BY <1>4, <2>1, <2>3, <2>4, <2>5 DEF r
<1> QED BY <1>2, <1>3, <1>4

FlushesTo(w, m, c, d, log, at) ==
  /\ FlushCache(m, c) =
       Machine(m.fat, [m.cache EXCEPT ![c] = Object(m.cache[c].refs, FALSE, m.cache[c].nth,
                                                    m.cache[c].cells)],
               d, log, at, m.unsaved \ {c})
  /\ Leads(w, log, d)
  /\ at = "ready" => /\ m.at = "ready" /\ c \in Clusters /\ d.fats = m.disk.fats
                     /\ d.data = [m.disk.data EXCEPT ![c] = m.cache[c].cells]
Flushes(w, m, c) ==
  \E d, log : \E at \in {"ready", "stopped", "hung", "spoiled"} : FlushesTo(w, m, c, d, log, at)

LEMMA FlushSteps ==
  ASSUME NEW w, NEW m, Fits(w, m), NEW c \in w.entries, m.cache[c].dirty,
         CellsOK(w, c, m.cache[c].cells),
         m.at = "ready" => /\ c # 1 /\ m.fat = m.disk.fats[1]
                           /\ CellsTaken(w, m.fat, c, m.cache[c].cells)
  PROVE  Flushes(w, m, c)
<1> DEFINE r == FlushCache(m, c)
           p == m.cache[c]
           y == Write(m, c, p.cells)
           o == Object(p.refs, FALSE, p.nth, p.cells)
           x == [m.cache EXCEPT ![c] = o]
           u == m.unsaved \ {c}
           Leaves(d, log, at) == /\ Leads(w, log, d)
                                 /\ at = "ready" => /\ m.at = "ready" /\ c \in Clusters
                                                    /\ d.fats = m.disk.fats
                                                    /\ d.data = [m.disk.data EXCEPT ![c] = p.cells]
<1>1. \E d, log : \E at \in {"ready", "stopped", "hung", "spoiled"} :
         y = Machine(m.fat, m.cache, d, log, at, m.unsaved) /\ Leaves(d, log, at)
  BY WriteFine
<1> HIDE DEF Leaves
<1>2. PICK d, log : \E at \in {"ready", "stopped", "hung", "spoiled"} :
         y = Machine(m.fat, m.cache, d, log, at, m.unsaved) /\ Leaves(d, log, at)
  BY <1>1
<1>3. PICK at \in {"ready", "stopped", "hung", "spoiled"} :
         y = Machine(m.fat, m.cache, d, log, at, m.unsaved) /\ Leaves(d, log, at)
  BY <1>2
<1>4. r = [y EXCEPT !.cache[c].dirty = FALSE, !.unsaved = @ \ {c}]
  BY DEF FlushCache
<1> HIDE DEF y, r
<1>5. /\ IsMachine(y) /\ y.fat = m.fat /\ y.cache = m.cache /\ y.disk = d /\ y.log = log
      /\ y.at = at /\ y.unsaved = m.unsaved
  BY <1>3, MachineFields
<1>6. p = Object(p.refs, p.dirty, p.nth, p.cells)
  BY DEF Fits, CacheOK, ObjectOK
<1>7. [y.cache[c] EXCEPT !.dirty = FALSE] = o
  <2> HIDE DEF p
  <2>1. [p EXCEPT !.dirty = FALSE] = o
    BY <1>6, ObjectChanges
  <2> QED BY <1>5, <2>1 DEF p
<1>8. r = [y EXCEPT !.cache = x, !.unsaved = u]
  BY <1>4, <1>5, <1>7
<1>9. r = Machine(m.fat, x, d, log, at, u)
  <2> HIDE DEF x, u
  <2> QED BY <1>5, <1>8 DEF IsMachine, Machine
<1> HIDE DEF x, u
<1>10. PICK at2 \in {"ready", "stopped", "hung", "spoiled"} :
          r = Machine(m.fat, x, d, log, at2, u) /\ Leaves(d, log, at2)
  BY <1>3, <1>9
<1>11. FlushesTo(w, m, c, d, log, at2)
  BY <1>10 DEF FlushesTo, r, x, u, Leaves
<1> QED BY <1>11 DEF Flushes

LEMMA FlushCacheFine ==
  ASSUME NEW w, NEW m, NEW n, NEW v, Fine(w, m, n, v), NEW c \in Cached(m.cache)
  PROVE  /\ Fine(w, FlushCache(m, c), n, v)
         /\ FlushCache(m, c).fat = m.fat
         /\ Cached(FlushCache(m, c).cache) = Cached(m.cache)
         /\ \A b \in w.entries :
              /\ FlushCache(m, c).cache[b].nth = m.cache[b].nth
              /\ FlushCache(m, c).cache[b].refs = m.cache[b].refs
              /\ FlushCache(m, c).cache[b].dirty = (m.cache[b].dirty /\ b # c)
         /\ FlushCache(m, c).at = "ready" => m.at = "ready"
<1> DEFINE r == FlushCache(m, c)
           p == m.cache[c]
<1>1. /\ WorldOK(w) /\ IsMachine(m) /\ Cached(m.cache) \subseteq w.entries /\ CacheOK(w, m.cache)
      /\ m.unsaved \in SUBSET w.entries /\ m.fat \in Tables(w)
      /\ \A b \in w.entries : ObjectOK(w, b, m.cache[b])
      /\ n \in [w.entries -> Nat] /\ \A b \in w.entries : n[b] <= m.cache[b].refs
      /\ m.at \in {"ready", "stopped", "hung", "spoiled"}
      /\ Fits(w, m)
  BY Typing DEF Fine
<1>2. c \in w.entries /\ CellsOK(w, c, p.cells)
  BY <1>1, Typing
<1>3. \A b \in w.entries : m.cache[b].dirty \in BOOLEAN
  BY <1>1 DEF ObjectOK
<1>4. CASE ~p.dirty
  <2>1. r = m
    BY <1>4 DEF FlushCache
  <2>2. \A b \in w.entries : m.cache[b].dirty = (m.cache[b].dirty /\ b # c)
    BY <1>3, <1>4, Zenon
  <2> QED BY <2>1, <2>2, Zenon
<1>5. CASE p.dirty
  <2> DEFINE o == Object(p.refs, FALSE, p.nth, p.cells)
             x == [m.cache EXCEPT ![c] = o]
             u == m.unsaved \ {c}
  <2>1. m.at = "ready" => /\ c # 1 /\ c \in Clusters /\ m.fat = m.disk.fats[1]
                          /\ Kept(w, m.fat, m.disk, m.unsaved, c, p)
                          /\ CellsTaken(w, m.fat, c, p.cells)
    <3>1. 1 \notin Clusters
      BY Constant DEF Clusters
    <3> QED BY <3>1, TakenBy DEF Fine, AllKept
  <2>2. PICK d, log : \E at \in {"ready", "stopped", "hung", "spoiled"} : FlushesTo(w, m, c, d, log, at)
    <3>1. Fits(w, m) /\ p.dirty /\ CellsOK(w, c, p.cells)
      BY <1>1, <1>2, <1>5
    <3>2. m.at = "ready" => c # 1 /\ m.fat = m.disk.fats[1] /\ CellsTaken(w, m.fat, c, m.cache[c].cells)
      BY <2>1
    <3> HIDE DEF x, u, o, r
    <3>3. Flushes(w, m, c)
      <4>1. m.cache[c].dirty /\ CellsOK(w, c, m.cache[c].cells)
        BY <3>1
      <4> HIDE DEF p
      <4> QED BY <1>1, <3>1, <3>2, <4>1, FlushSteps
    <3> QED BY <3>3 DEF Flushes
  <2>3. PICK at \in {"ready", "stopped", "hung", "spoiled"} :
            /\ r = Machine(m.fat, x, d, log, at, u)
            /\ Leads(w, log, d)
            /\ at = "ready" => /\ m.at = "ready" /\ c \in Clusters /\ d.fats = m.disk.fats
                               /\ d.data = [m.disk.data EXCEPT ![c] = p.cells]
    BY <2>2 DEF FlushesTo
  <2> HIDE DEF r
  <2>6. p = Object(p.refs, p.dirty, p.nth, p.cells) /\ p.refs \in Nat /\ p.nth \in Nat
    BY <1>1, <1>2 DEF ObjectOK
  <2>9. r = Machine(m.fat, x, d, log, at, u)
    BY <2>3
  <2>10. o.refs = p.refs /\ o.dirty = FALSE /\ o.nth = p.nth /\ o.cells = p.cells
         /\ o = Object(o.refs, o.dirty, o.nth, o.cells)
    BY DEF Object
  <2>11. ObjectOK(w, c, o)
    <3>1. o.dirty \in BOOLEAN
      BY <2>10
    <3>2. IF o.nth = 0 THEN o.refs = 0 ELSE CellsOK(w, c, o.cells)
      BY <1>1, <1>2, <2>10 DEF ObjectOK
    <3> HIDE DEF o, p
    <3> QED BY <2>6, <2>10, <3>1, <3>2 DEF ObjectOK
  <2>12. ASSUME at = "ready"
         PROVE  /\ m.at = "ready" /\ d.fats[1] = m.disk.fats[1]
                /\ \A b \in Clusters \ {c} : d.data[b] = m.disk.data[b]
                /\ Kept(w, m.fat, d, u, c, o)
    <3>1. m.disk.data = [b \in Clusters |-> m.disk.data[b]]
      BY Typing DEF DiskOK
    <3>2. c \in Clusters /\ d.data = [m.disk.data EXCEPT ![c] = p.cells] /\ d.fats = m.disk.fats
      BY <2>3, <2>12
    <3>3. d.data[c] = p.cells /\ \A b \in Clusters \ {c} : d.data[b] = m.disk.data[b]
      BY <3>1, <3>2
    <3>4. Kept(w, m.fat, m.disk, m.unsaved, c, p)
      BY <2>1, <2>3, <2>12
    <3>5. Kept(w, m.fat, d, u, c, o)
      BY <2>10, <3>3, <3>4 DEF Kept
    <3> QED BY <2>3, <2>12, <3>2, <3>3, <3>5
  <2>13. n[c] <= o.refs /\ o.nth = m.cache[c].nth
    BY <1>1, <1>2, <2>10
  <2>14. u \in SUBSET w.entries /\ m.unsaved \ {c} \subseteq u
    BY <1>1
  <2>15. Leads(w, log, d) /\ at \in {"ready", "stopped", "hung", "spoiled"}
    BY <2>3
  <2> HIDE DEF o, u, p
  <2>16. Fine(w, Machine(m.fat, x, d, log, at, u), n, v)
    <3>1. \A b \in w.entries \ {c} : n[b] <= n[b]
      <4>1. \A b \in w.entries : n[b] \in Nat
        BY <1>1
      <4> QED BY <4>1
    <3>2. at = "ready" => (c \in Cached(m.cache) => Kept(w, m.fat, d, u, c, o))
      BY <2>12
    <3> QED BY <1>1, <1>2, <2>11, <2>12, <2>13, <2>14, <2>15, <3>1, <3>2, FinePut
  <2>17. /\ r.fat = m.fat /\ r.cache = x /\ r.at = at
    BY <2>9, MachineFields
  <2>18. /\ Cached(x) = Cached(m.cache)
         /\ \A b \in w.entries : x[b] = IF b = c THEN o ELSE m.cache[b]
    BY <1>1, <1>2, <2>11, <2>13, ObjectPut
  <2> HIDE DEF x
  <2>19. ASSUME NEW b \in w.entries
         PROVE  /\ x[b].nth = m.cache[b].nth /\ x[b].refs = m.cache[b].refs
                /\ x[b].dirty = (m.cache[b].dirty /\ b # c)
    <3>1. CASE b = c
      <4>1. x[b] = o
        BY <2>18, <3>1, Zenon
      <4>2. x[b].dirty = FALSE /\ x[b].nth = m.cache[b].nth /\ x[b].refs = m.cache[b].refs
        BY <2>10, <3>1, <4>1, Zenon DEF p
      <4>3. (m.cache[b].dirty /\ b # c) = FALSE
        BY <3>1, Zenon
      <4> QED BY <4>2, <4>3, Zenon
    <3>2. CASE b # c
      <4>1. x[b] = m.cache[b]
        BY <2>18, <3>2
      <4> QED BY <1>3, <3>2, <4>1, Zenon
    <3> QED BY <3>1, <3>2
  <2>20. Fine(w, r, n, v)
    BY <2>9, <2>16, Zenon
  <2>21. r.at = "ready" => m.at = "ready"
    BY <2>3, <2>17
  <2>22. Cached(r.cache) = Cached(m.cache)
    BY <2>17, <2>18, Zenon
  <2>23. \A b \in w.entries :
            /\ r.cache[b].nth = m.cache[b].nth /\ r.cache[b].refs = m.cache[b].refs
            /\ r.cache[b].dirty = (m.cache[b].dirty /\ b # c)
    BY <2>17, <2>19, Zenon
  <2> QED BY <2>17, <2>20, <2>21, <2>22, <2>23, Zenon DEF r
<1> QED BY <1>4, <1>5

\* A reference is given back, and the object written if it was the last.
LEMMA FreeCacheFine ==
  ASSUME NEW w, NEW m, NEW n, NEW v, NEW c \in w.entries \cup {None},
         n \in [w.entries -> Nat], Fine(w, m, With(n, c), v)
  PROVE  /\ Fine(w, FreeCache(m, c), n, v)
         /\ FreeCache(m, c).fat = m.fat
         /\ Cached(FreeCache(m, c).cache) = Cached(m.cache)
         /\ FreeCache(m, c).at = "ready" => m.at = "ready"
<1> DEFINE r == FreeCache(m, c)
           k == With(n, c)
           p == m.cache[c]
<1>1. /\ WorldOK(w) /\ IsMachine(m) /\ Cached(m.cache) \subseteq w.entries /\ CacheOK(w, m.cache)
      /\ m.unsaved \in SUBSET w.entries /\ m.fat \in Tables(w)
      /\ Leads(w, m.log, m.disk)
      /\ \A b \in w.entries : ObjectOK(w, b, m.cache[b])
      /\ k \in [w.entries -> Nat] /\ \A b \in w.entries : k[b] <= m.cache[b].refs
      /\ m.at \in {"ready", "stopped", "hung", "spoiled"}
      /\ Fits(w, m)
  BY Typing DEF Fine
<1>2. CASE c = None
  <2>1. r = m /\ k = n
    BY <1>2 DEF FreeCache, With
  <2> QED BY <2>1
<1>3. CASE c # None
  <2>1. c \in w.entries
    BY <1>3
  <2>2. /\ k[c] = n[c] + 1 /\ n[c] \in Nat
        /\ \A b \in w.entries \ {c} : n[b] <= k[b]
    BY <1>1, <2>1, WithOne
  <2>3. p = Object(p.refs, p.dirty, p.nth, p.cells) /\ p.refs \in Nat /\ p.nth \in Nat
        /\ p.dirty \in BOOLEAN
    BY <1>1, <2>1 DEF ObjectOK
  <2>4. p.refs > n[c] /\ p.refs - 1 \in Nat /\ n[c] <= p.refs - 1
    <3>1. k[c] <= p.refs
      BY <1>1, <2>1
    <3> HIDE DEF k, p
    <3> QED BY <2>2, <2>3, <3>1
  <2>5. c \in Cached(m.cache) /\ p.nth # 0 /\ CellsOK(w, c, p.cells)
    <3>1. p.nth = 0 => p.refs = 0
      BY <1>1, <2>1 DEF ObjectOK
    <3>2. p.nth # 0
      <4> HIDE DEF p
      <4> QED BY <2>2, <2>4, <3>1
    <3> QED BY <2>1, <3>2, Typing
  <2> DEFINE o == Object(p.refs - 1, p.dirty, p.nth, p.cells)
             x == [m.cache EXCEPT ![c] = o]
             f == [m EXCEPT !.cache[c].refs = @ - 1]
  <2>6. o.refs = p.refs - 1 /\ o.dirty = p.dirty /\ o.nth = p.nth /\ o.cells = p.cells
        /\ o = Object(o.refs, o.dirty, o.nth, o.cells)
    BY DEF Object
  <2>7. [p EXCEPT !.refs = @ - 1] = o
    <3> HIDE DEF p
    <3> QED BY <2>3, ObjectChanges
  <2>8. f = [m EXCEPT !.cache = x]
    BY <2>7
  <2>9. f = Machine(m.fat, x, m.disk, m.log, m.at, m.unsaved)
    BY <1>1, <2>8, Changes
  <2>10. r = IF f.cache[c].refs = 0 THEN FlushCache(f, c) ELSE f
    BY <1>3 DEF FreeCache
  <2> HIDE DEF f, r, p, o
  <2>11. /\ IsMachine(f) /\ f.fat = m.fat /\ f.cache = x /\ f.disk = m.disk /\ f.log = m.log
         /\ f.at = m.at /\ f.unsaved = m.unsaved
    BY <2>9, MachineFields
  <2>12. ObjectOK(w, c, o)
    <3>1. o.refs \in Nat /\ o.dirty \in BOOLEAN /\ o.nth \in Nat
      BY <2>3, <2>4, <2>6
    <3>2. o.nth # 0 /\ CellsOK(w, c, o.cells)
      BY <2>5, <2>6
    <3>3. o = Object(o.refs, o.dirty, o.nth, o.cells)
      BY <2>6
    <3> QED BY <3>1, <3>2, <3>3, Zenon DEF ObjectOK
  <2>13. /\ CacheOK(w, x) /\ Cached(x) = Cached(m.cache)
         /\ \A b \in w.entries : x[b] = IF b = c THEN o ELSE m.cache[b]
    <3>1. CacheOK(w, m.cache) /\ o.nth = m.cache[c].nth
      BY <1>1, <2>6 DEF p
    <3> QED BY <2>1, <2>12, <3>1, ObjectPut
  <2>14. m.at = "ready" => Kept(w, m.fat, m.disk, m.unsaved, c, p) /\ m.fat = m.disk.fats[1]
    BY <2>5 DEF Fine, AllKept, p
  <2>15. o.nth = m.cache[c].nth /\ n[c] <= o.refs
    BY <2>4, <2>6 DEF p
  <2>16. x[c] = o
    BY <2>1, <2>13
  <2> HIDE DEF x
  <2>17. CASE o.refs = 0 /\ p.dirty
    <3>1. r = FlushCache(f, c) /\ f.cache[c] = o
      BY <2>10, <2>11, <2>16, <2>17
    <3>2. Fits(w, f)
      BY <1>1, <2>11, <2>13 DEF Fits
    <3>3. f.at = "ready" => /\ c # 1 /\ f.fat = f.disk.fats[1]
                            /\ CellsTaken(w, f.fat, c, f.cache[c].cells)
      <4>1. 1 \notin Clusters
        BY Constant DEF Clusters
      <4> QED BY <2>6, <2>11, <2>14, <3>1, <4>1 DEF Kept
    <3> DEFINE q == Object(o.refs, FALSE, o.nth, o.cells)
               z == [x EXCEPT ![c] = q]
               u == m.unsaved \ {c}
               Leaves(d, log, at) == /\ Leads(w, log, d)
                                     /\ at = "ready" =>
                                          /\ m.at = "ready" /\ c \in Clusters
                                          /\ d.fats = m.disk.fats
                                          /\ d.data = [m.disk.data EXCEPT ![c] = o.cells]
    <3>4. \E d, log : \E at \in {"ready", "stopped", "hung", "spoiled"} :
            r = Machine(m.fat, z, d, log, at, u) /\ Leaves(d, log, at)
      <4>1. f.cache[c].dirty /\ CellsOK(w, c, f.cache[c].cells)
        BY <2>5, <2>6, <2>17, <3>1
      <4>2. Flushes(w, f, c)
        BY <2>1, <3>2, <3>3, <4>1, FlushSteps
      <4>3. PICK d, log : \E at \in {"ready", "stopped", "hung", "spoiled"} : FlushesTo(w, f, c, d, log, at)
        BY <4>2 DEF Flushes
      <4>4. PICK at \in {"ready", "stopped", "hung", "spoiled"} : FlushesTo(w, f, c, d, log, at)
        BY <4>3
      <4>5. r = Machine(m.fat, z, d, log, at, u) /\ Leaves(d, log, at)
        BY <2>11, <3>1, <4>4 DEF FlushesTo
      <4> HIDE DEF Leaves
      <4> QED BY <4>5
    <3> HIDE DEF Leaves
    <3>5. PICK d, log : \E at \in {"ready", "stopped", "hung", "spoiled"} :
            r = Machine(m.fat, z, d, log, at, u) /\ Leaves(d, log, at)
      BY <3>4
    <3>6. PICK at \in {"ready", "stopped", "hung", "spoiled"} :
            r = Machine(m.fat, z, d, log, at, u) /\ Leaves(d, log, at)
      BY <3>5
    <3>7. z = [m.cache EXCEPT ![c] = q]
      BY DEF x
    <3>8. q.refs = o.refs /\ q.dirty = FALSE /\ q.nth = o.nth /\ q.cells = o.cells
          /\ q = Object(q.refs, q.dirty, q.nth, q.cells)
      BY DEF Object
    <3> HIDE DEF q
    <3>9. ObjectOK(w, c, q)
      <4>1. q.dirty \in BOOLEAN
        BY <3>8
      <4>2. o.refs \in Nat /\ o.nth \in Nat /\ o.nth # 0 /\ CellsOK(w, c, o.cells)
        BY <2>3, <2>4, <2>5, <2>6
      <4>3. q.refs \in Nat /\ q.nth \in Nat /\ q.nth # 0 /\ CellsOK(w, c, q.cells)
        BY <3>8, <4>2
      <4> QED BY <3>8, <4>1, <4>3 DEF ObjectOK
    <3>10. ASSUME at = "ready"
           PROVE  /\ m.at = "ready" /\ d.fats[1] = m.disk.fats[1]
                  /\ \A b \in Clusters \ {c} : d.data[b] = m.disk.data[b]
                  /\ c \in Cached(m.cache) => Kept(w, m.fat, d, u, c, q)
      <4>1. m.disk.data = [b \in Clusters |-> m.disk.data[b]]
        BY Typing DEF DiskOK
      <4>2. /\ m.at = "ready" /\ c \in Clusters /\ d.fats = m.disk.fats
            /\ d.data = [m.disk.data EXCEPT ![c] = o.cells]
        BY <3>6, <3>10 DEF Leaves
      <4>3. d.data[c] = o.cells /\ \A b \in Clusters \ {c} : d.data[b] = m.disk.data[b]
        BY <4>1, <4>2
      <4>4. Kept(w, m.fat, m.disk, m.unsaved, c, p)
        BY <2>14, <4>2
      <4>5. Kept(w, m.fat, d, u, c, q)
        BY <2>6, <3>8, <4>3, <4>4 DEF Kept
      <4> QED BY <4>2, <4>3, <4>5
    <3>11. n[c] <= q.refs /\ q.nth = m.cache[c].nth
      BY <2>15, <3>8
    <3>12. u \in SUBSET w.entries /\ m.unsaved \ {c} \subseteq u
      BY <1>1
    <3>13. Leads(w, log, d)
      BY <3>6 DEF Leaves
    <3> HIDE DEF u, z
    <3>14. Fine(w, Machine(m.fat, [m.cache EXCEPT ![c] = q], d, log, at, u), n, v)
      BY <1>1, <2>1, <2>2, <3>6, <3>9, <3>10, <3>11, <3>12, <3>13, FinePut
    <3>15. r.fat = m.fat /\ r.cache = z /\ r.at = at
      BY <3>6, MachineFields
    <3>16. Cached(z) = Cached(m.cache)
      BY <1>1, <2>1, <3>7, <3>9, <3>11, ObjectPut
    <3>17. at = "ready" => m.at = "ready"
      BY <3>10
    <3>18. Fine(w, r, n, v)
      BY <3>6, <3>7, <3>14, Zenon
    <3> QED BY <3>15, <3>16, <3>17, <3>18 DEF r
  <2>18. CASE ~(o.refs = 0 /\ p.dirty)
    <3>1. r = f
      BY <2>6, <2>10, <2>11, <2>16, <2>18 DEF FlushCache
    <3>2. ASSUME m.at = "ready" PROVE Kept(w, m.fat, m.disk, m.unsaved, c, o)
      <4>1. o.dirty => o.refs > 0
        <5>1. o.dirty => o.refs # 0
          BY <2>6, <2>18, Zenon
        <5>2. o.refs \in Nat
          BY <2>4, <2>6
        <5> QED BY <5>1, <5>2
      <4> QED BY <2>6, <2>14, <3>2, <4>1 DEF Kept
    <3>3. m.unsaved \ {c} \subseteq m.unsaved
      OBVIOUS
    <3>4. Fine(w, Machine(m.fat, [m.cache EXCEPT ![c] = o], m.disk, m.log, m.at, m.unsaved), n, v)
      BY <1>1, <2>1, <2>2, <2>12, <2>15, <3>2, <3>3, FinePut
    <3>5. Fine(w, r, n, v)
      BY <2>9, <3>1, <3>4, Zenon DEF x
    <3> QED BY <2>11, <2>13, <3>1, <3>5 DEF r
  <2> QED BY <2>17, <2>18
<1> QED BY <1>2, <1>3

-----------------------------------------------------------------------------
(* The table.                                                                *)

LEMMA SetClusterSteps ==
  ASSUME NEW w, NEW m, Fits(w, m), NEW c \in w.entries,
         NEW next \in w.entries \cup {ClusterLast}, next # 0, m.at = "ready" => m.fat = m.disk.fats[1]
  PROVE  \E d, log :
           LET table == [m.fat EXCEPT ![c] = next]
           IN /\ SetCluster(m, c, next) = Machine(table, m.cache, d, log, m.at, m.unsaved)
              /\ Leads(w, log, d)
              /\ table \in Tables(w) /\ Grows(w, m.fat, table)
              /\ \A b \in w.entries : table[b] = IF b = c THEN next ELSE m.fat[b]
              /\ m.at = "ready" => d.fats[1] = table /\ d.data = m.disk.data
<1> DEFINE table == [m.fat EXCEPT ![c] = next]
           copies == [k \in 1..Copies |-> [kind |-> "fat", place |-> k, what |-> table]]
           r == SetCluster(m, c, next)
<1>1. /\ IsMachine(m) /\ WorldOK(w) /\ Leads(w, m.log, m.disk) /\ DiskOK(w, m.disk)
      /\ m.fat \in Tables(w)
  BY LeadsTo DEF Fits
<1>2. table \in Tables(w) /\ \A b \in w.entries : table[b] = IF b = c THEN next ELSE m.fat[b]
  BY <1>1 DEF Tables
<1>3. Grows(w, m.fat, table)
  BY <1>2 DEF Grows
<1> HIDE DEF table
<1>4. CASE m.at # "ready"
  <2>1. r = [m EXCEPT !.fat = table]
    BY <1>4 DEF SetCluster, table
  <2>2. r = Machine(table, m.cache, m.disk, m.log, m.at, m.unsaved)
    BY <1>1, <2>1, Changes
  <2> QED BY <1>1, <1>2, <1>3, <1>4, <2>2 DEF table
<1>5. CASE m.at = "ready"
  <2> DEFINE fats(j) == [k \in 1..Copies |-> IF k <= j THEN table ELSE m.disk.fats[k]]
             es == [j \in 0..Copies |-> [fats |-> fats(j), data |-> m.disk.data]]
             d == [fats |-> [k \in 1..Copies |-> table], data |-> m.disk.data]
             log == m.log \o copies
  <2>1. Copies \in Nat /\ Copies > 0 /\ 1 \in 1..Copies
    BY Constant
  <2>2. m.disk = [fats |-> m.disk.fats, data |-> m.disk.data]
        /\ m.disk.fats \in [1..Copies -> Tables(w)]
        /\ m.disk.data = [b \in Clusters |-> m.disk.data[b]]
    BY <1>1 DEF DiskOK
  <2>3. \A j \in 0..Copies : es[j].fats = fats(j) /\ es[j].data = m.disk.data
    OBVIOUS
  <2>4. \A j \in 0..Copies : \A k \in 1..Copies : es[j].fats[k] = IF k <= j THEN table ELSE m.disk.fats[k]
    BY <2>3
  <2>5. es[0] = m.disk
    <3>1. fats(0) = [k \in 1..Copies |-> m.disk.fats[k]]
      <4>1. \A k \in 1..Copies : ~(k <= 0)
        BY <2>1
      <4> QED BY <4>1
    <3>2. fats(0) = m.disk.fats
      BY <2>2, <3>1
    <3>3. 0 \in 0..Copies
      BY <2>1
    <3> QED BY <2>2, <3>2, <3>3
  <2>6. es[Copies] = d
    <3>1. fats(Copies) = [k \in 1..Copies |-> table]
      <4>1. \A k \in 1..Copies : k <= Copies
        BY <2>1
      <4> QED BY <4>1
    <3>2. Copies \in 0..Copies
      BY <2>1
    <3> QED BY <3>1, <3>2
  <2>7. ASSUME NEW j \in 1..Copies, DiskOK(w, es[j - 1])
        PROVE  es[j] = Written(es[j - 1], copies[j]) /\ DiskOK(w, es[j])
    <3> DEFINE x == [kind |-> "fat", place |-> j, what |-> table]
               e == es[j - 1]
    <3>1. j \in 0..Copies /\ j - 1 \in 0..Copies /\ j \in Nat
      BY <2>1
    <3>2. copies[j] = x
      OBVIOUS
    <3>3. e.fats[1] = IF 1 <= j - 1 THEN table ELSE m.fat
      <4>1. m.fat = m.disk.fats[1]
        BY <1>5
      <4> QED BY <2>1, <2>4, <3>1, <4>1
    <3>4. Grows(w, e.fats[1], table)
      BY <1>3, <3>3 DEF Grows
    <3>5. /\ DiskOK(w, Written(e, x)) /\ Written(e, x).data = e.data
          /\ Written(e, x).fats = [e.fats EXCEPT ![j] = table]
      <4> HIDE DEF e, fats
      <4>1. DiskOK(w, e)
        BY <2>7 DEF e
      <4> HIDE DEF es
      <4> QED BY <1>1, <1>2, <3>4, <4>1, DiskWithTable
    <3>6. [e.fats EXCEPT ![j] = table] = fats(j)
      <4>1. e.fats = fats(j - 1)
        BY <2>3, <3>1
      <4>2. ASSUME NEW k \in 1..Copies
            PROVE  [fats(j - 1) EXCEPT ![j] = table][k] = IF k <= j THEN table ELSE m.disk.fats[k]
        <5>1. k <= j <=> (k = j \/ k <= j - 1)
          BY <2>1, <3>1
        <5> QED BY <5>1
      <4>3. [fats(j - 1) EXCEPT ![j] = table] = [k \in 1..Copies |-> [fats(j - 1) EXCEPT ![j] = table][k]]
        OBVIOUS
      <4> HIDE DEF fats
      <4>4. [fats(j - 1) EXCEPT ![j] = table] = [k \in 1..Copies |-> IF k <= j THEN table ELSE m.disk.fats[k]]
        BY <4>2, <4>3
      <4> QED BY <4>1, <4>4 DEF fats
    <3>7. e.data = m.disk.data /\ es[j] = [fats |-> fats(j), data |-> m.disk.data]
      BY <2>3, <3>1
    <3> HIDE DEF e, x, es, fats, copies
    <3>8. Written(e, x) = [fats |-> Written(e, x).fats, data |-> Written(e, x).data]
      BY <3>5 DEF DiskOK
    <3>9. Written(e, x) = es[j]
      BY <3>5, <3>6, <3>7, <3>8
    <3> QED BY <3>2, <3>5, <3>9 DEF e
  <2> HIDE DEF es, d, copies
  <2>8. \A j \in 0..Copies : DiskOK(w, es[j])
    <3> DEFINE S == {j \in Nat : j \in 0..Copies => DiskOK(w, es[j])}
    <3>1. 0 \in S
      BY <1>1, <2>5
    <3>2. ASSUME NEW j \in Nat, j \in S PROVE j + 1 \in S
      <4>1. SUFFICES ASSUME j + 1 \in 0..Copies PROVE DiskOK(w, es[j + 1])
        OBVIOUS
      <4>2. j \in 0..Copies /\ j + 1 \in 1..Copies /\ (j + 1) - 1 = j
        BY <2>1, <4>1
      <4>3. DiskOK(w, es[j])
        BY <3>2, <4>2
      <4> QED BY <2>7, <4>2, <4>3
    <3> HIDE DEF S
    <3>3. Nat \subseteq S
      BY <3>1, <3>2, Numbers
    <3>4. \A j \in 0..Copies : j \in Nat
      BY <2>1
    <3> QED BY <3>3, <3>4 DEF S
  <2>9. \A j \in 1..Copies : es[j] = Written(es[j - 1], copies[j])
    <3>1. \A j \in 1..Copies : j - 1 \in 0..Copies
      BY <2>1
    <3> QED BY <2>7, <2>8, <3>1
  <2>10. DOMAIN copies = 1..Copies /\ \E S : copies \in Seq(S)
    <3> DEFINE S == {copies[k] : k \in 1..Copies}
    <3>1. copies \in [1..Copies -> S]
      BY DEF copies
    <3>2. copies \in Seq(S)
      <4> HIDE DEF S
      <4> QED BY <2>1, <3>1, SeqDef
    <3> QED BY <3>2 DEF copies
  <2>11. Leads(w, log, es[Copies])
    BY <1>1, <2>1, <2>5, <2>8, <2>9, <2>10, LeadsConcat
  <2>12. r = [m EXCEPT !.fat = table, !.disk.fats = [k \in 1..Copies |-> table], !.log = log]
    BY <1>5 DEF SetCluster, table, copies
  <2>13. r = [m EXCEPT !.fat = table, !.disk = d, !.log = log]
    <3>1. [m.disk EXCEPT !.fats = [k \in 1..Copies |-> table]] = d
      <4>1. ASSUME NEW e, e = [fats |-> e.fats, data |-> e.data], NEW x
            PROVE  [e EXCEPT !.fats = x] = [fats |-> x, data |-> e.data]
        BY <4>1
      <4>2. m.disk = [fats |-> m.disk.fats, data |-> m.disk.data]
        BY <2>2
      <4> QED BY <4>1, <4>2, Zenon DEF d
    <3>2. [m EXCEPT !.fat = table].disk = m.disk
      BY <1>1, Changes, MachineFields
    <3> QED BY <1>1, <2>12, <3>1, <3>2
  <2> HIDE DEF log, r
  <2>14. r = Machine(table, m.cache, d, log, m.at, m.unsaved)
    BY <1>1, <2>13 DEF IsMachine, Machine
  <2>15. Leads(w, log, d) /\ d.fats[1] = table /\ d.data = m.disk.data
    BY <2>1, <2>6, <2>11 DEF d
  <2> QED BY <1>2, <1>3, <2>14, <2>15 DEF r, table
<1> QED BY <1>4, <1>5

LEMMA FirstFreeIs ==
  ASSUME NEW w, WorldOK(w), NEW m, m.fat \in Tables(w), FreeEntries(m) # {}
  PROVE  FirstFree(m) \in w.entries /\ m.fat[FirstFree(m)] = 0
<1> DEFINE F == FreeEntries(m)
           f == CHOOSE c \in F : \A d \in F : c <= d
<1>1. F \subseteq w.entries /\ \A c \in F : m.fat[c] = 0
  BY DEF FreeEntries, Tables
<1>2. F \subseteq Nat /\ F # {}
  BY <1>1, Entries
<1>3. FirstFree(m) = f
  BY DEF FirstFree
<1> HIDE DEF F
<1>4. \E c \in F : \A d \in F : c <= d
  BY <1>2, LeastNumber
<1>5. f \in F
  BY <1>4
<1> QED BY <1>1, <1>3, <1>5

\* The new cluster is free before and marked at the end.
LEMMA AddClusterFine ==
  ASSUME NEW w, NEW m, NEW n, NEW v, Fine(w, m, n, v), NEW parent \in w.entries,
         parent > 0 => parent \in v, FreeEntries(m) # {}
  PROVE  LET c == FirstFree(m)
             r == AddCluster(m, parent)
         IN /\ c \in w.entries /\ m.fat[c] = 0
            /\ Fine(w, r, n, v \cup {c})
            /\ r.cache = m.cache /\ r.at = m.at /\ r.unsaved = m.unsaved
            /\ r.fat[c] = ClusterLast
<1> DEFINE c == FirstFree(m)
           r == AddCluster(m, parent)
           q == IF parent > 0 THEN SetCluster(m, parent, c) ELSE m
           linked == IF parent > 0 THEN [m.fat EXCEPT ![parent] = c] ELSE m.fat
           table == [linked EXCEPT ![c] = ClusterLast]
<1>1. /\ WorldOK(w) /\ IsMachine(m) /\ m.fat \in Tables(w) /\ v \subseteq w.entries
      /\ CacheOK(w, m.cache) /\ Leads(w, m.log, m.disk)
      /\ m.at \in {"ready", "stopped", "hung", "spoiled"} /\ m.unsaved \subseteq w.entries
      /\ Cached(m.cache) \subseteq w.entries
      /\ Fits(w, m) /\ Counted(w, m.cache, n)
  BY Typing DEF Fine
<1>2. c \in w.entries /\ m.fat[c] = 0
  BY <1>1, FirstFreeIs
<1>3. m.at = "ready" => /\ AllKept(w, m.fat, m.cache, m.disk, m.unsaved) /\ m.fat = m.disk.fats[1]
                        /\ Links(w, m.fat) /\ Known(w, m.fat, v) /\ c # 0 /\ m.fat[0] # 0
  BY <1>2, TakenBy DEF Fine, AllKept
<1>4. ClusterLast # 0 /\ ClusterLast \notin w.entries
  BY <1>1, Entries DEF ClusterLast
<1>5. r = SetCluster(q, c, ClusterLast)
  BY DEF AddCluster
<1> HIDE DEF c, r
<1>6. m.at = "ready" \/ c # 0 \/ c = 0
  OBVIOUS
\* Where the machine has stopped the entry may be that of cluster 0.
<1>7. /\ \E d, log : /\ q = Machine(linked, m.cache, d, log, m.at, m.unsaved)
                     /\ Leads(w, log, d)
                     /\ m.at = "ready" => d.fats[1] = linked /\ d.data = m.disk.data
      /\ linked \in Tables(w)
      /\ m.at = "ready" => Grows(w, m.fat, linked)
      /\ \A b \in w.entries : linked[b] = IF parent > 0 /\ b = parent THEN c ELSE m.fat[b]
  <2>1. CASE parent > 0 /\ c # 0
    <3> DEFINE t == [m.fat EXCEPT ![parent] = c]
    <3>1. \E d, log : /\ SetCluster(m, parent, c) = Machine(t, m.cache, d, log, m.at, m.unsaved)
                      /\ Leads(w, log, d)
                      /\ t \in Tables(w) /\ Grows(w, m.fat, t)
                      /\ \A b \in w.entries : t[b] = IF b = parent THEN c ELSE m.fat[b]
                      /\ m.at = "ready" => d.fats[1] = t /\ d.data = m.disk.data
      BY <1>1, <1>2, <1>3, <2>1, SetClusterSteps
    <3>2. q = SetCluster(m, parent, c) /\ linked = t
      BY <2>1
    <3> HIDE DEF q, linked, t
    <3> QED BY <2>1, <3>1, <3>2
  <2>2. CASE parent > 0 /\ c = 0
    <3>1. m.at # "ready"
      BY <1>3, <2>2
    <3>2. q = [m EXCEPT !.fat = linked]
      BY <2>2, <3>1 DEF SetCluster
    <3>3. q = Machine(linked, m.cache, m.disk, m.log, m.at, m.unsaved)
      BY <1>1, <3>2, Changes
    <3>4. linked \in Tables(w) /\ \A b \in w.entries : linked[b] = IF parent > 0 /\ b = parent THEN c ELSE m.fat[b]
      BY <1>1, <1>2, <2>2 DEF Tables
    <3> QED BY <1>1, <3>1, <3>3, <3>4
  <2>3. CASE ~(parent > 0)
    <3>1. q = m /\ linked = m.fat
      BY <2>3
    <3>2. q = Machine(linked, m.cache, m.disk, m.log, m.at, m.unsaved)
      BY <1>1, <3>1 DEF IsMachine
    <3>3. m.at = "ready" => m.disk.fats[1] = linked
      BY <1>3, <3>1
    <3> HIDE DEF q, linked
    <3> QED BY <1>1, <2>3, <3>1, <3>2, <3>3 DEF Grows
  <2> QED BY <2>1, <2>2, <2>3
<1>8. PICK d, log : /\ q = Machine(linked, m.cache, d, log, m.at, m.unsaved)
                    /\ Leads(w, log, d)
                    /\ m.at = "ready" => d.fats[1] = linked /\ d.data = m.disk.data
  BY <1>7
<1> HIDE DEF q, linked
<1>9. /\ IsMachine(q) /\ q.fat = linked /\ q.cache = m.cache /\ q.disk = d /\ q.log = log
      /\ q.at = m.at /\ q.unsaved = m.unsaved
  BY <1>8, MachineFields
<1>10. Fits(w, q)
  BY <1>1, <1>7, <1>8, <1>9 DEF Fits
<1>11. \E e, l : /\ r = Machine(table, m.cache, e, l, m.at, m.unsaved)
                 /\ Leads(w, l, e)
                 /\ table \in Tables(w) /\ Grows(w, linked, table)
                 /\ \A b \in w.entries : table[b] = IF b = c THEN ClusterLast ELSE linked[b]
                 /\ m.at = "ready" => e.fats[1] = table /\ e.data = m.disk.data
  <2>1. q.at = "ready" => q.fat = q.disk.fats[1]
    BY <1>8, <1>9
  <2>2. \E e, l :
          /\ SetCluster(q, c, ClusterLast) =
               Machine([q.fat EXCEPT ![c] = ClusterLast], q.cache, e, l, q.at, q.unsaved)
          /\ Leads(w, l, e)
          /\ [q.fat EXCEPT ![c] = ClusterLast] \in Tables(w)
          /\ Grows(w, q.fat, [q.fat EXCEPT ![c] = ClusterLast])
          /\ \A b \in w.entries : [q.fat EXCEPT ![c] = ClusterLast][b] = IF b = c THEN ClusterLast ELSE q.fat[b]
          /\ q.at = "ready" => e.fats[1] = [q.fat EXCEPT ![c] = ClusterLast] /\ e.data = q.disk.data
    BY <1>2, <1>4, <1>10, <2>1, SetClusterSteps
  <2> QED BY <1>5, <1>8, <1>9, <2>2
<1>12. PICK e, l : /\ r = Machine(table, m.cache, e, l, m.at, m.unsaved)
                   /\ Leads(w, l, e)
                   /\ table \in Tables(w) /\ Grows(w, linked, table)
                   /\ \A b \in w.entries : table[b] = IF b = c THEN ClusterLast ELSE linked[b]
                   /\ m.at = "ready" => e.fats[1] = table /\ e.data = m.disk.data
  BY <1>11
<1> HIDE DEF table
<1>13. /\ IsMachine(r) /\ r.fat = table /\ r.cache = m.cache /\ r.disk = e /\ r.log = l
       /\ r.at = m.at /\ r.unsaved = m.unsaved
  BY <1>12, MachineFields
<1>14. Fits(w, r)
  BY <1>1, <1>12, <1>13 DEF Fits
<1>15. ASSUME m.at = "ready"
       PROVE  /\ AllKept(w, table, m.cache, e, m.unsaved) /\ Links(w, table)
              /\ Known(w, table, v \cup {c})
  <2>1. Grows(w, m.fat, table)
    BY <1>7, <1>12, <1>15 DEF Grows
  <2>2. \A b \in Cached(m.cache) : Kept(w, table, e, m.unsaved, b, m.cache[b])
    <3>1. ASSUME NEW b \in Cached(m.cache) PROVE Kept(w, table, e, m.unsaved, b, m.cache[b])
      <4>1. Kept(w, m.fat, m.disk, m.unsaved, b, m.cache[b])
        BY <1>3, <1>15 DEF AllKept
      <4>2. Taken(w, table, b) /\ CellsTaken(w, table, b, m.cache[b].cells)
        BY <2>1, <4>1, TakenGrows DEF Kept
      <4> QED BY <1>12, <1>15, <4>1, <4>2 DEF Kept
    <3> QED BY <3>1
  <2>3. Taken(w, table, c)
    BY <1>2, <1>4, <1>12 DEF Taken
  <2>4. \A b \in w.entries : table[b] \in {0, ClusterLast} \/ Taken(w, table, table[b])
    <3>1. ASSUME NEW b \in w.entries PROVE table[b] \in {0, ClusterLast} \/ Taken(w, table, table[b])
      <4>1. table[b] \in {ClusterLast, c} \/ table[b] = m.fat[b]
        BY <1>7, <1>12
      <4>2. m.fat[b] \in {0, ClusterLast} \/ Taken(w, m.fat, m.fat[b])
        BY <1>3, <1>15 DEF Links
      <4>3. Taken(w, m.fat, m.fat[b]) => Taken(w, table, m.fat[b])
        BY <2>1, TakenGrows
      <4> QED BY <2>3, <4>1, <4>2, <4>3
    <3> QED BY <3>1
  <2>5. Known(w, table, v)
    BY <1>3, <1>15, <2>1, TakenGrows
  <2>6. AllKept(w, table, m.cache, e, m.unsaved)
    BY <1>12, <1>15, <2>2 DEF AllKept
  <2> QED BY <2>3, <2>4, <2>5, <2>6 DEF Links, Known
<1>16. Fine(w, r, n, v \cup {c})
  BY <1>1, <1>2, <1>13, <1>14, <1>15 DEF Fine
<1>17. r.fat[c] = ClusterLast
  BY <1>2, <1>12, <1>13
<1> QED BY <1>2, <1>13, <1>16, <1>17 DEF c, r

\* A new directory's cluster is emptied.
LEMMA ClearFine ==
  ASSUME NEW w, NEW m, NEW n, NEW v, Fine(w, m, n, v), NEW c \in w.entries,
         m.at = "ready" => /\ c # 1 /\ Taken(w, m.fat, c)
                           /\ c \in Cached(m.cache) => c \in w.dangling
  PROVE  Fine(w, Clear(m, c), n, v) /\ Clear(m, c).fat = m.fat
<1> DEFINE r == Clear(m, c)
           cells == ZeroCells(c)
<1>1. /\ WorldOK(w) /\ IsMachine(m) /\ m.fat \in Tables(w) /\ v \subseteq w.entries
      /\ CacheOK(w, m.cache) /\ Leads(w, m.log, m.disk) /\ DiskOK(w, m.disk)
      /\ m.at \in {"ready", "stopped", "hung", "spoiled"} /\ m.unsaved \subseteq w.entries
      /\ Cached(m.cache) \subseteq w.entries
      /\ Fits(w, m) /\ Counted(w, m.cache, n)
  BY Typing DEF Fine
<1>2. m.at = "ready" => /\ AllKept(w, m.fat, m.cache, m.disk, m.unsaved) /\ m.fat = m.disk.fats[1]
                        /\ Links(w, m.fat) /\ Known(w, m.fat, v) /\ Taken(w, m.fat, 0)
  BY TakenBy DEF Fine, AllKept
<1>3. CellsOK(w, c, cells) /\ (m.at = "ready" => CellsTaken(w, m.fat, c, cells))
  BY <1>1, <1>2, ZeroFit
<1> HIDE DEF cells
<1>4. PICK d, log : \E at \in {"ready", "stopped", "hung", "spoiled"} :
            /\ r = Machine(m.fat, m.cache, d, log, at, m.unsaved)
            /\ Leads(w, log, d)
            /\ at = "ready" => /\ m.at = "ready" /\ c \in Clusters /\ d.fats = m.disk.fats
                               /\ d.data = [m.disk.data EXCEPT ![c] = cells]
  <2>1. r = Write(m, c, cells)
    BY DEF Clear, cells
  <2> HIDE DEF r
  <2> QED BY <1>1, <1>2, <1>3, <2>1, WriteFine
<1>5. PICK at \in {"ready", "stopped", "hung", "spoiled"} :
            /\ r = Machine(m.fat, m.cache, d, log, at, m.unsaved)
            /\ Leads(w, log, d)
            /\ at = "ready" => /\ m.at = "ready" /\ c \in Clusters /\ d.fats = m.disk.fats
                               /\ d.data = [m.disk.data EXCEPT ![c] = cells]
  BY <1>4
<1> HIDE DEF r
<1>6. /\ IsMachine(r) /\ r.fat = m.fat /\ r.cache = m.cache /\ r.disk = d /\ r.log = log
      /\ r.at = at /\ r.unsaved = m.unsaved
  BY <1>5, MachineFields
<1>7. Fits(w, r)
  BY <1>1, <1>5, <1>6 DEF Fits
<1>8. ASSUME at = "ready"
      PROVE  AllKept(w, m.fat, m.cache, d, m.unsaved) /\ Links(w, m.fat) /\ Known(w, m.fat, v)
  <2>1. m.at = "ready" /\ d.fats = m.disk.fats /\ d.data = [m.disk.data EXCEPT ![c] = cells]
    BY <1>5, <1>8
  <2>2. m.disk.data = [b \in Clusters |-> m.disk.data[b]]
    BY <1>1 DEF DiskOK
  <2>3. \A b \in Clusters \ {c} : d.data[b] = m.disk.data[b]
    BY <2>1, <2>2
  <2>4. ASSUME NEW b \in Cached(m.cache) PROVE Kept(w, m.fat, d, m.unsaved, b, m.cache[b])
    <3>1. Kept(w, m.fat, m.disk, m.unsaved, b, m.cache[b])
      BY <1>2, <2>1 DEF AllKept
    <3>2. b = c => b \in w.dangling
      BY <2>1
    <3>3. b \in Clusters
      BY <3>1 DEF Kept
    <3> QED BY <2>3, <3>1, <3>2, <3>3 DEF Kept
  <2> QED BY <1>2, <2>1, <2>4 DEF AllKept
<1>9. Fine(w, r, n, v)
  BY <1>1, <1>6, <1>7, <1>8 DEF Fine
<1> QED BY <1>6, <1>9 DEF r

-----------------------------------------------------------------------------
(* The handles of directories.                                               *)

\* A handle d, on a machine m that is fine for it and for those counted by n.
IsDir(w, d) ==
  /\ d = [root |-> d.root, offset |-> d.offset, cache |-> d.cache]
  /\ d.root \in w.entries /\ d.cache \in w.entries \cup {None}
  /\ d.cache # None => d.offset \in 0..(Size(d.cache) - 1)

DirFine(w, m, d, n, v) ==
  /\ IsDir(w, d) /\ d.root \in v
  /\ n \in [w.entries -> Nat] /\ Fine(w, m, With(n, d.cache), v)

\* What an operation on the directory returns.
DirResult(r) == r = [m |-> r.m, d |-> r.d, ok |-> r.ok]

LEMMA DirResults ==
  ASSUME NEW m, NEW d, NEW ok
  PROVE  /\ DirResult([m |-> m, d |-> d, ok |-> ok])
         /\ [m |-> m, d |-> d, ok |-> ok].m = m
         /\ [m |-> m, d |-> d, ok |-> ok].d = d
         /\ [m |-> m, d |-> d, ok |-> ok].ok = ok
BY DEF DirResult

\* What is held is in the cache.
LEMMA HeldCached ==
  ASSUME NEW w, NEW m, NEW n, NEW v, NEW c \in w.entries, n \in [w.entries -> Nat],
         Fine(w, m, With(n, c), v)
  PROVE  c \in Cached(m.cache) /\ m.cache[c].refs > 0 /\ m.cache[c].refs \in Nat
<1>1. ObjectOK(w, c, m.cache[c]) /\ With(n, c)[c] <= m.cache[c].refs /\ WorldOK(w)
  BY Typing
<1>2. With(n, c)[c] = n[c] + 1 /\ n[c] \in Nat
  BY <1>1, WithOne
<1>3. m.cache[c].refs \in Nat /\ (m.cache[c].nth = 0 => m.cache[c].refs = 0)
  BY <1>1 DEF ObjectOK
<1>4. m.cache[c].refs > 0
  BY <1>1, <1>2, <1>3
<1>5. m.cache[c].nth # 0
  BY <1>3, <1>4
<1> QED BY <1>3, <1>4, <1>5, Typing

\* Another cluster is fetched, which is known or follows in a chain.
LEMMA FetchFine ==
  ASSUME NEW w, NEW m, NEW n, NEW v, Fine(w, m, n, v), NEW c \in w.entries,
         m.at = "ready" => Taken(w, m.fat, c)
  PROVE  /\ Fine(w, GetCache(m, c), With(n, c), v)
         /\ GetCache(m, c).fat = m.fat
         /\ c \in Cached(GetCache(m, c).cache)
         /\ GetCache(m, c).at = "ready" => m.at = "ready" /\ c \in Clusters
         /\ GetCache(m, c).unsaved = m.unsaved
<1>1. Fine(w, m, n, v \cup {c})
  BY Learn
<1>2. /\ Fine(w, GetCache(m, c), With(n, c), v \cup {c})
      /\ GetCache(m, c).fat = m.fat
      /\ c \in Cached(GetCache(m, c).cache)
      /\ GetCache(m, c).at = "ready" => m.at = "ready" /\ c \in Clusters
      /\ GetCache(m, c).unsaved = m.unsaved
  BY <1>1, GetCacheFine
<1>3. /\ With(n, c) \in [w.entries -> Nat]
      /\ \A b \in w.entries : With(n, c)[b] \in Nat
  BY <1>2, Typing
<1>4. \A b \in w.entries : With(n, c)[b] <= With(n, c)[b]
  BY <1>3
<1>5. Fine(w, GetCache(m, c), With(n, c), v)
  BY <1>2, <1>3, <1>4, Fewer
<1> QED BY <1>2, <1>5

LEMMA NextFine ==
  ASSUME NEW w, NEW m, NEW n, NEW v, n \in [w.entries -> Nat], NEW b \in w.entries,
         Fine(w, m, With(n, b), v), NEW c \in w.entries, m.at = "ready" => Taken(w, m.fat, c)
  PROVE  LET r == GetCache(FreeCache(m, b), c)
         IN /\ Fine(w, r, With(n, c), v) /\ r.fat = m.fat
            /\ c \in Cached(r.cache)
            /\ r.at = "ready" => m.at = "ready" /\ c \in Clusters
<1> DEFINE f == FreeCache(m, b)
<1>1. Fine(w, f, n, v) /\ f.fat = m.fat /\ (f.at = "ready" => m.at = "ready")
  BY FreeCacheFine
<1> HIDE DEF f
<1>2. f.at = "ready" => Taken(w, f.fat, c)
  BY <1>1
<1>3. /\ Fine(w, GetCache(f, c), With(n, c), v) /\ GetCache(f, c).fat = f.fat
      /\ c \in Cached(GetCache(f, c).cache)
      /\ GetCache(f, c).at = "ready" => f.at = "ready" /\ c \in Clusters
  BY <1>1, <1>2, FetchFine
<1> QED BY <1>1, <1>3 DEF f

LEMMA DirectoryReadInternalFine ==
  ASSUME NEW w, NEW m, NEW d, NEW n, NEW v, DirFine(w, m, d, n, v)
  PROVE  LET r == DirectoryReadInternal(m, d)
         IN /\ DirResult(r) /\ DirFine(w, r.m, r.d, n, v)
            /\ r.d.cache # None /\ r.d.root = d.root
            /\ r.m.at = "ready" => m.at = "ready"
<1> DEFINE r == DirectoryReadInternal(m, d)
           next == IF d.root = 0 THEN 0 ELSE GetNextCluster(m, d.cache)
           To(machine, c) == [m |-> machine, d |-> [d EXCEPT !.cache = c, !.offset = 0], ok |-> TRUE]
<1>1. /\ d = [root |-> d.root, offset |-> d.offset, cache |-> d.cache]
      /\ d.root \in w.entries /\ d.root \in v /\ d.cache \in w.entries \cup {None}
      /\ n \in [w.entries -> Nat] /\ Fine(w, m, With(n, d.cache), v)
      /\ d.cache # None => d.offset \in 0..(Size(d.cache) - 1)
  BY DEF DirFine, IsDir
<1>2. WorldOK(w) /\ None \notin w.entries
  BY <1>1, Typing, Entries
\* The handle is at the beginning of another cluster.
<1>3. ASSUME NEW c \in w.entries, NEW machine, Fine(w, machine, With(n, c), v),
             machine.at = "ready" => m.at = "ready"
      PROVE  /\ DirResult(To(machine, c)) /\ To(machine, c).m = machine
             /\ DirFine(w, machine, To(machine, c).d, n, v)
             /\ To(machine, c).d.cache # None /\ To(machine, c).d.root = d.root
  <2> DEFINE e == [d EXCEPT !.cache = c, !.offset = 0]
  <2>1. e = [root |-> d.root, offset |-> 0, cache |-> c]
    <3>1. d = [root |-> d.root, offset |-> d.offset, cache |-> d.cache]
      BY <1>1
    <3>2. DOMAIN d = {"root", "offset", "cache"}
      BY <3>1
    <3>3. DOMAIN e = {"root", "offset", "cache"} /\ e = [f \in {"root", "offset", "cache"} |-> e[f]]
      BY <3>2
    <3>4. e.root = d.root /\ e.offset = 0 /\ e.cache = c
      BY <3>2
    <3> HIDE DEF e
    <3> QED BY <3>3, <3>4
  <2>2. To(machine, c).d = e /\ DirResult(To(machine, c)) /\ To(machine, c).m = machine
    BY DirResults
  <2> HIDE DEF e, To
  <2>3. e.root = d.root /\ e.offset = 0 /\ e.cache = c
    BY <2>1
  <2>4. 0 \in 0..(Size(c) - 1)
    BY Constant
  <2>5. e = [root |-> e.root, offset |-> e.offset, cache |-> e.cache]
    BY <2>1, <2>3
  <2>6. IsDir(w, e)
    BY <1>1, <2>3, <2>4, <2>5 DEF IsDir
  <2>7. DirFine(w, machine, e, n, v)
    BY <1>1, <1>3, <2>3, <2>6 DEF DirFine
  <2> QED BY <1>2, <2>2, <2>3, <2>7
<1>4. CASE d.cache = None
  <2> DEFINE g == GetCache(m, d.root)
  <2>1. r = To(g, d.root)
    BY <1>4 DEF DirectoryReadInternal
  <2>2. With(n, d.cache) = n
    BY <1>4 DEF With
  <2>3. Fine(w, g, With(n, d.root), v) /\ (g.at = "ready" => m.at = "ready")
    BY <1>1, <2>2, GetCacheFine
  <2> HIDE DEF g, To, r
  <2> QED BY <1>1, <1>3, <2>1, <2>3 DEF r
<1>5. CASE d.cache # None /\ d.offset + 1 < Size(d.cache)
  <2> DEFINE e == [d EXCEPT !.offset = @ + 1]
  <2>1. r = [m |-> m, d |-> e, ok |-> TRUE]
    BY <1>5 DEF DirectoryReadInternal
  <2>2. e = [root |-> d.root, offset |-> d.offset + 1, cache |-> d.cache]
    BY <1>1
  <2> HIDE DEF e, r
  <2>3. e.root = d.root /\ e.offset = d.offset + 1 /\ e.cache = d.cache
    BY <2>2
  <2>4. d.offset + 1 \in 0..(Size(d.cache) - 1)
    <3>1. \A a, s \in Nat : a \in 0..(s - 1) /\ a + 1 < s => a + 1 \in 0..(s - 1)
      OBVIOUS
    <3>2. Size(d.cache) \in Nat /\ d.offset \in 0..(Size(d.cache) - 1)
      BY <1>1, <1>5, Constant
    <3>3. d.offset \in Nat
      BY <3>2
    <3> QED BY <1>5, <3>1, <3>2, <3>3
  <2>5. IsDir(w, e)
    BY <1>1, <2>2, <2>3, <2>4 DEF IsDir
  <2>6. DirFine(w, m, e, n, v)
    BY <1>1, <2>3, <2>5 DEF DirFine
  <2> QED BY <1>5, <2>1, <2>3, <2>6, DirResults DEF r
<1>6. CASE d.cache # None /\ ~(d.offset + 1 < Size(d.cache)) /\ next = 0
  <2>1. r = [m |-> m, d |-> d, ok |-> FALSE]
    BY <1>6 DEF DirectoryReadInternal
  <2> HIDE DEF r
  <2> QED BY <1>6, <2>1, DirResults DEF r
<1>7. CASE d.cache # None /\ ~(d.offset + 1 < Size(d.cache)) /\ next # 0
  <2> DEFINE g == GetCache(FreeCache(m, d.cache), next)
  <2>1. r = To(g, next)
    BY <1>7 DEF DirectoryReadInternal
  <2>2. d.cache \in w.entries /\ next = GetNextCluster(m, d.cache)
    BY <1>1, <1>7
  <2>3. next \in w.entries /\ (m.at = "ready" => Taken(w, m.fat, next))
    BY <1>1, <2>2, Typing, TakenBy
  <2> HIDE DEF next
  <2>4. Fine(w, g, With(n, next), v) /\ (g.at = "ready" => m.at = "ready")
    <3>1. n \in [w.entries -> Nat] /\ Fine(w, m, With(n, d.cache), v)
      BY <1>1
    <3> QED BY <2>2, <2>3, <3>1, NextFine
  <2> HIDE DEF g, To, r
  <2> QED BY <1>3, <2>1, <2>3, <2>4 DEF r
<1> QED BY <1>4, <1>5, <1>6, <1>7

\* What a directory operation returns is fine, and the handle is at a cell.
AtCell(w, r, n, v, root) ==
  DirResult(r) /\ DirFine(w, r.m, r.d, n, v) /\ r.d.cache # None /\ r.d.root = root

LEMMA DirStops ==
  ASSUME NEW w, NEW r, NEW n, NEW v, NEW root, AtCell(w, r, n, v, root),
         NEW s \in {"stopped", "hung", "spoiled"}
  PROVE  AtCell(w, [r EXCEPT !.m.at = s], n, v, root) /\ [r EXCEPT !.m.at = s].m.at = s
<1> DEFINE q == [r EXCEPT !.m.at = s]
           m == StoppedAt(r.m, s)
<1>1. DirResult(r) /\ DirFine(w, r.m, r.d, n, v) /\ r.d.cache # None /\ r.d.root = root
  BY DEF AtCell
<1>2. q = [m |-> m, d |-> r.d, ok |-> r.ok]
  <2>1. q = [r EXCEPT !.m = m]
    BY DEF StoppedAt
  <2> HIDE DEF m, q
  <2> QED BY <1>1, <2>1 DEF DirResult
<1>3. Fine(w, m, With(n, r.d.cache), v) /\ m.at = s
  <2>1. Fine(w, r.m, With(n, r.d.cache), v)
    BY <1>1 DEF DirFine
  <2> QED BY <2>1, Stops
<1> HIDE DEF q, m
<1>4. q.m = m /\ q.d = r.d /\ DirResult(q)
  BY <1>2, DirResults
<1>5. DirFine(w, m, r.d, n, v)
  BY <1>1, <1>3 DEF DirFine
<1>6. AtCell(w, q, n, v, root) /\ q.m.at = s
  BY <1>1, <1>3, <1>4, <1>5 DEF AtCell
<1> QED BY <1>6 DEF q

LEMMA AllCellsNumber == AllCells \in Nat
BY FATAssumption DEF AllCells

LEMMA ReadOnFine ==
  ASSUME NEW w, NEW m, NEW d, NEW n, NEW v, NEW wanted, DirFine(w, m, d, n, v)
  PROVE  /\ AtCell(w, ReadOn(m, d, wanted), n, v, d.root)
         /\ ReadOn(m, d, wanted).m.at = "ready" => m.at = "ready"
<1> DEFINE Next(r) == IF Passes(r, wanted) THEN DirectoryReadInternal(r.m, r.d) ELSE r
           first == DirectoryReadInternal(m, d)
           Is(f, k) == f = [i \in 0..k |-> IF i = 0 THEN first ELSE Next(f[i - 1])]
           Good(r) == AtCell(w, r, n, v, d.root) /\ (r.m.at = "ready" => m.at = "ready")
           f == CHOOSE f : Is(f, AllCells)
           last == f[AllCells]
<1>1. ReadOn(m, d, wanted) = IF Passes(last, wanted) THEN [last EXCEPT !.m.at = "hung"] ELSE last
  BY DEF ReadOn
<1>2. Good(first)
  BY DirectoryReadInternalFine DEF AtCell
<1>3. ASSUME NEW r, Good(r) PROVE Good(Next(r))
  <2> DEFINE q == DirectoryReadInternal(r.m, r.d)
  <2>1. DirResult(q) /\ DirFine(w, q.m, q.d, n, v) /\ q.d.cache # None /\ q.d.root = r.d.root
        /\ (q.m.at = "ready" => r.m.at = "ready")
    BY <1>3, DirectoryReadInternalFine DEF AtCell
  <2>2. r.d.root = d.root
    BY <1>3 DEF AtCell
  <2> HIDE DEF q
  <2>3. Good(q)
    BY <1>3, <2>1, <2>2 DEF AtCell
  <2> HIDE DEF Good
  <2> QED BY <1>3, <2>3 DEF q
<1> HIDE DEF Next, first, Good
<1>4. \A k \in Nat : \E g : Is(g, k)
  <2> DEFINE S == {k \in Nat : \E g : Is(g, k)}
  <2>1. 0 \in S
    <3>1. Is([i \in 0..0 |-> first], 0)
      OBVIOUS
    <3> QED BY <3>1
  <2>2. ASSUME NEW k \in Nat, k \in S PROVE k + 1 \in S
    <3>1. PICK g : Is(g, k)
      BY <2>2
    <3> DEFINE h == [i \in 0..(k + 1) |-> IF i = k + 1 THEN Next(g[k]) ELSE g[i]]
    <3>2. \A i \in 0..k : h[i] = g[i] /\ g[i] = IF i = 0 THEN first ELSE Next(g[i - 1])
      BY <3>1
    <3>3. ASSUME NEW i \in 0..(k + 1) PROVE h[i] = IF i = 0 THEN first ELSE Next(h[i - 1])
      <4>1. CASE i = k + 1
        <5>1. h[k] = g[k] /\ i - 1 = k /\ i # 0
          BY <3>2, <4>1
        <5> QED BY <4>1, <5>1
      <4>2. CASE i # k + 1 /\ i # 0
        <5>1. i \in 0..k /\ i - 1 \in 0..k
          BY <4>2
        <5> QED BY <3>2, <4>2, <5>1
      <4>3. CASE i = 0
        <5>1. i \in 0..k
          BY <4>3
        <5> QED BY <3>2, <4>3, <5>1
      <4> QED BY <4>1, <4>2, <4>3
    <3>4. h = [i \in 0..(k + 1) |-> h[i]]
      OBVIOUS
    <3> HIDE DEF h
    <3>5. Is(h, k + 1)
      BY <3>3, <3>4
    <3> HIDE DEF Is
    <3> QED BY <3>5
  <2> HIDE DEF S
  <2>3. Nat \subseteq S
    BY <2>1, <2>2, Numbers
  <2> QED BY <2>3 DEF S
<1>5. Is(f, AllCells) /\ AllCells \in Nat
  <2>1. AllCells \in Nat
    BY AllCellsNumber
  <2>2. \E g : Is(g, AllCells)
    BY <1>4, <2>1
  <2> HIDE DEF Is
  <2> QED BY <2>1, <2>2
<1> HIDE DEF f
<1>6. f[0] = first /\ \A i \in 1..AllCells : f[i] = Next(f[i - 1])
  <2>1. 0 \in 0..AllCells /\ \A i \in 1..AllCells : i \in 0..AllCells /\ i # 0
    BY <1>5
  <2> QED BY <1>5, <2>1
<1> HIDE DEF Is
<1>7. Good(f[AllCells])
  <2> DEFINE S == {k \in Nat : k \in 0..AllCells => Good(f[k])}
  <2>1. 0 \in S
    BY <1>2, <1>6
  <2>2. ASSUME NEW k \in Nat, k \in S PROVE k + 1 \in S
    <3>1. SUFFICES ASSUME k + 1 \in 0..AllCells PROVE Good(f[k + 1])
      OBVIOUS
    <3>2. k \in 0..AllCells /\ k + 1 \in 1..AllCells /\ (k + 1) - 1 = k
      BY <1>5, <3>1
    <3>3. f[k + 1] = Next(f[k]) /\ Good(f[k])
      BY <1>6, <2>2, <3>2
    <3> QED BY <1>3, <3>3
  <2> HIDE DEF S
  <2>3. Nat \subseteq S
    BY <2>1, <2>2, Numbers
  <2>4. AllCells \in 0..AllCells
    BY <1>5
  <2> QED BY <1>5, <2>3, <2>4 DEF S
<1>8. Good(last)
  BY <1>2, <1>3, <1>7 DEF last
<1> HIDE DEF last
<1>9. CASE Passes(last, wanted)
  <2>1. AtCell(w, last, n, v, d.root)
    BY <1>8 DEF Good
  <2>2. AtCell(w, [last EXCEPT !.m.at = "hung"], n, v, d.root) /\ [last EXCEPT !.m.at = "hung"].m.at = "hung"
    BY <2>1, DirStops
  <2> QED BY <1>1, <1>9, <2>2
<1>10. CASE ~Passes(last, wanted)
  BY <1>1, <1>8, <1>10 DEF Good
<1> QED BY <1>9, <1>10

\* A cell is set and its cluster marked, by one who holds it.
Marked(m, c, i, cell) == [SetCell(m, c, i, cell) EXCEPT !.cache[c].dirty = TRUE]

LEMMA MarkedFine ==
  ASSUME NEW w, NEW m, NEW n, NEW v, NEW c \in w.entries, n \in [w.entries -> Nat],
         Fine(w, m, With(n, c), v), NEW i \in 0..(Size(c) - 1),
         NEW cell \in CellOver(w.entries), m.at = "ready" => Taken(w, m.fat, cell.cluster)
  PROVE  /\ Fine(w, Marked(m, c, i, cell), With(n, c), v)
         /\ Marked(m, c, i, cell).fat = m.fat /\ Marked(m, c, i, cell).at = m.at
<1> DEFINE p == m.cache[c]
           cells == [p.cells EXCEPT ![i] = cell]
           o == Object(p.refs, TRUE, p.nth, cells)
           x == [m.cache EXCEPT ![c] = o]
           r == Marked(m, c, i, cell)
           k == With(n, c)
<1>1. /\ WorldOK(w) /\ IsMachine(m) /\ CacheOK(w, m.cache) /\ Leads(w, m.log, m.disk)
      /\ ObjectOK(w, c, m.cache[c]) /\ m.at \in {"ready", "stopped", "hung", "spoiled"}
      /\ m.unsaved \in SUBSET w.entries /\ k \in [w.entries -> Nat]
      /\ \A b \in w.entries : k[b] <= m.cache[b].refs
  BY Typing
<1>2. c \in Cached(m.cache) /\ p.refs > 0 /\ p.refs \in Nat
  BY HeldCached
<1>3. p = Object(p.refs, p.dirty, p.nth, p.cells) /\ p.nth \in Nat /\ p.nth # 0
  BY <1>1, <1>2, Typing DEF ObjectOK
<1>4. CellsOK(w, c, p.cells)
  BY <1>2, Typing
<1>5. DOMAIN p.cells = 0..(Size(c) - 1) /\ p.cells = [j \in 0..(Size(c) - 1) |-> p.cells[j]]
  BY <1>4 DEF CellsOK
<1>6. CellsOK(w, c, cells) /\ \A j \in 0..(Size(c) - 1) : cells[j] = IF j = i THEN cell ELSE p.cells[j]
  <2> HIDE DEF p
  <2> QED BY <1>4, <1>5 DEF CellsOK
<1>7. r = [m EXCEPT !.cache = x]
  <2> DEFINE q == Object(p.refs, p.dirty, p.nth, cells)
             y == [m.cache EXCEPT ![c] = q]
             s == SetCell(m, c, i, cell)
  <2>1. [p EXCEPT !.cells[i] = cell] = q
    <3>1. [p EXCEPT !.cells = cells] = q
      <4> HIDE DEF p, cells
      <4> QED BY <1>3, ObjectChanges
    <3> QED BY <3>1
  <2>2. s = [m EXCEPT !.cache = y]
    BY <2>1 DEF SetCell
  <2>3. s = Machine(m.fat, y, m.disk, m.log, m.at, m.unsaved)
    BY <1>1, <2>2, Changes
  <2>4. IsMachine(s) /\ s.cache = y
    BY <2>3, MachineFields
  <2>5. r = [s EXCEPT !.cache[c].dirty = TRUE]
    BY DEF Marked
  <2>6. c \in DOMAIN m.cache
    BY <1>1 DEF CacheOK
  <2>7. y[c] = q
    BY <2>6
  <2>8. [q EXCEPT !.dirty = TRUE] = o
    <3>1. q = Object(q.refs, q.dirty, q.nth, q.cells) /\ q.refs = p.refs /\ q.nth = p.nth /\ q.cells = cells
      BY DEF Object
    <3> HIDE DEF q, p, cells
    <3> QED BY <3>1, ObjectChanges
  <2>9. [y EXCEPT ![c] = o] = x
    <3> HIDE DEF q, o
    <3> QED BY <2>6
  <2> HIDE DEF s, r, q, o, y, x
  <2>10. r = [s EXCEPT !.cache = [y EXCEPT ![c] = o]]
    BY <2>4, <2>5, <2>7, <2>8
  <2>11. r = [s EXCEPT !.cache = x]
    BY <2>9, <2>10
  <2>12. r = Machine(s.fat, x, s.disk, s.log, s.at, s.unsaved)
    BY <2>4, <2>11, Changes
  <2>13. r = Machine(m.fat, x, m.disk, m.log, m.at, m.unsaved)
    BY <2>3, <2>12, MachineFields
  <2> QED BY <1>1, <2>13, Changes
<1>8. r = Machine(m.fat, x, m.disk, m.log, m.at, m.unsaved)
  BY <1>1, <1>7, Changes
<1>9. o.refs = p.refs /\ o.dirty = TRUE /\ o.nth = p.nth /\ o.cells = cells
      /\ o = Object(o.refs, o.dirty, o.nth, o.cells)
  BY DEF Object
<1> HIDE DEF o, r, k, cells
<1>10. ObjectOK(w, c, o)
  <2>1. o.dirty \in BOOLEAN
    BY <1>9
  <2>2. o.refs \in Nat /\ o.nth \in Nat /\ o.nth # 0 /\ CellsOK(w, c, o.cells)
    BY <1>2, <1>3, <1>6, <1>9
  <2> QED BY <1>9, <2>1, <2>2 DEF ObjectOK
<1>11. ASSUME m.at = "ready" PROVE Kept(w, m.fat, m.disk, m.unsaved, c, o)
  <2>1. Kept(w, m.fat, m.disk, m.unsaved, c, p)
    BY <1>2, <1>11 DEF Fine, AllKept
  <2>2. CellsTaken(w, m.fat, c, o.cells)
    <3>1. \A j \in 0..(Size(c) - 1) : o.cells[j] = IF j = i THEN cell ELSE p.cells[j]
      BY <1>6, <1>9
    <3>2. \A j \in 0..(Size(c) - 1) : Taken(w, m.fat, p.cells[j].cluster)
      BY <2>1 DEF Kept, CellsTaken
    <3> QED BY <1>11, <3>1, <3>2 DEF CellsTaken
  <2>3. o.dirty /\ o.refs > 0
    BY <1>2, <1>9
  <2> QED BY <2>1, <2>2, <2>3 DEF Kept
<1>12. /\ k[c] <= o.refs /\ o.nth = m.cache[c].nth /\ m.unsaved \ {c} \subseteq m.unsaved
       /\ \A b \in w.entries \ {c} : k[b] <= k[b]
  <2>1. \A b \in w.entries : k[b] \in Nat
    BY <1>1
  <2> QED BY <1>1, <1>9, <2>1
<1>13. Fine(w, m, k, v)
  BY DEF k
<1>14. Fine(w, Machine(m.fat, x, m.disk, m.log, m.at, m.unsaved), k, v)
  BY <1>1, <1>10, <1>11, <1>12, <1>13, FinePut
<1>15. r.fat = m.fat /\ r.at = m.at
  BY <1>8, MachineFields
<1>16. Fine(w, r, k, v)
  BY <1>8, <1>14, Zenon
<1> QED BY <1>15, <1>16 DEF r, k

LEMMA DirectoryRewindFine ==
  ASSUME NEW w, NEW m, NEW d, NEW n, NEW v, DirFine(w, m, d, n, v)
  PROVE  LET r == DirectoryRewind(m, d)
         IN /\ DirResult(r) /\ DirFine(w, r.m, r.d, n, v) /\ r.d.root = d.root /\ r.d.cache = None
            /\ r.m.at = "ready" => m.at = "ready"
<1> DEFINE r == DirectoryRewind(m, d)
           f == FreeCache(m, d.cache)
           e == [d EXCEPT !.cache = None, !.offset = 0]
<1>1. /\ d = [root |-> d.root, offset |-> d.offset, cache |-> d.cache]
      /\ d.root \in w.entries /\ d.root \in v /\ d.cache \in w.entries \cup {None}
      /\ n \in [w.entries -> Nat] /\ Fine(w, m, With(n, d.cache), v)
  BY DEF DirFine, IsDir
<1>2. Fine(w, f, n, v) /\ (f.at = "ready" => m.at = "ready")
  BY <1>1, FreeCacheFine
<1>3. r = [m |-> f, d |-> e, ok |-> TRUE]
  BY DEF DirectoryRewind
<1>4. e = [root |-> d.root, offset |-> 0, cache |-> None]
  <2>1. DOMAIN d = {"root", "offset", "cache"}
    BY <1>1
  <2>2. DOMAIN e = {"root", "offset", "cache"} /\ e = [x \in {"root", "offset", "cache"} |-> e[x]]
    BY <2>1
  <2>3. e.root = d.root /\ e.offset = 0 /\ e.cache = None
    BY <2>1
  <2> HIDE DEF e
  <2> QED BY <2>2, <2>3
<1> HIDE DEF r, e, f
<1>5. e.root = d.root /\ e.offset = 0 /\ e.cache = None
  BY <1>4
<1>6. IsDir(w, e) /\ With(n, e.cache) = n
  BY <1>1, <1>4, <1>5 DEF IsDir, With
<1>7. DirFine(w, f, e, n, v)
  BY <1>1, <1>2, <1>5, <1>6 DEF DirFine
<1> QED BY <1>2, <1>3, <1>5, <1>7, DirResults DEF r

\* The cell that a handle is at.
LEMMA EntryFine ==
  ASSUME NEW w, NEW m, NEW d, NEW n, NEW v, DirFine(w, m, d, n, v), d.cache # None
  PROVE  /\ d.cache \in w.entries /\ d.cache \in Cached(m.cache)
         /\ d.offset \in 0..(Size(d.cache) - 1)
         /\ Entry(m, d) \in CellOver(w.entries)
         /\ Entry(m, d).cluster \in w.entries /\ Entry(m, d).size \in 0..MaxSize
         /\ m.at = "ready" => Taken(w, m.fat, Entry(m, d).cluster) /\ Taken(w, m.fat, d.cache)
<1>1. /\ d.cache \in w.entries /\ n \in [w.entries -> Nat] /\ Fine(w, m, With(n, d.cache), v)
      /\ d.offset \in 0..(Size(d.cache) - 1)
  BY DEF DirFine, IsDir
<1>2. d.cache \in Cached(m.cache)
  BY <1>1, HeldCached
<1>3. CellsOK(w, d.cache, m.cache[d.cache].cells)
  BY <1>1, <1>2, Typing
<1>4. Entry(m, d) \in CellOver(w.entries)
  BY <1>1, <1>3 DEF Entry, CellsOK
<1>5. Entry(m, d).cluster \in w.entries /\ Entry(m, d).size \in 0..MaxSize
  BY <1>4 DEF CellOver
<1>6. ASSUME m.at = "ready" PROVE Taken(w, m.fat, Entry(m, d).cluster) /\ Taken(w, m.fat, d.cache)
  BY <1>1, <1>2, <1>6, TakenBy DEF Entry, CellsTaken
<1> QED BY <1>1, <1>2, <1>4, <1>5, <1>6

LEMMA DirectoryFollowFine ==
  ASSUME NEW w, NEW m, NEW d, NEW n, NEW v, DirFine(w, m, d, n, v), d.cache # None
  PROVE  LET r == DirectoryFollow(m, d)
         IN /\ DirResult(r) /\ r.d.root \in w.entries
            /\ DirFine(w, r.m, r.d, n, v \cup {r.d.root})
            /\ r.m.at = "ready" => m.at = "ready"
            /\ ~r.ok => r.m = m /\ r.d = d
<1> DEFINE r == DirectoryFollow(m, d)
           c == Entry(m, d).cluster
           f == FreeCache(m, d.cache)
           e == [root |-> c, offset |-> 0, cache |-> None]
<1>1. /\ d = [root |-> d.root, offset |-> d.offset, cache |-> d.cache]
      /\ d.root \in w.entries /\ d.root \in v /\ d.cache \in w.entries
      /\ n \in [w.entries -> Nat] /\ Fine(w, m, With(n, d.cache), v)
  BY DEF DirFine, IsDir
<1>2. c \in w.entries /\ (m.at = "ready" => Taken(w, m.fat, c))
  BY EntryFine
<1>3. CASE ~Entry(m, d).dir
  <2>1. r = [m |-> m, d |-> d, ok |-> FALSE]
    BY <1>3 DEF DirectoryFollow
  <2>2. v \cup {d.root} = v
    BY <1>1
  <2> HIDE DEF r
  <2> QED BY <1>1, <2>1, <2>2, DirResults DEF r
<1>4. CASE Entry(m, d).dir
  <2>1. r.m = f /\ r.d = e /\ r.ok = TRUE /\ DirResult(r)
    BY <1>4 DEF DirectoryFollow, DirResult
  <2>2. Fine(w, f, n, v) /\ f.fat = m.fat /\ (f.at = "ready" => m.at = "ready")
    BY <1>1, FreeCacheFine
  <2> HIDE DEF r, f, c
  <2>3. Fine(w, f, n, v \cup {c})
    BY <1>2, <2>2, Learn
  <2>4. e.root = c /\ e.offset = 0 /\ e.cache = None
    OBVIOUS
  <2>5. IsDir(w, e) /\ With(n, e.cache) = n
    BY <1>2 DEF IsDir, With
  <2> HIDE DEF e
  <2>6. DirFine(w, f, e, n, v \cup {c})
    BY <1>1, <2>3, <2>4, <2>5 DEF DirFine
  <2> QED BY <1>2, <2>1, <2>2, <2>4, <2>6 DEF r
<1> QED BY <1>3, <1>4

\* Fewer clusters that the handle knows of.
LEMMA DirFewer ==
  ASSUME NEW w, NEW m, NEW d, NEW n, NEW v, DirFine(w, m, d, n, v), NEW u \in SUBSET v, d.root \in u
  PROVE  DirFine(w, m, d, n, u)
<1>1. n \in [w.entries -> Nat] /\ Fine(w, m, With(n, d.cache), v) /\ IsDir(w, d)
  BY DEF DirFine
<1>2. \A b \in w.entries : With(n, d.cache)[b] \in Nat
  BY <1>1, Typing
<1>3. With(n, d.cache) \in [w.entries -> Nat]
      /\ \A b \in w.entries : With(n, d.cache)[b] <= With(n, d.cache)[b]
  BY <1>1, <1>2, Typing
<1>4. Fine(w, m, With(n, d.cache), u)
  BY <1>1, <1>3, Fewer
<1> QED BY <1>1, <1>4 DEF DirFine

LEMMA FindFreeFine ==
  ASSUME NEW w, NEW m, NEW d, NEW n, NEW v, DirFine(w, m, d, n, v)
  PROVE  /\ AtCell(w, FindFree(m, d), n, v, d.root)
         /\ FindFree(m, d).m.at = "ready" => m.at = "ready"
<1> DEFINE r == DirectoryRewind(m, d)
<1>1. DirFine(w, r.m, r.d, n, v) /\ r.d.root = d.root /\ (r.m.at = "ready" => m.at = "ready")
  BY DirectoryRewindFine
<1>2. FindFree(m, d) = ReadOn(r.m, r.d, Free)
  BY DEF FindFree
<1> HIDE DEF r
<1> QED BY <1>1, <1>2, ReadOnFine

LEMMA SetEntryFine ==
  ASSUME NEW w, NEW r, NEW n, NEW v, NEW root, AtCell(w, r, n, v, root),
         NEW cell \in CellOver(w.entries), cell.cluster \in v
  PROVE  /\ AtCell(w, SetEntry(r, cell), n, v, root)
         /\ SetEntry(r, cell).m.at = r.m.at
<1> DEFINE q == SetEntry(r, cell)
           m == Marked(r.m, r.d.cache, r.d.offset, cell)
<1>1. /\ DirResult(r) /\ DirFine(w, r.m, r.d, n, v) /\ r.d.cache # None /\ r.d.root = root
      /\ n \in [w.entries -> Nat] /\ Fine(w, r.m, With(n, r.d.cache), v)
  BY DEF AtCell, DirFine
<1>2. r.d.cache \in w.entries /\ r.d.offset \in 0..(Size(r.d.cache) - 1)
  BY <1>1, EntryFine
<1>3. r.m.at = "ready" => Taken(w, r.m.fat, cell.cluster)
  BY <1>1 DEF Fine, Known
<1>4. Fine(w, m, With(n, r.d.cache), v) /\ m.at = r.m.at
  BY <1>1, <1>2, <1>3, MarkedFine
<1>5. q = [r EXCEPT !.m = m]
  BY DEF SetEntry, Marked
<1> HIDE DEF m, q
<1>6. q = [m |-> m, d |-> r.d, ok |-> r.ok]
  BY <1>1, <1>5 DEF DirResult
<1>7. q.m = m /\ q.d = r.d /\ DirResult(q)
  BY <1>6, DirResults
<1>8. DirFine(w, m, r.d, n, v)
  BY <1>1, <1>4 DEF DirFine
<1>9. AtCell(w, q, n, v, root) /\ q.m.at = r.m.at
  BY <1>1, <1>4, <1>7, <1>8 DEF AtCell
<1> QED BY <1>9 DEF q

LEMMA DirectoryAddEntryFine ==
  ASSUME NEW w, NEW m, NEW d, NEW n, NEW v, DirFine(w, m, d, n, v),
         NEW cell \in CellOver(w.entries), cell.cluster \in v
  PROVE  /\ AtCell(w, DirectoryAddEntry(m, d, cell), n, v, d.root)
         /\ DirectoryAddEntry(m, d, cell).m.at = "ready" => m.at = "ready"
<1> DEFINE first == FindFree(m, d)
           second == FindFree(first.m, first.d)
           r == DirectoryAddEntry(m, d, cell)
<1>1. AtCell(w, first, n, v, d.root) /\ (first.m.at = "ready" => m.at = "ready")
  BY FindFreeFine
<1>2. r = IF first.ok THEN SetEntry(second, cell) ELSE Full(first)
  BY DEF DirectoryAddEntry
<1> HIDE DEF first, r
<1>3. CASE first.ok
  <2>1. AtCell(w, second, n, v, d.root) /\ (second.m.at = "ready" => first.m.at = "ready")
    BY <1>1, FindFreeFine DEF AtCell
  <2> HIDE DEF second
  <2>2. AtCell(w, SetEntry(second, cell), n, v, d.root) /\ SetEntry(second, cell).m.at = second.m.at
    BY <2>1, SetEntryFine
  <2> QED BY <1>1, <1>2, <1>3, <2>1, <2>2 DEF r
<1>4. CASE ~first.ok /\ first.d.root = 0
  BY <1>1, <1>2, <1>4 DEF Full, r
<1>5. CASE ~first.ok /\ first.d.root # 0
  <2>1. r = [first EXCEPT !.m.at = "hung"]
    BY <1>2, <1>5 DEF Full
  <2>2. AtCell(w, r, n, v, d.root) /\ r.m.at = "hung"
    <3>1. "hung" \in {"stopped", "hung", "spoiled"} /\ AtCell(w, first, n, v, d.root)
      BY <1>1
    <3>2. AtCell(w, [first EXCEPT !.m.at = "hung"], n, v, d.root) /\ [first EXCEPT !.m.at = "hung"].m.at = "hung"
      BY <3>1, DirStops, Zenon
    <3> QED BY <2>1, <3>2, Zenon
  <2>3. AtCell(w, r, n, v, d.root) /\ (r.m.at = "ready" => m.at = "ready")
    BY <2>2
  <2> QED BY <2>3 DEF r
<1> QED BY <1>3, <1>4, <1>5

LEMMA ZeroSize == 0 \in 0..MaxSize
<1>1. MaxSize \in Nat
  BY Constant
<1> QED BY <1>1

LEMMA NewCells ==
  ASSUME NEW w, WorldOK(w), NEW c \in w.entries,
         NEW name \in {"", ".", "..", "old"} \cup ShortNames \cup Bytes
  PROVE  /\ DirCell(name, c) \in CellOver(w.entries) /\ DirCell(name, c).cluster = c
         /\ [Zero EXCEPT !.name = name] \in CellOver(w.entries) /\ [Zero EXCEPT !.name = name].cluster = 0
         /\ Data(name) \in CellOver(w.entries) /\ Data(name).cluster = 0
<1> DEFINE A == {"", ".", "..", "old"} \cup ShortNames \cup Bytes
           cell(x, y, z) == [name |-> x, dir |-> y, cluster |-> z, size |-> 0]
<1>1. 0 \in w.entries /\ 0 \in 0..MaxSize
  BY Entries, ZeroSize
<1>2. \A x \in A : \A y \in BOOLEAN : \A z \in w.entries :
         cell(x, y, z) \in CellOver(w.entries) /\ cell(x, y, z).cluster = z
  <2> HIDE DEF A
  <2>1. CellOver(w.entries) = [name : A, dir : BOOLEAN, cluster : w.entries, size : 0..MaxSize]
    BY DEF CellOver, A
  <2> QED BY <1>1, <2>1
<1>3. /\ DirCell(name, c) = cell(name, TRUE, c)
      /\ [Zero EXCEPT !.name = name] = cell(name, FALSE, 0)
      /\ Data(name) = cell(name, FALSE, 0)
  <2> DEFINE e == DirCell(name, c)
             f == [Zero EXCEPT !.name = name]
  <2>1. DOMAIN Zero = {"name", "dir", "cluster", "size"} /\ Zero.cluster = 0 /\ Zero.size = 0
        /\ Zero.dir = FALSE
    BY DEF Zero
  <2>2. /\ e = [Zero EXCEPT !.name = name, !.dir = TRUE, !.cluster = c]
        /\ Data(name) = f
    BY DEF DirCell, Data
  <2>3. /\ e.name = name /\ e.dir = TRUE /\ e.cluster = c /\ e.size = 0
        /\ DOMAIN e = {"name", "dir", "cluster", "size"}
        /\ e = [x \in {"name", "dir", "cluster", "size"} |-> e[x]]
    BY <2>1, <2>2
  <2>4. /\ f.name = name /\ f.dir = FALSE /\ f.cluster = 0 /\ f.size = 0
        /\ DOMAIN f = {"name", "dir", "cluster", "size"}
        /\ f = [x \in {"name", "dir", "cluster", "size"} |-> f[x]]
    BY <2>1
  <2> HIDE DEF e, f
  <2>5. e = cell(name, TRUE, c)
    BY <2>3
  <2>6. f = cell(name, FALSE, 0)
    BY <2>4
  <2> QED BY <2>2, <2>5, <2>6 DEF e, f
<1> HIDE DEF cell
<1>4. name \in A /\ TRUE \in BOOLEAN /\ FALSE \in BOOLEAN
  OBVIOUS
<1> HIDE DEF A
<1>5. cell(name, TRUE, c) \in CellOver(w.entries) /\ cell(name, TRUE, c).cluster = c
  BY <1>2, <1>4, Zenon
<1>6. cell(name, FALSE, 0) \in CellOver(w.entries) /\ cell(name, FALSE, 0).cluster = 0
  BY <1>1, <1>2, <1>4, Zenon
<1> QED BY <1>3, <1>5, <1>6, Zenon

LEMMA FileCreateFine ==
  ASSUME NEW w, NEW m, NEW d, NEW n, NEW v, DirFine(w, m, d, n, v), 0 \in v, NEW name \in Names
  PROVE  LET r == FileCreate(m, d, name)
         IN AtCell(w, r, n, v, d.root) /\ (r.m.at = "ready" => m.at = "ready")
<1> DEFINE cell == [Zero EXCEPT !.name = LFNToF83(name)]
           q == DirectoryAddEntry(m, d, cell)
           r == FileCreate(m, d, name)
<1>1. WorldOK(w) /\ 0 \in w.entries
  BY Typing, Entries DEF DirFine
<1>2. LFNToF83(name) \in ShortNames
  BY DEF LFNToF83, ShortNames
<1>3. cell \in CellOver(w.entries) /\ cell.cluster = 0
  BY <1>1, <1>2, NewCells
<1> HIDE DEF cell
<1>4. AtCell(w, q, n, v, d.root) /\ (q.m.at = "ready" => m.at = "ready")
  BY <1>3, DirectoryAddEntryFine
<1>5. r = [q EXCEPT !.ok = TRUE]
  BY DEF FileCreate, cell
<1> HIDE DEF q, r
<1>6. r = [m |-> q.m, d |-> q.d, ok |-> TRUE]
  BY <1>4, <1>5 DEF AtCell, DirResult
<1>7. AtCell(w, r, n, v, d.root) /\ r.m = q.m
  BY <1>4, <1>6, DirResults DEF AtCell
<1> QED BY <1>4, <1>7 DEF r

\* The cluster of a new directory, and its entries.
LEMMA DirectoryCreateFine ==
  ASSUME NEW w, NEW m, NEW d, NEW n, NEW v, DirFine(w, m, d, n, v), NEW name \in Names
  PROVE  LET r == DirectoryCreate(m, d, name)
         IN /\ DirResult(r) /\ DirFine(w, r.m, r.d, n, v)
            /\ r.m.at = "ready" => m.at = "ready"
            /\ r.d.root = d.root
<1> DEFINE r == DirectoryCreate(m, d, name)
           c == FirstFree(m)
           added == AddCluster(m, 0)
           cleared == Clear(added, c)
           cell == DirCell(LFNToF83(name), c)
           entered == DirectoryAddEntry(cleared, d, cell)
           fresh == [DirectoryOpenRoot EXCEPT !.root = c]
           dot == DirectoryAddEntry(entered.m, fresh, DirCell(".", c))
           dotdot == DirectoryAddEntry(dot.m, dot.d, DirCell("..", entered.d.root))
<1>1. r = IF ~CanAddCluster(m, 0) THEN [m |-> [m EXCEPT !.at = "spoiled"], d |-> d, ok |-> TRUE]
          ELSE IF entered.m.at # "ready" THEN entered
          ELSE [entered EXCEPT !.m = dotdot.m, !.ok = TRUE]
  BY DEF DirectoryCreate
<1>2. /\ IsDir(w, d) /\ d.root \in v /\ n \in [w.entries -> Nat]
      /\ Fine(w, m, With(n, d.cache), v)
  BY DEF DirFine
<1>3. WorldOK(w) /\ v \subseteq w.entries /\ 0 \in w.entries /\ d.root \in w.entries
  BY <1>2, Typing, Entries
<1> HIDE DEF r
<1>4. CASE ~CanAddCluster(m, 0)
  <2>1. r = [m |-> StoppedAt(m, "spoiled"), d |-> d, ok |-> TRUE]
    BY <1>1, <1>4 DEF StoppedAt
  <2>2. Fine(w, StoppedAt(m, "spoiled"), With(n, d.cache), v) /\ StoppedAt(m, "spoiled").at = "spoiled"
    BY <1>2, Stops
  <2>3. r.m = StoppedAt(m, "spoiled") /\ r.d = d /\ DirResult(r)
    BY <2>1, DirResults
  <2>4. DirFine(w, r.m, r.d, n, v)
    BY <1>2, <2>2, <2>3 DEF DirFine
  <2> QED BY <2>2, <2>3, <2>4 DEF r
<1>5. CASE CanAddCluster(m, 0)
  <2> DEFINE u == v \cup {c}
  <2>1. FreeEntries(m) # {}
    BY <1>5 DEF CanAddCluster
  <2>2. /\ c \in w.entries /\ m.fat[c] = 0 /\ Fine(w, added, With(n, d.cache), u)
        /\ added.cache = m.cache /\ added.at = m.at /\ added.fat[c] = ClusterLast
    <3> DEFINE k == With(n, d.cache)
    <3>1. Fine(w, m, k, v) /\ 0 \in w.entries /\ ~(0 > 0) /\ (0 > 0 => 0 \in v)
      BY <1>2, <1>3
    <3> HIDE DEF k
    <3>2. /\ c \in w.entries /\ m.fat[c] = 0 /\ Fine(w, added, k, u)
          /\ added.cache = m.cache /\ added.at = m.at /\ added.fat[c] = ClusterLast
      BY <2>1, <3>1, AddClusterFine
    <3> QED BY <3>2 DEF k
  <2> HIDE DEF c, added
  <2>3. added.at = "ready" => /\ c # 1 /\ Taken(w, added.fat, c)
                              /\ c \in Cached(added.cache) => c \in w.dangling
    <3>1. SUFFICES ASSUME added.at = "ready"
                   PROVE  /\ c # 1 /\ Taken(w, added.fat, c)
                          /\ c \in Cached(added.cache) => c \in w.dangling
      OBVIOUS
    <3>2. m.at = "ready"
      BY <2>2, <3>1
    <3>3. m.fat[1] # 0 /\ \A b \in Cached(m.cache) : Taken(w, m.fat, b)
      BY <1>2, <3>2, TakenBy
    <3>4. c # 1
      BY <2>2, <3>3
    <3>5. Taken(w, added.fat, c)
      BY <2>2 DEF Taken, ClusterLast
    <3>6. c \in Cached(m.cache) => c \in w.dangling
      BY <2>2, <3>3 DEF Taken
    <3> QED BY <2>2, <3>4, <3>5, <3>6
  <2>4. Fine(w, cleared, With(n, d.cache), u)
    BY <2>2, <2>3, ClearFine
  <2>5. cleared.at = "ready" => m.at = "ready"
    BY <2>2 DEF cleared, Clear, Write
  <2> HIDE DEF cleared
  <2>6. DirFine(w, cleared, d, n, u)
    BY <1>2, <2>4 DEF DirFine
  <2>7. cell \in CellOver(w.entries) /\ cell.cluster \in u
    <3>1. LFNToF83(name) \in ShortNames
      BY DEF LFNToF83, ShortNames
    <3>2. cell \in CellOver(w.entries) /\ cell.cluster = c
      BY <1>3, <2>2, <3>1, NewCells
    <3> QED BY <3>2
  <2> HIDE DEF cell
  <2>8. AtCell(w, entered, n, u, d.root) /\ (entered.m.at = "ready" => cleared.at = "ready")
    BY <2>6, <2>7, DirectoryAddEntryFine
  <2> HIDE DEF entered
  <2>9. DirResult(entered) /\ DirFine(w, entered.m, entered.d, n, u) /\ entered.d.root = d.root
    BY <2>8 DEF AtCell
  <2>10. DirFine(w, entered.m, entered.d, n, v)
    <3>1. v \in SUBSET u
      OBVIOUS
    <3> QED BY <1>2, <2>9, <3>1, DirFewer
  <2>11. CASE entered.m.at # "ready"
    BY <1>1, <1>5, <2>9, <2>10, <2>11 DEF r
  <2>12. CASE entered.m.at = "ready"
    <3> DEFINE k == With(n, entered.d.cache)
    <3>1. /\ k \in [w.entries -> Nat] /\ Fine(w, entered.m, k, u) /\ IsDir(w, entered.d)
      BY <2>9, Typing DEF DirFine
    <3>2. fresh.root = c /\ fresh.cache = None /\ fresh = [root |-> fresh.root, offset |-> fresh.offset, cache |-> fresh.cache]
      BY DEF DirectoryOpenRoot
    <3> HIDE DEF fresh, k
    <3>3. IsDir(w, fresh) /\ With(k, fresh.cache) = k
      BY <2>2, <3>2 DEF IsDir, With
    <3>4. DirFine(w, entered.m, fresh, k, u)
      BY <3>1, <3>2, <3>3 DEF DirFine
    <3>5. DirCell(".", c) \in CellOver(w.entries) /\ DirCell(".", c).cluster \in u
      <4>1. "." \in {"", ".", "..", "old"} \cup ShortNames \cup Bytes
        OBVIOUS
      <4> QED BY <1>3, <2>2, <4>1, NewCells
    <3>6. AtCell(w, dot, k, u, c)
      BY <3>2, <3>4, <3>5, DirectoryAddEntryFine
    <3>7. DirCell("..", entered.d.root) \in CellOver(w.entries) /\ DirCell("..", entered.d.root).cluster \in u
      <4>1. ".." \in {"", ".", "..", "old"} \cup ShortNames \cup Bytes
        OBVIOUS
      <4>2. entered.d.root \in w.entries /\ entered.d.root \in u
        BY <1>2, <1>3, <2>9
      <4> QED BY <1>3, <4>1, <4>2, NewCells
    <3>8. DirFine(w, dot.m, dot.d, k, u)
      BY <3>6 DEF AtCell
    <3> HIDE DEF dot
    <3>9. AtCell(w, dotdot, k, u, dot.d.root)
      BY <3>7, <3>8, DirectoryAddEntryFine
    <3>10. IsDir(w, dotdot.d) /\ Fine(w, dotdot.m, With(k, dotdot.d.cache), u)
      BY <3>9 DEF AtCell, DirFine
    <3> HIDE DEF dotdot
    <3>11. \A b \in w.entries : k[b] <= With(k, dotdot.d.cache)[b]
      BY <1>3, <3>1, <3>10, WithOne DEF IsDir
    <3>12. Fine(w, dotdot.m, k, v)
      <4>1. v \in SUBSET u
        OBVIOUS
      <4> QED BY <3>1, <3>10, <3>11, <4>1, Fewer
    <3>13. r = [entered EXCEPT !.m = dotdot.m, !.ok = TRUE]
      BY <1>1, <1>5, <2>12
    <3>14. r = [m |-> dotdot.m, d |-> entered.d, ok |-> TRUE]
      BY <2>9, <3>13 DEF DirResult
    <3>15. r.m = dotdot.m /\ r.d = entered.d /\ DirResult(r)
      BY <3>14, DirResults
    <3>16. DirFine(w, r.m, r.d, n, v)
      BY <1>2, <2>9, <3>1, <3>12, <3>15 DEF DirFine, k
    <3> QED BY <2>5, <2>8, <2>9, <2>12, <3>15, <3>16 DEF r
  <2> QED BY <2>11, <2>12
<1> QED BY <1>4, <1>5

-----------------------------------------------------------------------------
(* The handles of files.                                                     *)

FileRecord(f) ==
  f = [root |-> f.root, parent |-> f.parent, slot |-> f.slot, update |-> f.update,
       offset |-> f.offset, size |-> f.size, cache |-> f.cache, astray |-> f.astray]

IsFile(w, f) ==
  /\ FileRecord(f)
  /\ f.root \in w.entries /\ f.parent \in w.entries /\ f.cache \in w.entries \cup {None}
  /\ f.slot \in 0..(Size(f.parent) - 1)
  /\ f.offset \in Nat /\ f.size \in 0..MaxSize

\* Nothing was read or written without a cluster.
Fresh(f) == f.cache = None => f.offset = 0

FileFine(w, m, f, n, v) ==
  /\ IsFile(w, f) /\ {f.root, f.parent} \subseteq v
  /\ n \in [w.entries -> Nat] /\ Fine(w, m, With(n, f.cache), v)
  /\ m.at = "ready" => Fresh(f)

FileResult(r) == r = [m |-> r.m, f |-> r.f, ok |-> r.ok]

LEMMA FileResults ==
  ASSUME NEW m, NEW f, NEW ok
  PROVE  /\ FileResult([m |-> m, f |-> f, ok |-> ok])
         /\ [m |-> m, f |-> f, ok |-> ok].m = m
         /\ [m |-> m, f |-> f, ok |-> ok].f = f
         /\ [m |-> m, f |-> f, ok |-> ok].ok = ok
BY DEF FileResult

\* The handle at another cluster, or at another place.
WithCache(f, c) == [f EXCEPT !.cache = c]
WithOffset(f, x) == [f EXCEPT !.offset = x]

LEMMA FileFields ==
  ASSUME NEW f, FileRecord(f), NEW x
  PROVE  /\ FileRecord(WithCache(f, x)) /\ WithCache(f, x).cache = x
         /\ WithCache(f, x).root = f.root /\ WithCache(f, x).parent = f.parent
         /\ WithCache(f, x).slot = f.slot /\ WithCache(f, x).offset = f.offset
         /\ WithCache(f, x).size = f.size
         /\ FileRecord(WithOffset(f, x)) /\ WithOffset(f, x).offset = x
         /\ WithOffset(f, x).root = f.root /\ WithOffset(f, x).parent = f.parent
         /\ WithOffset(f, x).slot = f.slot /\ WithOffset(f, x).cache = f.cache
         /\ WithOffset(f, x).size = f.size
<1> DEFINE D == {"root", "parent", "slot", "update", "offset", "size", "cache", "astray"}
           g == WithCache(f, x)
           h == WithOffset(f, x)
<1>1. DOMAIN f = D
  BY DEF FileRecord
<1>2. /\ DOMAIN g = D /\ g = [a \in D |-> g[a]] /\ g.cache = x /\ g.root = f.root
      /\ g.parent = f.parent /\ g.slot = f.slot /\ g.offset = f.offset /\ g.size = f.size
  BY <1>1 DEF WithCache
<1>3. /\ DOMAIN h = D /\ h = [a \in D |-> h[a]] /\ h.cache = f.cache /\ h.root = f.root
      /\ h.parent = f.parent /\ h.slot = f.slot /\ h.offset = x /\ h.size = f.size
  BY <1>1 DEF WithOffset
<1>4. \A a : DOMAIN a = D /\ a = [b \in D |-> a[b]] => FileRecord(a)
  BY DEF FileRecord
<1> HIDE DEF g, h, D
<1>5. FileRecord(g) /\ FileRecord(h)
  BY <1>2, <1>3, <1>4
<1> QED BY <1>2, <1>3, <1>5 DEF g, h

\* A file handle on a machine that is fine for it.
LEMMA FileTo ==
  ASSUME NEW w, NEW f, IsFile(w, f), NEW n, NEW v, {f.root, f.parent} \subseteq v,
         n \in [w.entries -> Nat], NEW m, NEW c \in w.entries, Fine(w, m, With(n, c), v)
  PROVE  FileFine(w, m, WithCache(f, c), n, v) /\ WithCache(f, c).cache # None
<1> DEFINE g == WithCache(f, c)
<1>1. /\ FileRecord(g) /\ g.cache = c /\ g.root = f.root /\ g.parent = f.parent
      /\ g.slot = f.slot /\ g.offset = f.offset /\ g.size = f.size
  BY FileFields DEF IsFile
<1> HIDE DEF g
<1>2. IsFile(w, g)
  BY <1>1 DEF IsFile
<1>3. c # None
  BY Typing, Entries
<1>4. FileFine(w, m, g, n, v)
  BY <1>1, <1>2, <1>3 DEF FileFine, Fresh
<1> QED BY <1>1, <1>3, <1>4 DEF g

LEMMA FileOpenFine ==
  ASSUME NEW w, NEW m, NEW d, NEW n, NEW v, DirFine(w, m, d, n, v), d.cache # None, NEW update
  PROVE  LET f == FileOpen(m, d, update)
         IN /\ FileFine(w, m, f, With(n, d.cache), v \cup {f.root, f.parent})
            /\ f.cache = None /\ f.offset = 0 /\ f.root \in w.entries /\ f.parent \in w.entries
<1> DEFINE f == FileOpen(m, d, update)
           k == With(n, d.cache)
           c == Entry(m, d).cluster
<1>1. /\ d.cache \in w.entries /\ d.offset \in 0..(Size(d.cache) - 1)
      /\ c \in w.entries /\ Entry(m, d).size \in 0..MaxSize
      /\ m.at = "ready" => Taken(w, m.fat, c) /\ Taken(w, m.fat, d.cache)
  BY EntryFine
<1>2. n \in [w.entries -> Nat] /\ Fine(w, m, k, v)
  BY DEF DirFine
<1>3. /\ FileRecord(f) /\ f.root = c /\ f.parent = d.cache /\ f.slot = d.offset
      /\ f.offset = 0 /\ f.size = Entry(m, d).size /\ f.cache = None
  BY DEF FileOpen, FileRecord
<1> HIDE DEF f, c
<1>4. IsFile(w, f)
  BY <1>1, <1>3 DEF IsFile
<1>5. Fine(w, m, k, v \cup {c}) /\ k \in [w.entries -> Nat]
  BY <1>1, <1>2, Learn, Typing
<1>6. Fine(w, m, k, (v \cup {c}) \cup {d.cache})
  BY <1>1, <1>5, Learn
<1>7. (v \cup {c}) \cup {d.cache} = v \cup {f.root, f.parent}
  BY <1>3
<1>8. With(k, f.cache) = k
  BY <1>3 DEF With
<1> HIDE DEF k
<1>9. FileFine(w, m, f, k, v \cup {f.root, f.parent})
  BY <1>3, <1>4, <1>5, <1>6, <1>7, <1>8 DEF FileFine, Fresh
<1> QED BY <1>1, <1>3, <1>9 DEF f, k

LEMMA FetchedFine ==
  ASSUME NEW w, NEW m, NEW f, NEW n, NEW v, FileFine(w, m, f, n, v), Fresh(f)
  PROVE  LET r == Fetched(m, f)
         IN /\ FileResult(r) /\ FileFine(w, r.m, r.f, n, v)
            /\ r.m.at = "ready" => m.at = "ready"
            /\ r.ok => r.f.cache # None
            /\ r.f.root = f.root /\ r.f.parent = f.parent /\ r.f.offset = f.offset /\ r.f.size = f.size
            /\ Fresh(r.f)
<1> DEFINE r == Fetched(m, f)
           next == GetNextCluster(m, f.cache)
           At(machine, c) == [m |-> machine, f |-> WithCache(f, c), ok |-> TRUE]
<1>1. /\ IsFile(w, f) /\ {f.root, f.parent} \subseteq v /\ n \in [w.entries -> Nat]
      /\ Fine(w, m, With(n, f.cache), v)
      /\ FileRecord(f) /\ f.root \in w.entries /\ f.cache \in w.entries \cup {None}
      /\ f.size \in Nat /\ f.offset \in Nat
  <2>1. IsFile(w, f) /\ {f.root, f.parent} \subseteq v /\ n \in [w.entries -> Nat]
        /\ Fine(w, m, With(n, f.cache), v)
    BY DEF FileFine
  <2>2. FileRecord(f) /\ f.root \in w.entries /\ f.cache \in w.entries \cup {None}
        /\ f.size \in 0..MaxSize /\ f.offset \in Nat
    BY <2>1 DEF IsFile
  <2>3. f.size \in Nat
    BY <2>2, Constant
  <2> QED BY <2>1, <2>2, <2>3
<1>2. ASSUME NEW c \in w.entries, NEW machine, Fine(w, machine, With(n, c), v)
      PROVE  /\ FileResult(At(machine, c)) /\ At(machine, c).m = machine
             /\ FileFine(w, machine, At(machine, c).f, n, v) /\ At(machine, c).f.cache # None
             /\ At(machine, c).f.root = f.root /\ At(machine, c).f.parent = f.parent
             /\ At(machine, c).f.offset = f.offset /\ At(machine, c).f.size = f.size
             /\ Fresh(At(machine, c).f)
  <2> DEFINE q == At(machine, c)
  <2>1. FileResult(q) /\ q.m = machine /\ q.f = WithCache(f, c)
    BY FileResults
  <2> HIDE DEF q, At
  <2>2. FileFine(w, machine, WithCache(f, c), n, v) /\ WithCache(f, c).cache # None
    BY <1>1, <1>2, FileTo
  <2>3. WithCache(f, c).root = f.root /\ WithCache(f, c).parent = f.parent
        /\ WithCache(f, c).offset = f.offset /\ WithCache(f, c).size = f.size
    BY <1>1, FileFields
  <2>4. Fresh(WithCache(f, c))
    BY <2>2 DEF Fresh
  <2> QED BY <2>1, <2>2, <2>3, <2>4 DEF q
<1>3. CASE f.offset >= f.size \/ (AtBoundary(f) /\ f.offset > 0 /\ next = 0)
  <2>1. r = [m |-> m, f |-> f, ok |-> FALSE]
    BY <1>3 DEF Fetched
  <2> HIDE DEF r
  <2>2. r.m = m /\ r.f = f /\ ~r.ok /\ FileResult(r)
    BY <2>1, FileResults
  <2> QED BY <2>2 DEF r
<1>4. CASE ~(f.offset >= f.size \/ (AtBoundary(f) /\ f.offset > 0 /\ next = 0)) /\ ~AtBoundary(f)
  <2>1. r = [m |-> m, f |-> f, ok |-> TRUE]
    BY <1>4 DEF Fetched
  <2> HIDE DEF r
  <2>2. r.m = m /\ r.f = f /\ FileResult(r)
    BY <2>1, FileResults
  <2>3. f.cache # None
    BY <1>4 DEF AtBoundary
  <2> QED BY <2>2, <2>3 DEF r
<1>5. CASE /\ ~(f.offset >= f.size \/ (AtBoundary(f) /\ f.offset > 0 /\ next = 0))
           /\ AtBoundary(f) /\ f.offset > 0
  <2> DEFINE g == GetCache(FreeCache(m, f.cache), next)
  <2>1. r = At(g, next)
    BY <1>5 DEF Fetched, WithCache
  <2>2. f.cache \in w.entries
    <3>1. f.cache # None
      BY <1>5 DEF Fresh
    <3> QED BY <1>1, <3>1
  <2>3. next \in w.entries /\ (m.at = "ready" => Taken(w, m.fat, next))
    BY <1>1, <2>2, Typing, TakenBy
  <2> HIDE DEF next
  <2>4. Fine(w, g, With(n, next), v) /\ (g.at = "ready" => m.at = "ready")
    <3>1. n \in [w.entries -> Nat] /\ Fine(w, m, With(n, f.cache), v)
      BY <1>1
    <3> QED BY <2>2, <2>3, <3>1, NextFine
  <2> HIDE DEF g, At, r
  <2> QED BY <1>2, <2>1, <2>3, <2>4 DEF r
<1>6. CASE /\ ~(f.offset >= f.size \/ (AtBoundary(f) /\ f.offset > 0 /\ next = 0))
           /\ AtBoundary(f) /\ ~(f.offset > 0)
  <2> DEFINE g == GetCache(m, f.root)
  <2>1. r = At(g, f.root)
    BY <1>6 DEF Fetched, WithCache
  <2>2. Fine(w, m, n, v)
    <3>1. \A b \in w.entries : n[b] <= With(n, f.cache)[b]
      BY <1>1, Typing, WithOne
    <3>2. v \in SUBSET v
      OBVIOUS
    <3> QED BY <1>1, <3>1, <3>2, Fewer
  <2>3. Fine(w, g, With(n, f.root), v) /\ (g.at = "ready" => m.at = "ready")
    <3>1. f.root \in v
      BY <1>1
    <3> QED BY <2>2, <3>1, GetCacheFine
  <2> HIDE DEF g, At, r
  <2> QED BY <1>1, <1>2, <2>1, <2>3 DEF r
<1> QED BY <1>3, <1>4, <1>5, <1>6

WithAstray(f, x) == [f EXCEPT !.astray = x]

LEMMA AstrayFields ==
  ASSUME NEW f, FileRecord(f), NEW x
  PROVE  /\ FileRecord(WithAstray(f, x))
         /\ WithAstray(f, x).root = f.root /\ WithAstray(f, x).parent = f.parent
         /\ WithAstray(f, x).slot = f.slot /\ WithAstray(f, x).offset = f.offset
         /\ WithAstray(f, x).size = f.size /\ WithAstray(f, x).cache = f.cache
<1> DEFINE D == {"root", "parent", "slot", "update", "offset", "size", "cache", "astray"}
           g == WithAstray(f, x)
<1>1. DOMAIN f = D
  BY DEF FileRecord
<1>2. /\ DOMAIN g = D /\ g = [a \in D |-> g[a]] /\ g.cache = f.cache /\ g.root = f.root
      /\ g.parent = f.parent /\ g.slot = f.slot /\ g.offset = f.offset /\ g.size = f.size
  BY <1>1 DEF WithAstray
<1>3. \A a : DOMAIN a = D /\ a = [b \in D |-> a[b]] => FileRecord(a)
  BY DEF FileRecord
<1> HIDE DEF g, D
<1>4. FileRecord(g)
  BY <1>2, <1>3
<1> QED BY <1>2, <1>4 DEF g

\* What a handler of files returns.
AtFile(w, r, n, v) == FileResult(r) /\ FileFine(w, r.m, r.f, n, v)

LEMMA FileStops ==
  ASSUME NEW w, NEW r, NEW n, NEW v, AtFile(w, r, n, v), NEW s \in {"stopped", "hung", "spoiled"}
  PROVE  AtFile(w, [r EXCEPT !.m.at = s], n, v) /\ [r EXCEPT !.m.at = s].m.at = s
<1> DEFINE q == [r EXCEPT !.m.at = s]
           m == StoppedAt(r.m, s)
<1>1. FileResult(r) /\ FileFine(w, r.m, r.f, n, v)
  BY DEF AtFile
<1>2. q = [m |-> m, f |-> r.f, ok |-> r.ok]
  <2>1. q = [r EXCEPT !.m = m]
    BY DEF StoppedAt
  <2> HIDE DEF m, q
  <2> QED BY <1>1, <2>1 DEF FileResult
<1>3. Fine(w, m, With(n, r.f.cache), v) /\ m.at = s
  <2>1. Fine(w, r.m, With(n, r.f.cache), v)
    BY <1>1 DEF FileFine
  <2> QED BY <2>1, Stops
<1> HIDE DEF q, m
<1>4. q.m = m /\ q.f = r.f /\ FileResult(q)
  BY <1>2, FileResults
<1>5. FileFine(w, m, r.f, n, v)
  BY <1>1, <1>3 DEF FileFine
<1>6. AtFile(w, q, n, v) /\ q.m.at = s
  BY <1>3, <1>4, <1>5 DEF AtFile
<1> QED BY <1>6 DEF q

\* The handle at another place of the cluster it holds.
LEMMA FileMoves ==
  ASSUME NEW w, NEW m, NEW f, NEW n, NEW v, FileFine(w, m, f, n, v), NEW x \in Nat,
         f.cache # None \/ x = 0 \/ m.at # "ready"
  PROVE  FileFine(w, m, WithOffset(f, x), n, v) /\ WithOffset(f, x).cache = f.cache
<1> DEFINE g == WithOffset(f, x)
<1>1. IsFile(w, f) /\ {f.root, f.parent} \subseteq v /\ n \in [w.entries -> Nat]
      /\ Fine(w, m, With(n, f.cache), v)
  BY DEF FileFine
<1>2. /\ FileRecord(g) /\ g.cache = f.cache /\ g.root = f.root /\ g.parent = f.parent
      /\ g.slot = f.slot /\ g.offset = x /\ g.size = f.size
  BY <1>1, FileFields DEF IsFile
<1> HIDE DEF g
<1>3. IsFile(w, g)
  BY <1>1, <1>2 DEF IsFile
<1>4. m.at = "ready" => Fresh(g)
  BY <1>2 DEF Fresh
<1>5. FileFine(w, m, g, n, v)
  BY <1>1, <1>2, <1>3, <1>4 DEF FileFine
<1> QED BY <1>2, <1>5 DEF g

LEMMA AdvancedFine ==
  ASSUME NEW w, NEW r, NEW n, NEW v, AtFile(w, r, n, v), r.f.cache # None, NEW count \in Nat
  PROVE  AtFile(w, Advanced(r, count), n, v) /\ Advanced(r, count).m = r.m
<1> DEFINE q == Advanced(r, count)
           x == Least(r.f.offset + count, r.f.size)
           g == WithOffset(r.f, x)
<1>1. FileResult(r) /\ FileFine(w, r.m, r.f, n, v)
  BY DEF AtFile
<1>2. x \in Nat
  <2>1. r.f.offset \in Nat /\ r.f.size \in 0..MaxSize
    BY <1>1 DEF FileFine, IsFile
  <2> QED BY <2>1, Constant DEF Least
<1>3. q = [m |-> r.m, f |-> g, ok |-> r.ok]
  <2>1. q = [r EXCEPT !.f = g]
    BY DEF Advanced, WithOffset
  <2> HIDE DEF q, g
  <2> QED BY <1>1, <2>1 DEF FileResult
<1> HIDE DEF x
<1>4. FileFine(w, r.m, g, n, v)
  BY <1>1, <1>2, FileMoves
<1> HIDE DEF q, g
<1>5. q.m = r.m /\ q.f = g /\ FileResult(q)
  BY <1>3, FileResults
<1>6. AtFile(w, q, n, v)
  BY <1>4, <1>5 DEF AtFile
<1> QED BY <1>5, <1>6 DEF q

LEMMA AstrayFine ==
  ASSUME NEW w, NEW r, NEW n, NEW v, AtFile(w, r, n, v), NEW x
  PROVE  AtFile(w, [r EXCEPT !.f.astray = x], n, v) /\ [r EXCEPT !.f.astray = x].m = r.m
<1> DEFINE q == [r EXCEPT !.f.astray = x]
           g == WithAstray(r.f, x)
<1>1. FileResult(r) /\ FileFine(w, r.m, r.f, n, v)
  BY DEF AtFile
<1>2. q = [m |-> r.m, f |-> g, ok |-> r.ok]
  <2>1. q = [r EXCEPT !.f = g]
    BY DEF WithAstray
  <2> HIDE DEF q, g
  <2> QED BY <1>1, <2>1 DEF FileResult
<1>3. IsFile(w, r.f) /\ FileRecord(r.f)
  BY <1>1 DEF FileFine, IsFile
<1>4. /\ FileRecord(g) /\ g.cache = r.f.cache /\ g.root = r.f.root /\ g.parent = r.f.parent
      /\ g.slot = r.f.slot /\ g.offset = r.f.offset /\ g.size = r.f.size
  BY <1>3, AstrayFields
<1> HIDE DEF q, g
<1>5. IsFile(w, g)
  BY <1>3, <1>4 DEF IsFile
<1>6. FileFine(w, r.m, g, n, v)
  BY <1>1, <1>4, <1>5 DEF FileFine, Fresh
<1>7. q.m = r.m /\ q.f = g /\ FileResult(q)
  BY <1>2, FileResults
<1>8. AtFile(w, q, n, v)
  BY <1>6, <1>7 DEF AtFile
<1> QED BY <1>7, <1>8 DEF q

\* What is left of the buffer.
LEMMA InBufferNumber ==
  ASSUME NEW f, f.offset \in Nat
  PROVE  InBuffer(f) \in Nat /\ f.offset % Size(f.cache) \in 0..(Size(f.cache) - 1)
<1>1. \A a, b \in Nat : b > 0 => b - (a % b) \in Nat /\ a % b \in 0..(b - 1)
  OBVIOUS
<1>2. Size(f.cache) \in Nat /\ Size(f.cache) > 0
  BY Constant
<1> QED BY <1>1, <1>2 DEF InBuffer

LEMMA PartFine ==
  ASSUME NEW w, NEW m, NEW f, NEW n, NEW v, FileFine(w, m, f, n, v), m.at = "ready", NEW count \in Nat
  PROVE  AtFile(w, Part(m, f, count), n, v)
<1> DEFINE r == Fetched(m, f)
<1>1. /\ FileResult(r) /\ FileFine(w, r.m, r.f, n, v)
      /\ r.ok => r.f.cache # None
  <2>1. Fresh(f)
    BY DEF FileFine
  <2> QED BY <2>1, FetchedFine
<1>2. AtFile(w, r, n, v)
  BY <1>1 DEF AtFile
<1>3. Part(m, f, count) = IF ~Continues(r) THEN r
                          ELSE IF count > InBuffer(r.f) THEN [r EXCEPT !.m.at = "spoiled"]
                          ELSE Advanced(r, count)
  BY DEF Part
<1> HIDE DEF r
<1>4. CASE ~Continues(r)
  BY <1>2, <1>3, <1>4
<1>5. CASE Continues(r) /\ count > InBuffer(r.f)
  <2>1. AtFile(w, [r EXCEPT !.m.at = "spoiled"], n, v)
    BY <1>2, FileStops
  <2> QED BY <1>3, <1>5, <2>1
<1>6. CASE Continues(r) /\ ~(count > InBuffer(r.f))
  <2>1. r.f.cache # None
    BY <1>1, <1>6 DEF Continues
  <2>2. AtFile(w, Advanced(r, count), n, v)
    BY <1>2, <2>1, AdvancedFine
  <2> QED BY <1>3, <1>6, <2>2
<1> QED BY <1>4, <1>5, <1>6

LEMMA FileReadFine ==
  ASSUME NEW w, NEW m, NEW f, NEW n, NEW v, FileFine(w, m, f, n, v), Fresh(f), NEW count \in Nat
  PROVE  AtFile(w, FileRead(m, f, count), n, v)
<1> DEFINE start == Fetched(m, f)
           first == [start EXCEPT !.f.astray = @ \/ (AtBoundary(f) /\ f.offset > 0)]
           left(r) == count - (r.f.offset - f.offset)
           Next(r) == IF Continues(r) /\ left(r) > 0
                      THEN Part(r.m, r.f, Least(InBuffer(start.f), left(r))) ELSE r
           Is(g, k) == g = [i \in 0..k |-> IF i = 0 THEN first ELSE Next(g[i - 1])]
           Good(r) == AtFile(w, r, n, v)
           parts == CHOOSE g : Is(g, count)
<1>1. FileRead(m, f, count) = IF ~Continues(start) THEN start
                              ELSE IF count > InBuffer(start.f) THEN parts[count]
                              ELSE Advanced(start, count)
  BY DEF FileRead
<1>a. AtFile(w, start, n, v) /\ (start.ok => start.f.cache # None) /\ f.offset \in Nat
  <2>1. Fresh(f) /\ f.offset \in Nat
    BY DEF FileFine, IsFile
  <2> QED BY <2>1, FetchedFine DEF AtFile
<1>2. Good(first)
  BY <1>a, AstrayFine
<1>b. InBuffer(start.f) \in Nat
  <2>1. start.f.offset \in Nat
    BY <1>a DEF AtFile, FileFine, IsFile
  <2> HIDE DEF start
  <2> QED BY <2>1, InBufferNumber
<1> HIDE DEF start
<1>3. ASSUME NEW r, Good(r) PROVE Good(Next(r))
  <2>1. CASE Continues(r) /\ left(r) > 0
    <3> DEFINE part == Least(InBuffer(start.f), left(r))
    <3>1. r.f.offset \in Nat /\ FileFine(w, r.m, r.f, n, v) /\ r.m.at = "ready"
      BY <1>3, <2>1 DEF AtFile, FileFine, IsFile, Continues
    <3>2. part \in Nat
      BY <1>a, <1>b, <2>1, <3>1 DEF Least
    <3> HIDE DEF part
    <3>3. AtFile(w, Part(r.m, r.f, part), n, v)
      BY <3>1, <3>2, PartFine
    <3>4. Next(r) = Part(r.m, r.f, part)
      BY <2>1 DEF part
    <3> QED BY <3>3, <3>4
  <2>2. CASE ~(Continues(r) /\ left(r) > 0)
    BY <1>3, <2>2
  <2> QED BY <2>1, <2>2
<1> HIDE DEF Next, first, Good
<1>c. count \in Nat
  OBVIOUS
<1>4. \A k \in Nat : \E g : Is(g, k)
  <2> DEFINE S == {k \in Nat : \E g : Is(g, k)}
  <2>1. 0 \in S
    <3>1. Is([i \in 0..0 |-> first], 0)
      OBVIOUS
    <3> QED BY <3>1
  <2>2. ASSUME NEW k \in Nat, k \in S PROVE k + 1 \in S
    <3>1. PICK g : Is(g, k)
      BY <2>2
    <3> DEFINE h == [i \in 0..(k + 1) |-> IF i = k + 1 THEN Next(g[k]) ELSE g[i]]
    <3>2. \A i \in 0..k : h[i] = g[i] /\ g[i] = IF i = 0 THEN first ELSE Next(g[i - 1])
      BY <3>1
    <3>3. ASSUME NEW i \in 0..(k + 1) PROVE h[i] = IF i = 0 THEN first ELSE Next(h[i - 1])
      <4>1. CASE i = k + 1
        <5>1. h[k] = g[k] /\ i - 1 = k /\ i # 0
          BY <3>2, <4>1
        <5> QED BY <4>1, <5>1
      <4>2. CASE i # k + 1 /\ i # 0
        <5>1. i \in 0..k /\ i - 1 \in 0..k
          BY <4>2
        <5> QED BY <3>2, <4>2, <5>1
      <4>3. CASE i = 0
        <5>1. i \in 0..k
          BY <4>3
        <5> QED BY <3>2, <4>3, <5>1
      <4> QED BY <4>1, <4>2, <4>3
    <3>4. h = [i \in 0..(k + 1) |-> h[i]]
      OBVIOUS
    <3> HIDE DEF h
    <3>5. Is(h, k + 1)
      BY <3>3, <3>4
    <3> HIDE DEF Is
    <3> QED BY <3>5
  <2> HIDE DEF S
  <2>3. Nat \subseteq S
    BY <2>1, <2>2, Numbers
  <2> QED BY <2>3 DEF S
<1>5. Is(parts, count) /\ count \in Nat
  <2>1. count \in Nat
    BY <1>c
  <2>2. \E g : Is(g, count)
    BY <1>4, <2>1
  <2> HIDE DEF Is
  <2> QED BY <2>1, <2>2
<1> HIDE DEF parts
<1>6. parts[0] = first /\ \A i \in 1..count : parts[i] = Next(parts[i - 1])
  <2>1. 0 \in 0..count /\ \A i \in 1..count : i \in 0..count /\ i # 0
    BY <1>5
  <2> QED BY <1>5, <2>1
<1> HIDE DEF Is
<1>7. Good(parts[count])
  <2> DEFINE S == {k \in Nat : k \in 0..count => Good(parts[k])}
  <2>1. 0 \in S
    BY <1>2, <1>6
  <2>2. ASSUME NEW k \in Nat, k \in S PROVE k + 1 \in S
    <3>1. SUFFICES ASSUME k + 1 \in 0..count PROVE Good(parts[k + 1])
      OBVIOUS
    <3>2. k \in 0..count /\ k + 1 \in 1..count /\ (k + 1) - 1 = k
      BY <1>5, <3>1
    <3>3. parts[k + 1] = Next(parts[k]) /\ Good(parts[k])
      BY <1>6, <2>2, <3>2
    <3> QED BY <1>3, <3>3
  <2> HIDE DEF S
  <2>3. Nat \subseteq S
    BY <2>1, <2>2, Numbers
  <2>4. count \in 0..count
    BY <1>5
  <2> QED BY <1>5, <2>3, <2>4 DEF S
<1>8. CASE ~Continues(start)
  BY <1>1, <1>8, <1>a
<1>9. CASE Continues(start) /\ count > InBuffer(start.f)
  BY <1>1, <1>7, <1>9 DEF Good
<1>10. CASE Continues(start) /\ ~(count > InBuffer(start.f))
  <2>1. start.f.cache # None
    BY <1>a, <1>10 DEF Continues
  <2>2. AtFile(w, Advanced(start, count), n, v)
    BY <1>a, <2>1, AdvancedFine
  <2> QED BY <1>1, <1>10, <2>2
<1> QED BY <1>8, <1>9, <1>10

\* A machine for which the data of a cluster need not be marked.
Loose(m, c) == [m EXCEPT !.unsaved = @ \cup {c}]

LEMMA LooseFields ==
  ASSUME NEW m, IsMachine(m), NEW c
  PROVE  /\ Loose(m, c) = Machine(m.fat, m.cache, m.disk, m.log, m.at, m.unsaved \cup {c})
         /\ IsMachine(Loose(m, c)) /\ Loose(m, c).fat = m.fat /\ Loose(m, c).cache = m.cache
         /\ Loose(m, c).disk = m.disk /\ Loose(m, c).log = m.log /\ Loose(m, c).at = m.at
         /\ Loose(m, c).unsaved = m.unsaved \cup {c}
<1> DEFINE u == m.unsaved \cup {c}
           r == Loose(m, c)
<1>1. r = [m EXCEPT !.unsaved = u]
  BY DEF Loose
<1> HIDE DEF r, u
<1>2. r = Machine(m.fat, m.cache, m.disk, m.log, m.at, u)
  BY <1>1, Changes
<1>3. /\ IsMachine(r) /\ r.fat = m.fat /\ r.cache = m.cache /\ r.disk = m.disk /\ r.log = m.log
      /\ r.at = m.at /\ r.unsaved = u
  BY <1>2, MachineFields
<1> QED BY <1>2, <1>3 DEF r, u

LEMMA Loosen ==
  ASSUME NEW w, NEW m, NEW n, NEW v, Fine(w, m, n, v), NEW c \in w.entries
  PROVE  Fine(w, Loose(m, c), n, v) /\ IsMachine(m)
<1> DEFINE r == Loose(m, c)
<1>1. Fits(w, m) /\ Counted(w, m.cache, n) /\ v \subseteq w.entries /\ IsMachine(m)
  BY DEF Fine, Fits
<1>2. /\ IsMachine(r) /\ r.fat = m.fat /\ r.cache = m.cache /\ r.disk = m.disk /\ r.log = m.log
      /\ r.at = m.at /\ r.unsaved = m.unsaved \cup {c}
  BY <1>1, LooseFields
<1> HIDE DEF r
<1>3. Fits(w, r)
  BY <1>1, <1>2 DEF Fits
<1>4. ASSUME m.at = "ready" PROVE AllKept(w, r.fat, r.cache, r.disk, r.unsaved)
  <2>1. AllKept(w, m.fat, m.cache, m.disk, m.unsaved)
    BY <1>4 DEF Fine
  <2>2. ASSUME NEW b \in Cached(m.cache)
        PROVE  Kept(w, m.fat, m.disk, m.unsaved \cup {c}, b, m.cache[b])
    <3>1. Kept(w, m.fat, m.disk, m.unsaved, b, m.cache[b])
      BY <2>1 DEF AllKept
    <3> QED BY <3>1 DEF Kept
  <2> QED BY <1>2, <2>1, <2>2 DEF AllKept
<1>5. Fine(w, r, n, v)
  BY <1>1, <1>2, <1>3, <1>4 DEF Fine
<1> QED BY <1>1, <1>5 DEF r

\* New contents of an object that somebody holds.
Refilled(m, c, cells) == [m EXCEPT !.cache[c].cells = cells]

LEMMA RefilledFine ==
  ASSUME NEW w, NEW m, IsMachine(m), NEW n, NEW v, NEW c \in w.entries, n \in [w.entries -> Nat],
         Fine(w, Loose(m, c), With(n, c), v), NEW cells, CellsOK(w, c, cells),
         m.at = "ready" => CellsTaken(w, m.fat, c, cells)
  PROVE  LET r == Refilled(m, c, cells)
         IN /\ Fine(w, Loose(r, c), With(n, c), v)
            /\ m.at # "ready" => Fine(w, r, With(n, c), v)
            /\ IsMachine(r) /\ r.fat = m.fat /\ r.at = m.at
<1> DEFINE p == m.cache[c]
           o == Object(p.refs, p.dirty, p.nth, cells)
           x == [m.cache EXCEPT ![c] = o]
           r == Refilled(m, c, cells)
           k == With(n, c)
           q == Loose(m, c)
           l == Loose(r, c)
<1>1. /\ q.fat = m.fat /\ q.cache = m.cache /\ q.disk = m.disk /\ q.log = m.log /\ q.at = m.at
      /\ q.unsaved = m.unsaved \cup {c}
  BY LooseFields
<1> HIDE DEF q
<1>2. /\ WorldOK(w) /\ CacheOK(w, m.cache) /\ Leads(w, m.log, m.disk)
      /\ ObjectOK(w, c, m.cache[c]) /\ m.at \in {"ready", "stopped", "hung", "spoiled"}
      /\ m.unsaved \cup {c} \subseteq w.entries /\ k \in [w.entries -> Nat]
      /\ \A b \in w.entries : k[b] <= m.cache[b].refs
  <2>1. Fine(w, q, k, v)
    BY DEF q
  <2> HIDE DEF k
  <2>2. /\ WorldOK(w) /\ CacheOK(w, q.cache) /\ Leads(w, q.log, q.disk)
        /\ ObjectOK(w, c, q.cache[c]) /\ q.at \in {"ready", "stopped", "hung", "spoiled"}
        /\ q.unsaved \subseteq w.entries /\ k \in [w.entries -> Nat]
        /\ \A b \in w.entries : k[b] <= q.cache[b].refs
    BY <2>1, Typing
  <2> QED BY <1>1, <2>2
<1>3. c \in Cached(m.cache) /\ p.refs > 0 /\ p.refs \in Nat
  <2>1. Fine(w, q, With(n, c), v)
    BY DEF q
  <2>2. c \in Cached(q.cache) /\ q.cache[c].refs > 0 /\ q.cache[c].refs \in Nat
    BY <2>1, HeldCached
  <2> QED BY <1>1, <2>2
<1>4. p = Object(p.refs, p.dirty, p.nth, p.cells) /\ p.nth \in Nat /\ p.nth # 0 /\ c \in DOMAIN m.cache
  <2>1. c \in DOMAIN m.cache
    BY <1>2 DEF CacheOK
  <2>2. p.nth # 0
    BY <1>3 DEF Cached
  <2> QED BY <1>2, <2>1, <2>2 DEF ObjectOK
<1>5. p.dirty \in BOOLEAN
  BY <1>2 DEF ObjectOK
<1>6. r = Machine(m.fat, x, m.disk, m.log, m.at, m.unsaved)
  <2>1. [p EXCEPT !.cells = cells] = o
    <3> HIDE DEF p
    <3> QED BY <1>4, ObjectChanges
  <2>2. r = [m EXCEPT !.cache = x]
    BY <2>1 DEF Refilled
  <2> HIDE DEF r, x
  <2> QED BY <2>2, Changes
<1>7. /\ o.refs = p.refs /\ o.dirty = p.dirty /\ o.nth = p.nth /\ o.cells = cells
      /\ o = Object(o.refs, o.dirty, o.nth, o.cells)
  BY DEF Object
<1> HIDE DEF o, r, k, x
<1>8. /\ IsMachine(r) /\ r.fat = m.fat /\ r.cache = x /\ r.disk = m.disk /\ r.log = m.log
      /\ r.at = m.at /\ r.unsaved = m.unsaved
  BY <1>6, MachineFields
<1>9. l = Machine(m.fat, x, m.disk, m.log, m.at, m.unsaved \cup {c})
  <2>1. l = Machine(r.fat, r.cache, r.disk, r.log, r.at, r.unsaved \cup {c})
    BY <1>8, LooseFields
  <2> HIDE DEF l
  <2> QED BY <1>8, <2>1
<1>10. ObjectOK(w, c, o)
  <2>1. o.dirty \in BOOLEAN
    BY <1>5, <1>7
  <2>2. o.refs \in Nat /\ o.nth \in Nat /\ o.nth # 0 /\ CellsOK(w, c, o.cells)
    BY <1>3, <1>4, <1>7
  <2> QED BY <1>7, <2>1, <2>2 DEF ObjectOK
<1>11. ASSUME m.at = "ready" PROVE Kept(w, m.fat, m.disk, m.unsaved \cup {c}, c, o)
  <2>1. Kept(w, m.fat, m.disk, m.unsaved \cup {c}, c, p)
    <3>1. AllKept(w, q.fat, q.cache, q.disk, q.unsaved)
      BY <1>1, <1>11 DEF Fine, q
    <3> QED BY <1>1, <1>3, <3>1 DEF AllKept
  <2>2. CellsTaken(w, m.fat, c, o.cells)
    BY <1>7, <1>11
  <2>3. o.refs > 0
    BY <1>3, <1>7
  <2> QED BY <2>1, <2>2, <2>3 DEF Kept
<1>12. k[c] <= o.refs /\ o.nth = m.cache[c].nth /\ \A b \in w.entries \ {c} : k[b] <= k[b]
  <2>1. \A b \in w.entries : k[b] \in Nat
    BY <1>2
  <2> QED BY <1>2, <1>7, <2>1
<1>13. Fine(w, q, k, v)
  BY DEF k, q
<1>14. q.unsaved \ {c} \subseteq m.unsaved \cup {c} /\ q.unsaved \ {c} \subseteq m.unsaved
       /\ m.unsaved \in SUBSET w.entries /\ m.unsaved \cup {c} \in SUBSET w.entries
  BY <1>1, <1>2
<1>15. Fine(w, l, k, v)
  <2>1. Fine(w, Machine(q.fat, [q.cache EXCEPT ![c] = o], m.disk, m.log, m.at, m.unsaved \cup {c}), k, v)
    BY <1>1, <1>2, <1>10, <1>11, <1>12, <1>13, <1>14, FinePut
  <2>2. l = Machine(q.fat, [q.cache EXCEPT ![c] = o], m.disk, m.log, m.at, m.unsaved \cup {c})
    BY <1>1, <1>9 DEF x
  <2> QED BY <2>1, <2>2, Zenon
<1>16. ASSUME m.at # "ready" PROVE Fine(w, r, k, v)
  <2>1. Fine(w, Machine(q.fat, [q.cache EXCEPT ![c] = o], m.disk, m.log, m.at, m.unsaved), k, v)
    BY <1>1, <1>2, <1>10, <1>12, <1>13, <1>14, <1>16, FinePut
  <2>2. r = Machine(q.fat, [q.cache EXCEPT ![c] = o], m.disk, m.log, m.at, m.unsaved)
    BY <1>1, <1>6 DEF x
  <2> QED BY <2>1, <2>2, Zenon
<1> QED BY <1>8, <1>15, <1>16 DEF r, k, l

LEMMA CellFields ==
  ASSUME NEW E, NEW cell, cell \in CellOver(E)
  PROVE  cell.cluster \in E /\ cell.size \in 0..MaxSize
BY DEF CellOver

LEMMA RecordChanged ==
  ASSUME NEW A, NEW E, NEW S, NEW cell, cell \in [name : A, dir : BOOLEAN, cluster : E, size : S],
         NEW c \in E, NEW s \in S
  PROVE  /\ [cell EXCEPT !.cluster = c, !.size = s] \in [name : A, dir : BOOLEAN, cluster : E, size : S]
         /\ [cell EXCEPT !.cluster = c, !.size = s].cluster = c
OBVIOUS

CellWith(cell, c, s) == [cell EXCEPT !.cluster = c, !.size = s]

LEMMA CellChanged ==
  ASSUME NEW E, NEW cell, cell \in CellOver(E), NEW c, c \in E, NEW s, s \in 0..MaxSize
  PROVE  CellWith(cell, c, s) \in CellOver(E) /\ CellWith(cell, c, s).cluster = c
BY RecordChanged, Zenon DEF CellOver, CellWith

\* The entry of a file in its directory.
LEMMA UpdatedFine ==
  ASSUME NEW w, NEW m, NEW f, NEW k, NEW v, Fine(w, m, k, v), IsFile(w, f), {f.root, f.parent} \subseteq v
  PROVE  Fine(w, Updated(m, f), k, v) /\ (Updated(m, f).at = "ready" => m.at = "ready")
<1> DEFINE c == f.parent
           held == GetCache(m, c)
           cell == held.cache[c].cells[f.slot]
           first == IF cell.cluster = 0 THEN f.root ELSE cell.cluster
           changed == [cell EXCEPT !.cluster = first, !.size = f.size]
           marked == Marked(held, c, f.slot, changed)
<1>1. Updated(m, f) = IF ~f.update THEN m ELSE FreeCache(marked, c)
  BY DEF Updated, Marked
<1>2. c \in w.entries /\ f.slot \in 0..(Size(c) - 1) /\ f.size \in 0..MaxSize /\ f.root \in w.entries
  BY DEF IsFile
<1>3. /\ Fine(w, held, With(k, c), v) /\ c \in Cached(held.cache)
      /\ held.at = "ready" => m.at = "ready"
  BY GetCacheFine
<1>4. k \in [w.entries -> Nat]
  BY Typing
<1> HIDE DEF held
<1>5. cell \in CellOver(w.entries)
  <2>1. CellsOK(w, c, held.cache[c].cells)
    BY <1>2, <1>3, Typing
  <2> QED BY <1>2, <2>1 DEF CellsOK
<1>6. held.at = "ready" => Taken(w, held.fat, cell.cluster) /\ Taken(w, held.fat, f.root)
  <2>1. SUFFICES ASSUME held.at = "ready" PROVE Taken(w, held.fat, cell.cluster) /\ Taken(w, held.fat, f.root)
    OBVIOUS
  <2>2. CellsTaken(w, held.fat, c, held.cache[c].cells)
    BY <1>3, <2>1, TakenBy
  <2>3. Known(w, held.fat, v)
    BY <1>3, <2>1 DEF Fine
  <2> QED BY <1>2, <2>2, <2>3 DEF CellsTaken, Known
<1> HIDE DEF cell
<1>7. changed \in CellOver(w.entries) /\ changed.cluster \in {cell.cluster, f.root}
  <2>1. first \in w.entries /\ first \in {cell.cluster, f.root}
    BY <1>2, <1>5, CellFields
  <2> HIDE DEF first
  <2>2. CellWith(cell, first, f.size) \in CellOver(w.entries)
        /\ CellWith(cell, first, f.size).cluster = first
    BY <1>2, <1>5, <2>1, CellChanged
  <2>3. changed = CellWith(cell, first, f.size)
    BY DEF CellWith
  <2> HIDE DEF changed
  <2> QED BY <2>1, <2>2, <2>3
<1> HIDE DEF changed
<1>8. Fine(w, marked, With(k, c), v) /\ marked.at = held.at
  <2>1. held.at = "ready" => Taken(w, held.fat, changed.cluster)
    BY <1>6, <1>7
  <2> QED BY <1>2, <1>3, <1>4, <1>7, <2>1, MarkedFine
<1> HIDE DEF marked
<1>9. Fine(w, FreeCache(marked, c), k, v) /\ (FreeCache(marked, c).at = "ready" => marked.at = "ready")
  BY <1>2, <1>4, <1>8, FreeCacheFine
<1>10. CASE f.update
  BY <1>1, <1>3, <1>8, <1>9, <1>10
<1>11. CASE ~f.update
  BY <1>1, <1>11
<1> QED BY <1>10, <1>11

\* Between the search for the cluster and the byte: the cluster need not be marked.
Writing(w, r, n, v) ==
  /\ FileResult(r) /\ IsFile(w, r.f) /\ {r.f.root, r.f.parent} \subseteq v
  /\ n \in [w.entries -> Nat] /\ IsMachine(r.m)
  /\ IF r.ok /\ r.m.at = "ready"
     THEN r.f.cache # None /\ Fine(w, Loose(r.m, r.f.cache), With(n, r.f.cache), v)
     ELSE Fine(w, r.m, With(n, r.f.cache), v) /\ (r.m.at = "ready" => Fresh(r.f))

Rooted(f, c) == [f EXCEPT !.root = c, !.update = TRUE]

LEMMA RootedFields ==
  ASSUME NEW f, FileRecord(f), NEW c
  PROVE  /\ FileRecord(Rooted(f, c)) /\ Rooted(f, c).root = c
         /\ Rooted(f, c).parent = f.parent /\ Rooted(f, c).slot = f.slot
         /\ Rooted(f, c).offset = f.offset /\ Rooted(f, c).size = f.size /\ Rooted(f, c).cache = f.cache
<1> DEFINE D == {"root", "parent", "slot", "update", "offset", "size", "cache", "astray"}
           g == Rooted(f, c)
<1>1. DOMAIN f = D
  BY DEF FileRecord
<1>2. /\ DOMAIN g = D /\ g = [a \in D |-> g[a]] /\ g.cache = f.cache /\ g.root = c
      /\ g.parent = f.parent /\ g.slot = f.slot /\ g.offset = f.offset /\ g.size = f.size
  BY <1>1 DEF Rooted
<1>3. \A a : DOMAIN a = D /\ a = [b \in D |-> a[b]] => FileRecord(a)
  BY DEF FileRecord
<1> HIDE DEF g, D
<1>4. FileRecord(g)
  BY <1>2, <1>3
<1> QED BY <1>2, <1>4 DEF g

\* Several changes of a result at once.
Began(r, c, cells) == [r EXCEPT !.m.cache[c].cells = cells, !.f.root = c, !.f.update = TRUE]

LEMMA FirstCluster ==
  ASSUME NEW g, NEW h, NEW c, NEW cells
  PROVE  Began([m |-> g, f |-> h, ok |-> TRUE], c, cells)
           = [m |-> Refilled(g, c, cells), f |-> Rooted(h, c), ok |-> TRUE]
<1> DEFINE r == [m |-> g, f |-> h, ok |-> TRUE]
           a == [r EXCEPT !.m.cache[c].cells = cells]
           b == [a EXCEPT !.f.root = c]
           d == [b EXCEPT !.f.update = TRUE]
           k == [h EXCEPT !.root = c]
           l == [k EXCEPT !.update = TRUE]
<1>1. r.m = g /\ r.f = h /\ r = [m |-> r.m, f |-> r.f, ok |-> TRUE]
  OBVIOUS
<1>2. Began([m |-> g, f |-> h, ok |-> TRUE], c, cells) = d
  BY DEF Began
<1>3. l = Rooted(h, c)
  BY DEF Rooted
<1> HIDE DEF r
<1>4. a = [r EXCEPT !.m = Refilled(r.m, c, cells)]
  BY DEF Refilled
<1> HIDE DEF a
<1>5. a = [m |-> Refilled(g, c, cells), f |-> h, ok |-> TRUE] /\ a.f = h
  <2> DEFINE q == Refilled(g, c, cells)
  <2>1. a = [r EXCEPT !.m = q]
    BY <1>1, <1>4
  <2> HIDE DEF q
  <2>2. a = [m |-> q, f |-> h, ok |-> TRUE]
    BY <2>1 DEF r
  <2>3. a.f = h
    BY <2>2
  <2> QED BY <2>2, <2>3 DEF q
<1>6. b = [a EXCEPT !.f = k]
  BY <1>5
<1> HIDE DEF b, k
<1>7. b = [m |-> Refilled(g, c, cells), f |-> k, ok |-> TRUE] /\ b.f = k
  BY <1>5, <1>6
<1>8. d = [b EXCEPT !.f = l]
  BY <1>7
<1> HIDE DEF d, l
<1>9. d = [m |-> Refilled(g, c, cells), f |-> l, ok |-> TRUE]
  BY <1>7, <1>8
<1> QED BY <1>2, <1>3, <1>9

LEMMA PlacedFine ==
  ASSUME NEW w, NEW m, NEW f, NEW n, NEW v, FileFine(w, m, f, n, v), Fresh(f)
  PROVE  LET r == Placed(m, f)
         IN /\ r.f.root \in w.entries /\ Writing(w, r, n, v \cup {r.f.root})
            /\ r.f.offset = f.offset
            /\ r.m.at = "ready" => m.at = "ready"
<1> DEFINE r == Placed(m, f)
           At(machine, c) == [m |-> machine, f |-> WithCache(f, c), ok |-> TRUE]
           next == GetNextCluster(m, f.cache)
           parent == IF f.cache = None THEN 0 ELSE f.cache
           new == FirstFree(m)
           u == v \cup {r.f.root}
           Post(q) == /\ q.f.root \in w.entries /\ Writing(w, q, n, v \cup {q.f.root})
                      /\ q.f.offset = f.offset
                      /\ q.m.at = "ready" => m.at = "ready"
<1>1. /\ IsFile(w, f) /\ f.root \in v /\ {f.root, f.parent} \subseteq v /\ n \in [w.entries -> Nat]
      /\ Fine(w, m, With(n, f.cache), v) /\ IsMachine(m)
      /\ FileRecord(f) /\ f.root \in w.entries /\ f.cache \in w.entries \cup {None}
      /\ WorldOK(w) /\ None \notin w.entries /\ 0 \in w.entries
  <2>1. IsFile(w, f) /\ {f.root, f.parent} \subseteq v /\ n \in [w.entries -> Nat]
        /\ Fine(w, m, With(n, f.cache), v)
    BY DEF FileFine
  <2>2. FileRecord(f) /\ f.root \in w.entries /\ f.cache \in w.entries \cup {None}
    BY <2>1 DEF IsFile
  <2>3. WorldOK(w) /\ IsMachine(m) /\ None \notin w.entries /\ 0 \in w.entries
    BY <2>1, Typing, Entries
  <2> QED BY <2>1, <2>2, <2>3
<1>2. ASSUME NEW c \in w.entries, NEW machine, Fine(w, machine, With(n, c), v),
             machine.at = "ready" => m.at = "ready"
      PROVE  Post(At(machine, c))
  <2> DEFINE q == At(machine, c)
  <2>1. FileResult(q) /\ q.m = machine /\ q.f = WithCache(f, c)
    BY FileResults
  <2> HIDE DEF q, At
  <2>2. /\ FileRecord(q.f) /\ q.f.cache = c /\ q.f.root = f.root /\ q.f.parent = f.parent
        /\ q.f.slot = f.slot /\ q.f.offset = f.offset /\ q.f.size = f.size
    BY <1>1, <2>1, FileFields
  <2>3. IsFile(w, q.f)
    BY <1>1, <2>2 DEF IsFile
  <2>4. Fine(w, Loose(machine, c), With(n, c), v) /\ IsMachine(machine) /\ c # None
    BY <1>1, <1>2, Loosen
  <2>5. v \cup {q.f.root} = v
    BY <1>1, <2>2
  <2>6. Fresh(q.f)
    BY <2>2, <2>4 DEF Fresh
  <2>7. Writing(w, q, n, v)
    BY <1>1, <1>2, <2>1, <2>2, <2>3, <2>4, <2>6 DEF Writing
  <2> QED BY <1>1, <1>2, <2>1, <2>2, <2>5, <2>7 DEF q
<1>3. ASSUME NEW ok, ok => f.cache # None
      PROVE  Post([m |-> m, f |-> f, ok |-> ok])
  <2> DEFINE q == [m |-> m, f |-> f, ok |-> ok]
  <2>1. FileResult(q) /\ q.m = m /\ q.f = f /\ q.ok = ok
    BY FileResults
  <2> HIDE DEF q
  <2>2. f.cache # None => Fine(w, Loose(m, f.cache), With(n, f.cache), v)
    BY <1>1, Loosen
  <2>3. v \cup {q.f.root} = v
    BY <1>1, <2>1
  <2>4. CASE ok
    <3>1. q.ok
      BY <2>1, <2>4
    <3>2. Writing(w, q, n, v)
      BY <1>1, <1>3, <2>1, <2>2, <2>4, <3>1 DEF Writing
    <3> QED BY <1>1, <2>1, <2>3, <3>2 DEF q
  <2>5. CASE ~ok
    <3>1. ~q.ok
      BY <2>1, <2>5
    <3>2. Writing(w, q, n, v)
      BY <1>1, <2>1, <3>1 DEF Writing
    <3> QED BY <1>1, <2>1, <2>3, <3>2 DEF q
  <2> QED BY <2>4, <2>5
<1>4. CASE f.cache = None /\ f.root # 0
  <2> DEFINE g == GetCache(m, f.root)
  <2>1. r = At(g, f.root)
    BY <1>4 DEF Placed, WithCache, FreeCache
  <2>2. With(n, f.cache) = n
    BY <1>4 DEF With
  <2>3. Fine(w, g, With(n, f.root), v) /\ (g.at = "ready" => m.at = "ready")
    BY <1>1, <2>2, GetCacheFine
  <2> HIDE DEF g, At, Post
  <2>4. Post(At(g, f.root))
    BY <1>1, <1>2, <2>3
  <2> HIDE DEF r
  <2>5. Post(r)
    BY <2>1, <2>4
  <2> QED BY <2>5 DEF Post, r
<1>5. CASE ~(f.cache = None /\ f.root # 0) /\ f.cache # None /\ (f.offset = 0 \/ ~AtBoundary(f))
  <2>1. r = [m |-> m, f |-> f, ok |-> TRUE]
    BY <1>5 DEF Placed
  <2> HIDE DEF r, Post
  <2>2. Post(r)
    BY <1>3, <1>5, <2>1
  <2> QED BY <2>2 DEF Post, r
<1>6. CASE /\ ~(f.cache = None /\ f.root # 0) /\ ~(f.cache # None /\ (f.offset = 0 \/ ~AtBoundary(f)))
           /\ f.cache # None /\ next # 0
  <2> DEFINE g == GetCache(FreeCache(m, f.cache), next)
  <2>1. r = At(g, next)
    BY <1>6 DEF Placed, WithCache
  <2>2. f.cache \in w.entries
    BY <1>1, <1>6
  <2>3. next \in w.entries /\ (m.at = "ready" => Taken(w, m.fat, next))
    BY <1>1, <2>2, Typing, TakenBy
  <2> HIDE DEF next
  <2>4. Fine(w, g, With(n, next), v) /\ (g.at = "ready" => m.at = "ready")
    BY <1>1, <2>2, <2>3, NextFine
  <2> HIDE DEF g, At, Post
  <2>5. Post(At(g, next))
    BY <1>2, <2>3, <2>4
  <2> HIDE DEF r
  <2>6. Post(r)
    BY <2>1, <2>5
  <2> QED BY <2>6 DEF Post, r
<1>7. CASE /\ ~(f.cache = None /\ f.root # 0) /\ ~(f.cache # None /\ (f.offset = 0 \/ ~AtBoundary(f)))
           /\ ~(f.cache # None /\ next # 0) /\ ~CanAddCluster(m, parent)
  <2>1. r = [m |-> m, f |-> f, ok |-> FALSE]
    BY <1>7 DEF Placed
  <2> HIDE DEF r, Post
  <2>2. Post(r)
    BY <1>3, <2>1
  <2> QED BY <2>2 DEF Post, r
<1>8. CASE /\ ~(f.cache = None /\ f.root # 0) /\ ~(f.cache # None /\ (f.offset = 0 \/ ~AtBoundary(f)))
           /\ ~(f.cache # None /\ next # 0) /\ CanAddCluster(m, parent) /\ f.cache # None
  <2> DEFINE added == AddCluster(m, parent)
             g == GetCache(FreeCache(added, f.cache), new)
             x == v \cup {f.cache}
             y == x \cup {new}
  <2>1. r = At(g, new)
    BY <1>8 DEF Placed, WithCache
  <2>2. f.cache \in w.entries /\ parent = f.cache /\ FreeEntries(m) # {}
    BY <1>1, <1>8 DEF CanAddCluster
  <2>3. Fine(w, m, With(n, f.cache), x)
    <3>1. f.cache \in Cached(m.cache)
      BY <1>1, <2>2, HeldCached
    <3>2. m.at = "ready" => Taken(w, m.fat, f.cache)
      BY <1>1, <3>1, TakenBy
    <3> QED BY <1>1, <2>2, <3>2, Learn
  <2> HIDE DEF new, x, parent
  <2>4. /\ new \in w.entries /\ Fine(w, added, With(n, f.cache), y)
        /\ added.at = m.at /\ added.fat[new] = ClusterLast
    <3>1. parent \in w.entries /\ parent \in x
      BY <2>2 DEF x
    <3>2. FreeEntries(m) # {} /\ (parent > 0 => parent \in x)
      BY <2>2, <3>1
    <3>3. /\ FirstFree(m) \in w.entries /\ Fine(w, added, With(n, f.cache), x \cup {FirstFree(m)})
          /\ added.at = m.at /\ added.fat[FirstFree(m)] = ClusterLast
      BY <2>3, <3>1, <3>2, AddClusterFine
    <3> HIDE DEF added
    <3> QED BY <3>3 DEF new
  <2>5. Taken(w, added.fat, new)
    BY <2>4 DEF Taken, ClusterLast
  <2> HIDE DEF added, y
  <2>6. Fine(w, g, With(n, new), y) /\ (g.at = "ready" => added.at = "ready")
    BY <1>1, <2>2, <2>4, <2>5, NextFine
  <2> HIDE DEF g
  <2>7. Fine(w, g, With(n, new), v)
    <3>1. With(n, new) \in [w.entries -> Nat] /\ v \in SUBSET y
      BY <1>1, <2>4, WithOne DEF x, y
    <3>2. \A b \in w.entries : With(n, new)[b] <= With(n, new)[b]
      <4>1. \A b \in w.entries : With(n, new)[b] \in Nat
        BY <3>1
      <4> QED BY <4>1
    <3> QED BY <2>6, <3>1, <3>2, Fewer
  <2> HIDE DEF At, Post
  <2>8. Post(At(g, new))
    BY <1>2, <2>4, <2>6, <2>7
  <2> HIDE DEF r
  <2>9. Post(r)
    BY <2>1, <2>8
  <2> QED BY <2>9 DEF Post, r
<1>9. CASE f.cache = None /\ f.root = 0 /\ CanAddCluster(m, parent)
  <2> DEFINE added == AddCluster(m, 0)
             g == GetCache(added, new)
             h == WithCache(f, new)
             q == Refilled(g, new, ZeroCells(new))
             e == Rooted(h, new)
             y == v \cup {new}
  <2>1. r = [m |-> q, f |-> e, ok |-> TRUE]
    <3>1. r = [[m |-> g, f |-> h, ok |-> TRUE] EXCEPT !.m.cache[new].cells = ZeroCells(new),
                                                      !.f.root = new, !.f.update = TRUE]
      BY <1>9 DEF Placed, WithCache, FreeCache
    <3>2. r = Began([m |-> g, f |-> h, ok |-> TRUE], new, ZeroCells(new))
      BY <3>1 DEF Began
    <3> HIDE DEF r, g, h, new
    <3> QED BY <3>2, FirstCluster
  <2>2. parent = 0 /\ FreeEntries(m) # {}
    BY <1>9 DEF CanAddCluster
  <2>3. Fine(w, m, n, v)
    <3>1. With(n, f.cache) = n
      BY <1>9 DEF With
    <3> QED BY <1>1, <3>1
  <2> HIDE DEF new, parent
  <2>4. /\ new \in w.entries /\ Fine(w, added, n, y) /\ added.at = m.at
    <3>1. ~(0 > 0)
      OBVIOUS
    <3> QED BY <1>1, <2>2, <2>3, <3>1, AddClusterFine DEF new
  <2> HIDE DEF added, y
  <2>5. Fine(w, g, With(n, new), y) /\ (g.at = "ready" => added.at = "ready")
    <3>1. new \in y
      BY DEF y
    <3> QED BY <2>4, <3>1, GetCacheFine
  <2> HIDE DEF g
  <2>6. Fine(w, Loose(g, new), With(n, new), y) /\ IsMachine(g)
    BY <2>4, <2>5, Loosen
  <2>7. CellsOK(w, new, ZeroCells(new)) /\ (g.at = "ready" => CellsTaken(w, g.fat, new, ZeroCells(new)))
    <3>1. g.at = "ready" => Taken(w, g.fat, 0)
      BY <2>5, TakenBy
    <3> QED BY <1>1, <3>1, ZeroFit
  <2>8. /\ Fine(w, Loose(q, new), With(n, new), y) /\ (g.at # "ready" => Fine(w, q, With(n, new), y))
        /\ IsMachine(q) /\ q.at = g.at
    BY <1>1, <2>4, <2>6, <2>7, RefilledFine
  <2> HIDE DEF q
  <2>9. /\ FileRecord(h) /\ h.cache = new /\ h.parent = f.parent /\ h.slot = f.slot
        /\ h.offset = f.offset /\ h.size = f.size
    BY <1>1, FileFields
  <2> HIDE DEF h
  <2>10. /\ FileRecord(e) /\ e.root = new /\ e.cache = new /\ e.parent = f.parent /\ e.slot = f.slot
         /\ e.offset = f.offset /\ e.size = f.size
    BY <2>9, RootedFields
  <2> HIDE DEF e
  <2>11. IsFile(w, e)
    BY <1>1, <2>4, <2>10 DEF IsFile
  <2> HIDE DEF r
  <2>12. FileResult(r) /\ r.m = q /\ r.f = e /\ r.ok = TRUE
    BY <2>1, FileResults
  <2>13. r.ok /\ new # None
    BY <1>1, <2>4, <2>12
  <2>14. v \cup {r.f.root} = y /\ {e.root, e.parent} \subseteq y
    BY <1>1, <2>10, <2>12 DEF y
  <2>15. Writing(w, r, n, y)
    <3>1. FileResult(r) /\ IsFile(w, r.f) /\ {r.f.root, r.f.parent} \subseteq y
          /\ n \in [w.entries -> Nat] /\ IsMachine(r.m)
      BY <1>1, <2>8, <2>11, <2>12, <2>14
    <3>2. r.f.cache # None /\ Fine(w, Loose(r.m, r.f.cache), With(n, r.f.cache), y)
      BY <2>8, <2>10, <2>12, <2>13
    <3>3. r.m.at # "ready" => Fine(w, r.m, With(n, r.f.cache), y)
      BY <2>8, <2>10, <2>12
    <3> QED BY <2>13, <3>1, <3>2, <3>3, Zenon DEF Writing
  <2>16. Post(r)
    BY <2>4, <2>5, <2>8, <2>10, <2>12, <2>14, <2>15
  <2> QED BY <2>16 DEF r
<1>10. CASE f.cache = None /\ f.root = 0 /\ ~CanAddCluster(m, parent)
  BY <1>7, <1>10
<1> QED BY <1>4, <1>5, <1>6, <1>7, <1>8, <1>9, <1>10

\* The handle behind the byte.
Behind(f) ==
  [f EXCEPT !.offset = @ + 1, !.size = IF f.offset + 1 > @ THEN f.offset + 1 ELSE @,
            !.update = @ \/ f.offset + 1 > f.size]

LEMMA BehindFields ==
  ASSUME NEW f, FileRecord(f)
  PROVE  /\ FileRecord(Behind(f)) /\ Behind(f).root = f.root /\ Behind(f).parent = f.parent
         /\ Behind(f).slot = f.slot /\ Behind(f).cache = f.cache /\ Behind(f).offset = f.offset + 1
         /\ Behind(f).size \in {f.size, f.offset + 1}
<1> DEFINE D == {"root", "parent", "slot", "update", "offset", "size", "cache", "astray"}
           g == Behind(f)
<1>1. DOMAIN f = D
  BY DEF FileRecord
<1>2. /\ DOMAIN g = D /\ g = [a \in D |-> g[a]] /\ g.cache = f.cache /\ g.root = f.root
      /\ g.parent = f.parent /\ g.slot = f.slot /\ g.offset = f.offset + 1
      /\ g.size \in {f.size, f.offset + 1}
  BY <1>1 DEF Behind
<1>3. \A a : DOMAIN a = D /\ a = [b \in D |-> a[b]] => FileRecord(a)
  BY DEF FileRecord
<1> HIDE DEF g, D
<1>4. FileRecord(g)
  BY <1>2, <1>3
<1> QED BY <1>2, <1>4 DEF g

LEMMA FilePutByteFine ==
  ASSUME NEW w, NEW m, NEW f, NEW n, NEW v, FileFine(w, m, f, n, v), Fresh(f),
         NEW b \in Bytes, f.offset < MaxSize
  PROVE  LET r == FilePutByte(m, f, b)
         IN /\ r.f.root \in w.entries /\ AtFile(w, r, n, v \cup {r.f.root})
            /\ r.m.at = "ready" => m.at = "ready"
<1> DEFINE p == Placed(m, f)
           r == FilePutByte(m, f, b)
           u == v \cup {p.f.root}
           c == p.f.cache
           i == p.f.offset % Size(c)
           cells == [p.m.cache[c].cells EXCEPT ![i] = Data(b)]
           filled == Refilled(p.m, c, cells)
           put == Loose(filled, c)
           moved == Behind(p.f)
           k == With(n, c)
<1>1. /\ p.f.root \in w.entries /\ Writing(w, p, n, u) /\ p.f.offset = f.offset
      /\ p.m.at = "ready" => m.at = "ready"
  BY PlacedFine
<1>2. r = IF ~p.ok \/ p.m.at # "ready" THEN p ELSE [m |-> Updated(put, moved), f |-> moved, ok |-> TRUE]
  BY DEF FilePutByte, PutAt, SetCell, Refilled, Loose, Behind
<1> HIDE DEF p
<1>3. /\ FileResult(p) /\ IsFile(w, p.f) /\ {p.f.root, p.f.parent} \subseteq u
      /\ n \in [w.entries -> Nat] /\ IsMachine(p.m)
  BY <1>1 DEF Writing
<1>4. CASE ~p.ok \/ p.m.at # "ready"
  <2>1. Fine(w, p.m, k, u) /\ (p.m.at = "ready" => Fresh(p.f))
    BY <1>1, <1>4 DEF Writing
  <2>2. FileFine(w, p.m, p.f, n, u)
    BY <1>3, <2>1 DEF FileFine
  <2> HIDE DEF r, u
  <2>3. r = p
    BY <1>2, <1>4
  <2>4. AtFile(w, r, n, u)
    BY <1>3, <2>2, <2>3 DEF AtFile
  <2> QED BY <1>1, <2>3, <2>4 DEF r, u
<1>5. CASE p.ok /\ p.m.at = "ready"
  <2> HIDE DEF k, u, cells
  <2>1. c # None /\ Fine(w, Loose(p.m, c), k, u)
    BY <1>1, <1>5 DEF Writing, k
  <2>2. /\ c \in w.entries /\ FileRecord(p.f) /\ p.f.offset \in Nat /\ p.f.size \in 0..MaxSize
    BY <1>3, <2>1 DEF IsFile
  <2>3. i \in 0..(Size(c) - 1)
    BY <2>2, InBufferNumber
  <2>4. Loose(p.m, c).cache = p.m.cache /\ Loose(p.m, c).fat = p.m.fat /\ Loose(p.m, c).at = p.m.at
    BY <1>3, LooseFields
  <2>5. c \in Cached(p.m.cache)
    <3>1. Fine(w, Loose(p.m, c), With(n, c), u)
      BY <2>1 DEF k
    <3> QED BY <1>3, <2>2, <2>4, <3>1, HeldCached
  <2>6. CellsOK(w, c, p.m.cache[c].cells) /\ WorldOK(w) /\ k \in [w.entries -> Nat]
    BY <2>1, <2>2, <2>4, <2>5, Typing
  <2>7. Data(b) \in CellOver(w.entries) /\ Data(b).cluster = 0
    <3>1. 0 \in w.entries /\ b \in {"", ".", "..", "old"} \cup ShortNames \cup Bytes
      BY <2>6, Entries
    <3> QED BY <2>6, <3>1, NewCells
  <2> HIDE DEF i, c
  <2>8. \A j \in 0..(Size(c) - 1) : cells[j] = IF j = i THEN Data(b) ELSE p.m.cache[c].cells[j]
    BY <2>6 DEF CellsOK, cells
  <2>9. CellsOK(w, c, cells)
    BY <2>3, <2>6, <2>7 DEF CellsOK, cells
  <2>10. CellsTaken(w, p.m.fat, c, cells)
    <3>1. Taken(w, p.m.fat, 0) /\ CellsTaken(w, p.m.fat, c, p.m.cache[c].cells)
      BY <1>5, <2>1, <2>4, <2>5, TakenBy
    <3> QED BY <2>7, <2>8, <3>1 DEF CellsTaken
  <2>11. Fine(w, put, k, u) /\ filled.at = p.m.at /\ IsMachine(filled)
    BY <1>3, <2>1, <2>2, <2>9, <2>10, RefilledFine DEF k
  <2> HIDE DEF filled
  <2>12. put.at = p.m.at
    <3>1. Loose(filled, c).at = filled.at
      BY <2>11, LooseFields
    <3> QED BY <2>11, <3>1
  <2> HIDE DEF put
  <2>13. /\ FileRecord(moved) /\ moved.root = p.f.root /\ moved.parent = p.f.parent
         /\ moved.slot = p.f.slot /\ moved.cache = p.f.cache /\ moved.offset = p.f.offset + 1
         /\ moved.size \in {p.f.size, p.f.offset + 1}
    BY <2>2, BehindFields
  <2> HIDE DEF moved
  <2>14. IsFile(w, moved)
    <3>1. p.f.offset + 1 \in Nat /\ p.f.offset + 1 \in 0..MaxSize
      BY <1>1, <2>2, Constant
    <3> QED BY <1>3, <2>2, <2>13, <3>1 DEF IsFile
  <2> DEFINE done == Updated(put, moved)
  <2>15. Fine(w, done, k, u)
    BY <1>3, <2>11, <2>13, <2>14, UpdatedFine
  <2> HIDE DEF done, r
  <2>16. r = [m |-> done, f |-> moved, ok |-> TRUE]
    BY <1>2, <1>5 DEF done
  <2>17. r.m = done /\ r.f = moved /\ FileResult(r)
    BY <2>16, FileResults
  <2>18. With(n, moved.cache) = k /\ moved.cache # None
    BY <2>1, <2>13 DEF k, c
  <2>19. FileFine(w, done, moved, n, u)
    BY <1>3, <2>13, <2>14, <2>15, <2>18 DEF FileFine, Fresh
  <2>20. AtFile(w, r, n, u) /\ r.f.root = p.f.root
    BY <2>13, <2>17, <2>19 DEF AtFile
  <2> QED BY <1>1, <1>5, <2>20 DEF r, u
<1> QED BY <1>4, <1>5

LEMMA WalkedFine ==
  ASSUME NEW w, NEW s, NEW n, NEW v, FileFine(w, s.m, s.f, n, v), NEW offset \in Nat,
         s = [m |-> s.m, f |-> s.f, a |-> s.a], s.a \in Nat
  PROVE  LET r == Walked(s, offset)
         IN /\ r = [m |-> r.m, f |-> r.f, a |-> r.a] /\ r.a \in Nat
            /\ FileFine(w, r.m, r.f, n, v)
            /\ r.m.at = "ready" => s.m.at = "ready" /\ r.f.cache # None
<1> DEFINE r == Walked(s, offset)
           c == s.f.cache
           next == GetNextCluster(s.m, c)
           far == offset - s.a > Size(c)
           Fit(q) == /\ q = [m |-> q.m, f |-> q.f, a |-> q.a] /\ q.a \in Nat
                     /\ FileFine(w, q.m, q.f, n, v)
                     /\ q.m.at = "ready" => s.m.at = "ready" /\ q.f.cache # None
<1>1. /\ IsFile(w, s.f) /\ {s.f.root, s.f.parent} \subseteq v /\ n \in [w.entries -> Nat]
      /\ Fine(w, s.m, With(n, c), v) /\ c \in w.entries \cup {None}
  <2>1. /\ IsFile(w, s.f) /\ {s.f.root, s.f.parent} \subseteq v /\ n \in [w.entries -> Nat]
        /\ Fine(w, s.m, With(n, c), v)
    BY DEF FileFine
  <2> QED BY <2>1 DEF IsFile
<1>2. Size(c) \in Nat
  BY Constant
<1>3. ASSUME NEW x \in {"stopped", "hung"} PROVE Fit([s EXCEPT !.m.at = x])
  <2> DEFINE q == [s EXCEPT !.m.at = x]
             m == StoppedAt(s.m, x)
  <2>1. q = [m |-> m, f |-> s.f, a |-> s.a]
    <3>1. q = [s EXCEPT !.m = m]
      BY DEF StoppedAt
    <3> HIDE DEF m, q
    <3> QED BY <3>1
  <2>2. Fine(w, m, With(n, c), v) /\ m.at = x
    BY <1>1, Stops
  <2> HIDE DEF q, m
  <2>3. q.m = m /\ q.f = s.f /\ q.a = s.a
    BY <2>1
  <2>4. FileFine(w, m, s.f, n, v)
    BY <1>1, <2>2 DEF FileFine
  <2> QED BY <2>1, <2>2, <2>3, <2>4 DEF q
<1>4. CASE c = None
  <2>1. r = [s EXCEPT !.m.at = "stopped"]
    BY <1>4 DEF Walked
  <2>2. Fit([s EXCEPT !.m.at = "stopped"])
    BY <1>3
  <2> HIDE DEF r, Fit
  <2>3. Fit(r)
    BY <2>1, <2>2
  <2> QED BY <2>3 DEF Fit, r
<1>5. CASE c # None /\ far
  <2> DEFINE g == GetCache(FreeCache(s.m, c), next)
             h == WithCache(s.f, next)
  <2>1. r = [m |-> g, f |-> h, a |-> s.a + Size(c)]
    BY <1>5 DEF Walked, WithCache
  <2>2. c \in w.entries
    BY <1>1, <1>5
  <2>3. next \in w.entries /\ (s.m.at = "ready" => Taken(w, s.m.fat, next))
    BY <1>1, <2>2, Typing, TakenBy
  <2> HIDE DEF next
  <2>4. Fine(w, g, With(n, next), v) /\ (g.at = "ready" => s.m.at = "ready")
    BY <1>1, <2>2, <2>3, NextFine
  <2> HIDE DEF g
  <2>5. FileFine(w, g, h, n, v) /\ h.cache # None
    BY <1>1, <2>3, <2>4, FileTo
  <2> HIDE DEF h, r
  <2>6. r.m = g /\ r.f = h /\ r.a = s.a + Size(c) /\ r = [m |-> r.m, f |-> r.f, a |-> r.a]
    BY <2>1
  <2>7. r.a \in Nat
    BY <1>2, <2>6
  <2> QED BY <2>4, <2>5, <2>6, <2>7 DEF r
<1>6. CASE c # None /\ ~far /\ offset % Size(c) = 0
  <2>1. r = [s EXCEPT !.m.at = "hung"]
    BY <1>6 DEF Walked
  <2>2. Fit([s EXCEPT !.m.at = "hung"])
    BY <1>3
  <2> HIDE DEF r, Fit
  <2>3. Fit(r)
    BY <2>1, <2>2
  <2> QED BY <2>3 DEF Fit, r
<1>7. CASE c # None /\ ~far /\ offset % Size(c) # 0
  <2> DEFINE x == offset % Size(c)
             y == s.a + x
  <2>1. r = [s EXCEPT !.a = y]
    BY <1>7 DEF Walked
  <2>2. x \in Nat
    <3>1. \A a, b \in Nat : b > 0 => a % b \in Nat
      OBVIOUS
    <3>2. Size(c) > 0
      BY Constant
    <3> QED BY <1>2, <3>1, <3>2
  <2> HIDE DEF x
  <2>3. y \in Nat
    BY <2>2
  <2> HIDE DEF y, r
  <2>4. r = [m |-> s.m, f |-> s.f, a |-> y]
    BY <2>1
  <2>5. r.m = s.m /\ r.f = s.f /\ r.a = y
    BY <2>4
  <2> QED BY <1>7, <2>3, <2>4, <2>5 DEF r
<1> QED BY <1>4, <1>5, <1>6, <1>7

LEMMA WalkFine ==
  ASSUME NEW w, NEW m, NEW f, NEW n, NEW v, FileFine(w, m, f, n, v), NEW offset \in Nat
  PROVE  LET r == Walk(m, f, offset)
         IN /\ FileFine(w, r.m, r.f, n, v)
            /\ r.m.at = "ready" => m.at = "ready" /\ (r.f.cache # None \/ offset = 0)
<1> DEFINE Next(s) == IF s.m.at = "ready" /\ s.a < offset THEN Walked(s, offset) ELSE s
           first == [m |-> m, f |-> f, a |-> 0]
           Is(walk, k) == walk = [i \in 0..k |-> IF i = 0 THEN first ELSE Next(walk[i - 1])]
           Good(s) == /\ s = [m |-> s.m, f |-> s.f, a |-> s.a] /\ s.a \in Nat
                      /\ FileFine(w, s.m, s.f, n, v)
                      /\ s.m.at = "ready" => m.at = "ready" /\ (s.f.cache # None \/ s.a = 0)
           walk == CHOOSE g : Is(g, offset)
<1>1. Walk(m, f, offset) = walk[offset]
  BY DEF Walk
<1>2. Good(first)
  OBVIOUS
<1>3. ASSUME NEW s, Good(s) PROVE Good(Next(s))
  <2>1. CASE s.m.at = "ready" /\ s.a < offset
    <3> DEFINE q == Walked(s, offset)
    <3>1. /\ q = [m |-> q.m, f |-> q.f, a |-> q.a] /\ q.a \in Nat
          /\ FileFine(w, q.m, q.f, n, v)
          /\ q.m.at = "ready" => s.m.at = "ready" /\ q.f.cache # None
      BY <1>3, WalkedFine
    <3> HIDE DEF q
    <3>2. Good(q)
      BY <1>3, <3>1
    <3>3. Next(s) = q
      BY <2>1 DEF q
    <3> HIDE DEF Good, Next
    <3> QED BY <3>2, <3>3
  <2>2. CASE ~(s.m.at = "ready" /\ s.a < offset)
    <3>1. Next(s) = s
      BY <2>2
    <3> HIDE DEF Good, Next
    <3> QED BY <1>3, <3>1
  <2> QED BY <2>1, <2>2
<1>a. offset \in Nat
  OBVIOUS
<1> HIDE DEF Next, first, Good
<1>4. \A k \in Nat : \E g : Is(g, k)
  <2> DEFINE S == {k \in Nat : \E g : Is(g, k)}
  <2>1. 0 \in S
    <3>1. Is([i \in 0..0 |-> first], 0)
      OBVIOUS
    <3> QED BY <3>1
  <2>2. ASSUME NEW k \in Nat, k \in S PROVE k + 1 \in S
    <3>1. PICK g : Is(g, k)
      BY <2>2
    <3> DEFINE h == [i \in 0..(k + 1) |-> IF i = k + 1 THEN Next(g[k]) ELSE g[i]]
    <3>2. \A i \in 0..k : h[i] = g[i] /\ g[i] = IF i = 0 THEN first ELSE Next(g[i - 1])
      BY <3>1
    <3>3. ASSUME NEW i \in 0..(k + 1) PROVE h[i] = IF i = 0 THEN first ELSE Next(h[i - 1])
      <4>1. CASE i = k + 1
        <5>1. h[k] = g[k] /\ i - 1 = k /\ i # 0
          BY <3>2, <4>1
        <5> QED BY <4>1, <5>1
      <4>2. CASE i # k + 1 /\ i # 0
        <5>1. i \in 0..k /\ i - 1 \in 0..k
          BY <4>2
        <5> QED BY <3>2, <4>2, <5>1
      <4>3. CASE i = 0
        <5>1. i \in 0..k
          BY <4>3
        <5> QED BY <3>2, <4>3, <5>1
      <4> QED BY <4>1, <4>2, <4>3
    <3>4. h = [i \in 0..(k + 1) |-> h[i]]
      OBVIOUS
    <3> HIDE DEF h
    <3>5. Is(h, k + 1)
      BY <3>3, <3>4
    <3> HIDE DEF Is
    <3> QED BY <3>5
  <2> HIDE DEF S
  <2>3. Nat \subseteq S
    BY <2>1, <2>2, Numbers
  <2> QED BY <2>3 DEF S
<1>5. Is(walk, offset) /\ offset \in Nat
  <2>1. offset \in Nat
    BY <1>a
  <2>2. \E g : Is(g, offset)
    BY <1>4, <2>1
  <2> HIDE DEF Is
  <2> QED BY <2>1, <2>2
<1> HIDE DEF walk
<1>6. walk[0] = first /\ \A i \in 1..offset : walk[i] = Next(walk[i - 1])
  <2>1. 0 \in 0..offset /\ \A i \in 1..offset : i \in 0..offset /\ i # 0
    BY <1>5
  <2> QED BY <1>5, <2>1
<1> HIDE DEF Is
<1>7. \A k \in 0..offset : Good(walk[k])
  <2> DEFINE S == {k \in Nat : k \in 0..offset => Good(walk[k])}
  <2>1. 0 \in S
    BY <1>2, <1>6
  <2>2. ASSUME NEW k \in Nat, k \in S PROVE k + 1 \in S
    <3>1. SUFFICES ASSUME k + 1 \in 0..offset PROVE Good(walk[k + 1])
      OBVIOUS
    <3>2. k \in 0..offset /\ k + 1 \in 1..offset /\ (k + 1) - 1 = k
      BY <1>5, <3>1
    <3>3. walk[k + 1] = Next(walk[k]) /\ Good(walk[k])
      BY <1>6, <2>2, <3>2
    <3> QED BY <1>3, <3>3
  <2> HIDE DEF S
  <2>3. Nat \subseteq S
    BY <2>1, <2>2, Numbers
  <2> QED BY <1>5, <2>3 DEF S
<1>8. Good(walk[offset])
  <2>1. offset \in 0..offset
    OBVIOUS
  <2> QED BY <1>7, <2>1
<1>9. ASSUME offset # 0, walk[offset].m.at = "ready" PROVE walk[offset].f.cache # None
  <2> DEFINE s == walk[offset - 1]
             q == Walked(s, offset)
  <2>1. offset \in 1..offset /\ offset - 1 \in 0..offset
    BY <1>9
  <2>2. Good(s) /\ walk[offset] = Next(s)
    BY <1>6, <1>7, <2>1
  <2> HIDE DEF s
  <2>3. CASE s.m.at = "ready" /\ s.a < offset
    <3>1. Next(s) = q
      BY <2>3 DEF Next
    <3>2. q.m.at = "ready" => q.f.cache # None
      BY <2>2, WalkedFine DEF Good
    <3> HIDE DEF q
    <3> QED BY <1>9, <2>2, <3>1, <3>2
  <2>4. CASE ~(s.m.at = "ready" /\ s.a < offset)
    <3>1. Next(s) = s
      BY <2>4 DEF Next
    <3>2. s.m.at = "ready"
      BY <1>9, <2>2, <3>1
    <3>3. s.a # 0 /\ s.a \in Nat
      BY <1>9, <2>2, <2>4, <3>2 DEF Good
    <3> QED BY <2>2, <3>1, <3>2, <3>3 DEF Good
  <2> QED BY <2>3, <2>4
<1> QED BY <1>1, <1>8, <1>9 DEF Good

LEMMA FileSetPointerFine ==
  ASSUME NEW w, NEW m, NEW f, NEW n, NEW v, FileFine(w, m, f, n, v), NEW offset \in Nat
  PROVE  LET r == FileSetPointer(m, f, offset)
         IN FileFine(w, r.m, r.f, n, v) /\ (r.m.at = "ready" => m.at = "ready")
<1> DEFINE r == FileSetPointer(m, f, offset)
           g == GetCache(FreeCache(m, f.cache), f.root)
           back == IF f.cache \in {None, f.root} THEN [m |-> m, f |-> f]
                   ELSE [m |-> g, f |-> WithCache(f, f.root)]
           s == Walk(back.m, back.f, offset)
<1>1. r = [m |-> s.m, f |-> WithOffset(s.f, offset)]
  BY DEF FileSetPointer, WithCache, WithOffset
<1>2. /\ IsFile(w, f) /\ {f.root, f.parent} \subseteq v /\ n \in [w.entries -> Nat]
      /\ Fine(w, m, With(n, f.cache), v) /\ f.cache \in w.entries \cup {None} /\ f.root \in w.entries
  <2>1. /\ IsFile(w, f) /\ {f.root, f.parent} \subseteq v /\ n \in [w.entries -> Nat]
        /\ Fine(w, m, With(n, f.cache), v)
    BY DEF FileFine
  <2> QED BY <2>1 DEF IsFile
<1>3. FileFine(w, back.m, back.f, n, v) /\ (back.m.at = "ready" => m.at = "ready")
  <2>1. CASE f.cache \in {None, f.root}
    <3>1. back = [m |-> m, f |-> f]
      BY <2>1
    <3> HIDE DEF back
    <3>2. back.m = m /\ back.f = f
      BY <3>1
    <3> QED BY <3>2
  <2>2. CASE f.cache \notin {None, f.root}
    <3>1. back = [m |-> g, f |-> WithCache(f, f.root)]
      BY <2>2
    <3>2. f.cache \in w.entries
      BY <1>2, <2>2
    <3>3. m.at = "ready" => Taken(w, m.fat, f.root)
      BY <1>2 DEF Fine, Known
    <3>4. Fine(w, g, With(n, f.root), v) /\ (g.at = "ready" => m.at = "ready")
      BY <1>2, <3>2, <3>3, NextFine
    <3> HIDE DEF g, back
    <3>5. FileFine(w, g, WithCache(f, f.root), n, v)
      BY <1>2, <3>4, FileTo
    <3>6. back.m = g /\ back.f = WithCache(f, f.root)
      BY <3>1
    <3> QED BY <3>4, <3>5, <3>6
  <2> QED BY <2>1, <2>2
<1> HIDE DEF back
<1>4. /\ FileFine(w, s.m, s.f, n, v)
      /\ s.m.at = "ready" => back.m.at = "ready" /\ (s.f.cache # None \/ offset = 0)
  BY <1>3, WalkFine
<1> HIDE DEF s
<1>5. FileFine(w, s.m, WithOffset(s.f, offset), n, v)
  BY <1>4, FileMoves
<1> HIDE DEF r
<1>6. r.m = s.m /\ r.f = WithOffset(s.f, offset)
  BY <1>1
<1> QED BY <1>3, <1>4, <1>5, <1>6 DEF r

\* All objects are written, whoever holds them.
LEMMA FlushFine ==
  ASSUME NEW w, NEW m, NEW n, NEW v, Fine(w, m, n, v)
  PROVE  LET r == Flush(m)
         IN /\ Fine(w, r, n, v) /\ r.fat = m.fat
            /\ r.at = "ready" => m.at = "ready"
            /\ \A c \in Cached(r.cache) : ~r.cache[c].dirty
<1> DEFINE all == Cardinality(Cached(m.cache))
           nth(k) == CHOOSE c \in Cached(m.cache) : m.cache[c].nth = k
           Next(r, k) == FlushCache(r, nth(k))
           first == m
           Is(flushed, k) == flushed = [i \in 0..k |-> IF i = 0 THEN first ELSE Next(flushed[i - 1], i)]
           Good(r, k) == /\ Fine(w, r, n, v) /\ r.fat = m.fat
                         /\ r.at = "ready" => m.at = "ready"
                         /\ Cached(r.cache) = Cached(m.cache)
                         /\ \A c \in Cached(m.cache) : m.cache[c].nth \in 1..k => ~r.cache[c].dirty
           flushed == CHOOSE g : Is(g, all)
<1>1. Flush(m) = flushed[all]
  BY DEF Flush
<1>a. /\ WorldOK(w) /\ Listed(m.cache) /\ Cached(m.cache) \subseteq w.entries
      /\ \A c \in Cached(m.cache) : m.cache[c].nth \in Nat /\ m.cache[c].nth # 0
  <2>1. CacheOK(w, m.cache) /\ WorldOK(w) /\ Cached(m.cache) \subseteq w.entries
    BY Typing
  <2> QED BY <2>1 DEF CacheOK, ObjectOK, Cached
<1>b. all \in Nat
  <2>1. IsFiniteSet(Cached(m.cache))
    BY <1>a, Entries, FS_Subset
  <2> QED BY <2>1, FS_CardinalityType
<1>2. Good(first, 0)
  OBVIOUS
<1> HIDE DEF all
<1>3. ASSUME NEW r, NEW k \in Nat, k + 1 \in 1..all, Good(r, k) PROVE Good(Next(r, k + 1), k + 1)
  <2> DEFINE b == nth(k + 1)
             q == FlushCache(r, b)
  <2>1. /\ b \in Cached(m.cache) /\ m.cache[b].nth = k + 1
        /\ \A c \in Cached(m.cache) : m.cache[c].nth = k + 1 => c = b
    <3>1. \E c \in Cached(m.cache) : m.cache[c].nth = k + 1
      BY <1>3, <1>a DEF Listed, all
    <3>2. b \in Cached(m.cache) /\ m.cache[b].nth = k + 1
      BY <3>1
    <3> HIDE DEF b
    <3>3. \A c, d \in Cached(m.cache) : m.cache[c].nth = m.cache[d].nth => c = d
      BY <1>a DEF Listed
    <3> QED BY <3>2, <3>3
  <2> HIDE DEF b
  <2>2. b \in Cached(r.cache)
    BY <1>3, <2>1
  <2>3. /\ Fine(w, q, n, v) /\ q.fat = r.fat /\ Cached(q.cache) = Cached(r.cache)
        /\ \A c \in w.entries : q.cache[c].dirty = (r.cache[c].dirty /\ c # b)
        /\ q.at = "ready" => r.at = "ready"
    BY <1>3, <2>2, FlushCacheFine
  <2> HIDE DEF q
  <2>4. ASSUME NEW c \in Cached(m.cache), m.cache[c].nth \in 1..(k + 1) PROVE ~q.cache[c].dirty
    <3>1. c \in w.entries
      BY <1>a
    <3>2. CASE c = b
      BY <2>3, <3>1, <3>2
    <3>3. CASE c # b
      <4>1. m.cache[c].nth \in 1..k
        BY <1>a, <2>1, <2>4, <3>3
      <4>2. ~r.cache[c].dirty
        BY <1>3, <4>1
      <4> QED BY <2>3, <3>1, <4>2
    <3> QED BY <3>2, <3>3
  <2>5. Good(q, k + 1)
    BY <1>3, <2>3, <2>4
  <2> HIDE DEF Good
  <2> QED BY <2>5 DEF q, b
<1> HIDE DEF Next, first, Good
<1>4. \A k \in Nat : \E g : Is(g, k)
  <2> DEFINE S == {k \in Nat : \E g : Is(g, k)}
  <2>1. 0 \in S
    <3>1. Is([i \in 0..0 |-> first], 0)
      OBVIOUS
    <3> QED BY <3>1
  <2>2. ASSUME NEW k \in Nat, k \in S PROVE k + 1 \in S
    <3>1. PICK g : Is(g, k)
      BY <2>2
    <3> DEFINE h == [i \in 0..(k + 1) |-> IF i = k + 1 THEN Next(g[k], k + 1) ELSE g[i]]
    <3>2. \A i \in 0..k : h[i] = g[i] /\ g[i] = IF i = 0 THEN first ELSE Next(g[i - 1], i)
      BY <3>1
    <3>3. ASSUME NEW i \in 0..(k + 1) PROVE h[i] = IF i = 0 THEN first ELSE Next(h[i - 1], i)
      <4>1. CASE i = k + 1
        <5>1. h[k] = g[k] /\ i - 1 = k /\ i # 0
          BY <3>2, <4>1
        <5> QED BY <4>1, <5>1
      <4>2. CASE i # k + 1 /\ i # 0
        <5>1. i \in 0..k /\ i - 1 \in 0..k
          BY <4>2
        <5> QED BY <3>2, <4>2, <5>1
      <4>3. CASE i = 0
        <5>1. i \in 0..k
          BY <4>3
        <5> QED BY <3>2, <4>3, <5>1
      <4> QED BY <4>1, <4>2, <4>3
    <3>4. h = [i \in 0..(k + 1) |-> h[i]]
      OBVIOUS
    <3> HIDE DEF h
    <3>5. Is(h, k + 1)
      BY <3>3, <3>4
    <3> HIDE DEF Is
    <3> QED BY <3>5
  <2> HIDE DEF S
  <2>3. Nat \subseteq S
    BY <2>1, <2>2, Numbers
  <2> QED BY <2>3 DEF S
<1>5. Is(flushed, all) /\ all \in Nat
  <2>1. all \in Nat
    BY <1>b
  <2>2. \E g : Is(g, all)
    BY <1>4, <2>1
  <2> HIDE DEF Is
  <2> QED BY <2>1, <2>2
<1> HIDE DEF flushed
<1>6. flushed[0] = first /\ \A i \in 1..all : flushed[i] = Next(flushed[i - 1], i)
  <2>1. 0 \in 0..all /\ \A i \in 1..all : i \in 0..all /\ i # 0
    BY <1>5
  <2> QED BY <1>5, <2>1
<1> HIDE DEF Is
<1>7. Good(flushed[all], all)
  <2> DEFINE S == {k \in Nat : k \in 0..all => Good(flushed[k], k)}
  <2>1. 0 \in S
    BY <1>2, <1>6
  <2>2. ASSUME NEW k \in Nat, k \in S PROVE k + 1 \in S
    <3>1. SUFFICES ASSUME k + 1 \in 0..all PROVE Good(flushed[k + 1], k + 1)
      OBVIOUS
    <3>2. k \in 0..all /\ k + 1 \in 1..all /\ (k + 1) - 1 = k
      BY <1>5, <3>1
    <3>3. flushed[k + 1] = Next(flushed[k], k + 1) /\ Good(flushed[k], k)
      BY <1>6, <2>2, <3>2
    <3> QED BY <1>3, <3>2, <3>3
  <2> HIDE DEF S
  <2>3. Nat \subseteq S
    BY <2>1, <2>2, Numbers
  <2>4. all \in 0..all
    BY <1>5
  <2> QED BY <1>5, <2>3, <2>4 DEF S
<1>8. \A c \in Cached(m.cache) : m.cache[c].nth \in 1..all
  BY <1>a, <1>b DEF Listed, all
<1> QED BY <1>1, <1>7, <1>8 DEF Good

-----------------------------------------------------------------------------
(* The handles together.                                                     *)

Opened(hs, H) == {h \in H : hs[h] # Closed}
Holding(hs, H, c) == {h \in Opened(hs, H) : hs[h].cache = c}

\* How many handles hold each object, and the clusters that handles know of.
Holders(w, ds, fs) ==
  [c \in w.entries |-> Cardinality(Holding(ds, DirHandles, c)) + Cardinality(Holding(fs, FileHandles, c))]
Roots(ds, fs) ==
  UNION {{0}, {ds[h].root : h \in Opened(ds, DirHandles)}, {fs[k].root : k \in Opened(fs, FileHandles)},
         {fs[k].parent : k \in Opened(fs, FileHandles)}}

Handles(w, at, ds, fs) ==
  /\ ds = [h \in DirHandles |-> ds[h]] /\ fs = [k \in FileHandles |-> fs[k]]
  /\ \A h \in Opened(ds, DirHandles) : IsDir(w, ds[h])
  /\ \A k \in Opened(fs, FileHandles) : IsFile(w, fs[k]) /\ (at = "ready" => Fresh(fs[k]))

Held(w, m, ds, fs) ==
  Handles(w, m.at, ds, fs) /\ Fine(w, m, Holders(w, ds, fs), Roots(ds, fs))

LEMMA HoldingPut ==
  ASSUME NEW H, IsFiniteSet(H), NEW a, NEW b, NEW h \in H, b[h] = Closed, a[h] # Closed,
         \A g \in H \ {h} : a[g] = b[g], NEW c
  PROVE  /\ Cardinality(Holding(b, H, c)) \in Nat
         /\ Cardinality(Holding(a, H, c)) = IF a[h].cache = c THEN Cardinality(Holding(b, H, c)) + 1
                                           ELSE Cardinality(Holding(b, H, c))
<1> DEFINE S == Holding(b, H, c)
<1>1. IsFiniteSet(S) /\ h \notin S
  <2>1. S \subseteq H
    BY DEF Holding, Opened
  <2>2. h \notin S
    BY DEF Holding, Opened
  <2> QED BY <2>1, <2>2, FS_Subset
<1>2. Holding(a, H, c) = IF a[h].cache = c THEN S \cup {h} ELSE S
  <2>1. ASSUME NEW g
        PROVE  g \in Holding(a, H, c) <=> g \in (IF a[h].cache = c THEN S \cup {h} ELSE S)
    <3>1. CASE g = h
      BY <3>1 DEF Holding, Opened
    <3>2. CASE g # h
      BY <3>2 DEF Holding, Opened
    <3> QED BY <3>1, <3>2
  <2> HIDE DEF S
  <2> QED BY <2>1
<1> HIDE DEF S
<1>3. Cardinality(S) \in Nat /\ Cardinality(S \cup {h}) = Cardinality(S) + 1
  BY <1>1, FS_CardinalityType, FS_AddElement
<1> QED BY <1>2, <1>3 DEF S

LEMMA HoldingNumber ==
  ASSUME NEW H, IsFiniteSet(H), NEW hs, NEW c
  PROVE  Cardinality(Holding(hs, H, c)) \in Nat
<1>1. Holding(hs, H, c) \subseteq H
  BY DEF Holding, Opened
<1> QED BY <1>1, FS_Subset, FS_CardinalityType

LEMMA HoldersNumbers ==
  ASSUME NEW w, NEW ds, NEW fs
  PROVE  Holders(w, ds, fs) \in [w.entries -> Nat]
<1>1. IsFiniteSet(DirHandles) /\ IsFiniteSet(FileHandles)
  BY FATAssumption
<1>2. ASSUME NEW c \in w.entries
      PROVE  Cardinality(Holding(ds, DirHandles, c)) + Cardinality(Holding(fs, FileHandles, c)) \in Nat
  <2>1. Cardinality(Holding(ds, DirHandles, c)) \in Nat /\ Cardinality(Holding(fs, FileHandles, c)) \in Nat
    BY <1>1, HoldingNumber
  <2> QED BY <2>1
<1> QED BY <1>2 DEF Holders

LEMMA HoldersDir ==
  ASSUME NEW w, WorldOK(w), NEW ds, NEW cs, NEW fs, NEW h \in DirHandles, cs[h] = Closed, ds[h] # Closed,
         \A g \in DirHandles \ {h} : ds[g] = cs[g], ds[h].cache \in w.entries \cup {None}
  PROVE  Holders(w, ds, fs) = With(Holders(w, cs, fs), ds[h].cache)
<1> DEFINE a == Holders(w, ds, fs)
           b == Holders(w, cs, fs)
           x == ds[h].cache
           k == With(b, x)
<1>1. IsFiniteSet(DirHandles) /\ IsFiniteSet(FileHandles) /\ None \notin w.entries
  BY FATAssumption, Entries
<1>2. a \in [w.entries -> Nat] /\ b \in [w.entries -> Nat]
  BY HoldersNumbers
<1>3. /\ k \in [w.entries -> Nat]
      /\ \A c \in w.entries : k[c] = IF c = x THEN b[c] + 1 ELSE b[c]
  <2> HIDE DEF b
  <2> QED BY <1>2, WithOne
<1> HIDE DEF k
<1>4. ASSUME NEW c \in w.entries PROVE a[c] = k[c]
  <2> DEFINE p == Cardinality(Holding(cs, DirHandles, c))
             q == Cardinality(Holding(ds, DirHandles, c))
             o == Cardinality(Holding(fs, FileHandles, c))
  <2>1. p \in Nat /\ q = IF x = c THEN p + 1 ELSE p
    <3>1. IsFiniteSet(DirHandles) /\ \A g \in DirHandles \ {h} : ds[g] = cs[g]
      BY <1>1
    <3>2. cs[h] = Closed /\ ds[h] # Closed
      OBVIOUS
    <3>3. p \in Nat
      BY <3>1, HoldingNumber
    <3>4. q = IF x = c THEN p + 1 ELSE p
      BY <3>1, <3>2, HoldingPut, Z3
    <3> QED BY <3>3, <3>4
  <2>2. o \in Nat
    BY <1>1, HoldingNumber
  <2>3. a[c] = q + o /\ b[c] = p + o
    BY DEF Holders
  <2> HIDE DEF p, q, o, a, b
  <2>4. k[c] = IF c = x THEN b[c] + 1 ELSE b[c]
    BY <1>3
  <2> QED BY <2>1, <2>2, <2>3, <2>4
<1> HIDE DEF a, b
<1>5. a = k
  BY <1>2, <1>3, <1>4
<1> QED BY <1>5 DEF a, b, k

LEMMA HoldersFile ==
  ASSUME NEW w, WorldOK(w), NEW fs, NEW cs, NEW ds, NEW h \in FileHandles, cs[h] = Closed, fs[h] # Closed,
         \A g \in FileHandles \ {h} : fs[g] = cs[g], fs[h].cache \in w.entries \cup {None}
  PROVE  Holders(w, ds, fs) = With(Holders(w, ds, cs), fs[h].cache)
<1> DEFINE a == Holders(w, ds, fs)
           b == Holders(w, ds, cs)
           x == fs[h].cache
           k == With(b, x)
<1>1. IsFiniteSet(DirHandles) /\ IsFiniteSet(FileHandles) /\ None \notin w.entries
  BY FATAssumption, Entries
<1>2. a \in [w.entries -> Nat] /\ b \in [w.entries -> Nat]
  BY HoldersNumbers
<1>3. /\ k \in [w.entries -> Nat]
      /\ \A c \in w.entries : k[c] = IF c = x THEN b[c] + 1 ELSE b[c]
  <2> HIDE DEF b
  <2> QED BY <1>2, WithOne
<1> HIDE DEF k
<1>4. ASSUME NEW c \in w.entries PROVE a[c] = k[c]
  <2> DEFINE p == Cardinality(Holding(cs, FileHandles, c))
             q == Cardinality(Holding(fs, FileHandles, c))
             o == Cardinality(Holding(ds, DirHandles, c))
  <2>1. p \in Nat /\ q = IF x = c THEN p + 1 ELSE p
    BY <1>1, HoldingPut
  <2>2. o \in Nat
    BY <1>1, HoldingNumber
  <2>3. a[c] = o + q /\ b[c] = o + p
    BY DEF Holders
  <2> HIDE DEF p, q, o, a, b
  <2>4. k[c] = IF c = x THEN b[c] + 1 ELSE b[c]
    BY <1>3
  <2> QED BY <2>1, <2>2, <2>3, <2>4
<1> HIDE DEF a, b
<1>5. a = k
  BY <1>2, <1>3, <1>4
<1> QED BY <1>5 DEF a, b, k

\* An open handle is none that is closed.
LEMMA NotClosed ==
  ASSUME NEW w, WorldOK(w)
  PROVE  /\ \A d : IsDir(w, d) => d # Closed
         /\ \A f : IsFile(w, f) => f # Closed
<1>1. Closed.root = None /\ None \notin w.entries
  BY Entries DEF Closed
<1> QED BY <1>1 DEF IsDir, IsFile

LEMMA DirTaken ==
  ASSUME NEW w, NEW m, NEW ds, NEW fs, Held(w, m, ds, fs), NEW h \in DirHandles, ds[h] # Closed,
         NEW cs, cs[h] = Closed, \A g \in DirHandles \ {h} : cs[g] = ds[g]
  PROVE  DirFine(w, m, ds[h], Holders(w, cs, fs), Roots(ds, fs))
<1> DEFINE n == Holders(w, cs, fs)
           v == Roots(ds, fs)
<1>1. Handles(w, m.at, ds, fs) /\ Fine(w, m, Holders(w, ds, fs), v)
  BY DEF Held
<1>2. IsDir(w, ds[h]) /\ ds[h].root \in v
  BY <1>1 DEF Handles, Opened, Roots
<1>3. WorldOK(w) /\ ds[h].cache \in w.entries \cup {None}
  BY <1>1, <1>2, Typing DEF IsDir
<1>4. Holders(w, ds, fs) = With(n, ds[h].cache) /\ n \in [w.entries -> Nat]
  <2>1. n \in [w.entries -> Nat]
    BY HoldersNumbers
  <2>2. \A g \in DirHandles \ {h} : ds[g] = cs[g]
    OBVIOUS
  <2> QED BY <1>3, <2>1, <2>2, HoldersDir, Z3
<1> HIDE DEF n, v
<1>5. DirFine(w, m, ds[h], n, v)
  BY <1>1, <1>2, <1>4 DEF DirFine
<1> QED BY <1>5 DEF n, v

LEMMA DirPut ==
  ASSUME NEW w, NEW m, NEW ds, NEW fs, Handles(w, "ready", ds, fs), NEW h \in DirHandles, NEW x, NEW v,
         DirFine(w, m, x, Holders(w, [ds EXCEPT ![h] = Closed], fs), v), Roots(ds, fs) \subseteq v
  PROVE  Held(w, m, [ds EXCEPT ![h] = x], fs)
<1> DEFINE cs == [ds EXCEPT ![h] = Closed]
           es == [ds EXCEPT ![h] = x]
           n == Holders(w, cs, fs)
<1>1. /\ ds = [g \in DirHandles |-> ds[g]] /\ fs = [k \in FileHandles |-> fs[k]]
      /\ \A g \in Opened(ds, DirHandles) : IsDir(w, ds[g])
      /\ \A k \in Opened(fs, FileHandles) : IsFile(w, fs[k]) /\ Fresh(fs[k])
  BY DEF Handles
<1>2. IsDir(w, x) /\ x.root \in v /\ n \in [w.entries -> Nat] /\ Fine(w, m, With(n, x.cache), v)
  BY DEF DirFine
<1>3. WorldOK(w) /\ x.cache \in w.entries \cup {None} /\ x # Closed
  BY <1>2, Typing, NotClosed DEF IsDir
<1>4. /\ es = [g \in DirHandles |-> es[g]] /\ es[h] = x /\ cs[h] = Closed
      /\ \A g \in DirHandles : es[g] = IF g = h THEN x ELSE ds[g]
      /\ \A g \in DirHandles \ {h} : es[g] = cs[g]
  BY <1>1
<1> HIDE DEF n, es, cs
<1>5. Holders(w, es, fs) = With(n, x.cache)
  BY <1>3, <1>4, HoldersDir, Z3 DEF n
<1>6. \A g \in Opened(es, DirHandles) : IsDir(w, es[g])
  BY <1>1, <1>2, <1>4 DEF Opened
<1>7. Handles(w, m.at, es, fs)
  BY <1>1, <1>4, <1>6 DEF Handles
<1>8. Roots(es, fs) \subseteq v
  <2>1. ASSUME NEW g \in Opened(es, DirHandles) PROVE es[g].root \in v
    <3>1. CASE g = h
      BY <1>2, <1>4, <3>1
    <3>2. CASE g # h
      <4>1. g \in Opened(ds, DirHandles) /\ es[g] = ds[g]
        BY <1>4, <2>1, <3>2 DEF Opened
      <4> QED BY <4>1 DEF Roots
    <3> QED BY <3>1, <3>2
  <2> QED BY <2>1 DEF Roots
<1>9. Fine(w, m, With(n, x.cache), Roots(es, fs))
  <2>1. With(n, x.cache) \in [w.entries -> Nat]
    BY <1>2, <1>3, WithOne
  <2>2. \A b \in w.entries : With(n, x.cache)[b] <= With(n, x.cache)[b]
    <3>1. \A b \in w.entries : With(n, x.cache)[b] \in Nat
      BY <2>1
    <3> QED BY <3>1
  <2> QED BY <1>2, <1>8, <2>1, <2>2, Fewer
<1>10. Held(w, m, es, fs)
  BY <1>5, <1>7, <1>9 DEF Held
<1> QED BY <1>10 DEF es

LEMMA DirGone ==
  ASSUME NEW w, NEW m, NEW ds, NEW fs, Handles(w, "ready", ds, fs), NEW h \in DirHandles,
         Fine(w, m, Holders(w, [ds EXCEPT ![h] = Closed], fs), Roots(ds, fs))
  PROVE  Held(w, m, [ds EXCEPT ![h] = Closed], fs)
<1> DEFINE es == [ds EXCEPT ![h] = Closed]
           n == Holders(w, es, fs)
           v == Roots(ds, fs)
<1>1. /\ ds = [g \in DirHandles |-> ds[g]] /\ fs = [k \in FileHandles |-> fs[k]]
      /\ \A g \in Opened(ds, DirHandles) : IsDir(w, ds[g])
      /\ \A k \in Opened(fs, FileHandles) : IsFile(w, fs[k]) /\ Fresh(fs[k])
  BY DEF Handles
<1>2. /\ es = [g \in DirHandles |-> es[g]] /\ es[h] = Closed
      /\ \A g \in DirHandles \ {h} : es[g] = ds[g]
  BY <1>1
<1>3. Fine(w, m, n, v)
  OBVIOUS
<1> HIDE DEF es, n
<1>4. \A g \in Opened(es, DirHandles) : g \in Opened(ds, DirHandles) /\ es[g] = ds[g]
  BY <1>2 DEF Opened
<1>5. Handles(w, m.at, es, fs)
  BY <1>1, <1>2, <1>4 DEF Handles
<1>6. Roots(es, fs) \subseteq v
  BY <1>4 DEF Roots
<1> HIDE DEF v
<1>7. n \in [w.entries -> Nat]
  BY HoldersNumbers DEF n
<1>8. \A b \in w.entries : n[b] <= n[b]
  <2>1. \A b \in w.entries : n[b] \in Nat
    BY <1>7
  <2> QED BY <2>1
<1>9. Fine(w, m, n, Roots(es, fs))
  BY <1>3, <1>6, <1>7, <1>8, Fewer
<1>10. Held(w, m, es, fs)
  BY <1>5, <1>9 DEF Held, n
<1> QED BY <1>10 DEF es

LEMMA FileTaken ==
  ASSUME NEW w, NEW m, NEW ds, NEW fs, Held(w, m, ds, fs), NEW h \in FileHandles, fs[h] # Closed,
         NEW cs, cs[h] = Closed, \A g \in FileHandles \ {h} : cs[g] = fs[g]
  PROVE  FileFine(w, m, fs[h], Holders(w, ds, cs), Roots(ds, fs))
<1> DEFINE n == Holders(w, ds, cs)
           v == Roots(ds, fs)
<1>1. Handles(w, m.at, ds, fs) /\ Fine(w, m, Holders(w, ds, fs), v)
  BY DEF Held
<1>2. IsFile(w, fs[h]) /\ {fs[h].root, fs[h].parent} \subseteq v /\ (m.at = "ready" => Fresh(fs[h]))
  BY <1>1 DEF Handles, Opened, Roots
<1>3. WorldOK(w) /\ fs[h].cache \in w.entries \cup {None}
  BY <1>1, <1>2, Typing DEF IsFile
<1>4. Holders(w, ds, fs) = With(n, fs[h].cache) /\ n \in [w.entries -> Nat]
  <2>1. n \in [w.entries -> Nat]
    BY HoldersNumbers
  <2>2. \A g \in FileHandles \ {h} : fs[g] = cs[g]
    OBVIOUS
  <2> QED BY <1>3, <2>1, <2>2, HoldersFile, Z3
<1> HIDE DEF n, v
<1>5. FileFine(w, m, fs[h], n, v)
  BY <1>1, <1>2, <1>4 DEF FileFine
<1> QED BY <1>5 DEF n, v

LEMMA FilePut ==
  ASSUME NEW w, NEW m, NEW ds, NEW fs, Handles(w, "ready", ds, fs), NEW h \in FileHandles, NEW x, NEW v,
         FileFine(w, m, x, Holders(w, ds, [fs EXCEPT ![h] = Closed]), v), Roots(ds, fs) \subseteq v
  PROVE  Held(w, m, ds, [fs EXCEPT ![h] = x])
<1> DEFINE cs == [fs EXCEPT ![h] = Closed]
           es == [fs EXCEPT ![h] = x]
           n == Holders(w, ds, cs)
<1>1. /\ ds = [g \in DirHandles |-> ds[g]] /\ fs = [k \in FileHandles |-> fs[k]]
      /\ \A g \in Opened(ds, DirHandles) : IsDir(w, ds[g])
      /\ \A k \in Opened(fs, FileHandles) : IsFile(w, fs[k]) /\ Fresh(fs[k])
  BY DEF Handles
<1>2. /\ IsFile(w, x) /\ {x.root, x.parent} \subseteq v /\ n \in [w.entries -> Nat]
      /\ Fine(w, m, With(n, x.cache), v) /\ (m.at = "ready" => Fresh(x))
  BY DEF FileFine
<1>3. WorldOK(w) /\ x.cache \in w.entries \cup {None} /\ x # Closed
  BY <1>2, Typing, NotClosed DEF IsFile
<1>4. /\ es = [g \in FileHandles |-> es[g]] /\ es[h] = x /\ cs[h] = Closed
      /\ \A g \in FileHandles : es[g] = IF g = h THEN x ELSE fs[g]
      /\ \A g \in FileHandles \ {h} : es[g] = cs[g]
  BY <1>1
<1> HIDE DEF n, es, cs
<1>5. Holders(w, ds, es) = With(n, x.cache)
  BY <1>3, <1>4, HoldersFile DEF n
<1>6. \A g \in Opened(es, FileHandles) : IsFile(w, es[g]) /\ (m.at = "ready" => Fresh(es[g]))
  BY <1>1, <1>2, <1>4 DEF Opened
<1>7. Handles(w, m.at, ds, es)
  BY <1>1, <1>4, <1>6 DEF Handles
<1>8. Roots(ds, es) \subseteq v
  <2>1. ASSUME NEW g \in Opened(es, FileHandles) PROVE es[g].root \in v /\ es[g].parent \in v
    <3>1. CASE g = h
      BY <1>2, <1>4, <3>1
    <3>2. CASE g # h
      <4>1. g \in Opened(fs, FileHandles) /\ es[g] = fs[g]
        BY <1>4, <2>1, <3>2 DEF Opened
      <4> QED BY <4>1 DEF Roots
    <3> QED BY <3>1, <3>2
  <2> QED BY <2>1 DEF Roots
<1>9. Fine(w, m, With(n, x.cache), Roots(ds, es))
  <2>1. With(n, x.cache) \in [w.entries -> Nat]
    BY <1>2, <1>3, WithOne
  <2>2. \A b \in w.entries : With(n, x.cache)[b] <= With(n, x.cache)[b]
    <3>1. \A b \in w.entries : With(n, x.cache)[b] \in Nat
      BY <2>1
    <3> QED BY <3>1
  <2> QED BY <1>2, <1>8, <2>1, <2>2, Fewer
<1>10. Held(w, m, ds, es)
  BY <1>5, <1>7, <1>9 DEF Held
<1> QED BY <1>10 DEF es

LEMMA FileGone ==
  ASSUME NEW w, NEW m, NEW ds, NEW fs, Handles(w, "ready", ds, fs), NEW h \in FileHandles,
         Fine(w, m, Holders(w, ds, [fs EXCEPT ![h] = Closed]), Roots(ds, fs))
  PROVE  Held(w, m, ds, [fs EXCEPT ![h] = Closed])
<1> DEFINE es == [fs EXCEPT ![h] = Closed]
           n == Holders(w, ds, es)
           v == Roots(ds, fs)
<1>1. /\ ds = [g \in DirHandles |-> ds[g]] /\ fs = [k \in FileHandles |-> fs[k]]
      /\ \A g \in Opened(ds, DirHandles) : IsDir(w, ds[g])
      /\ \A k \in Opened(fs, FileHandles) : IsFile(w, fs[k]) /\ Fresh(fs[k])
  BY DEF Handles
<1>2. /\ es = [g \in FileHandles |-> es[g]] /\ es[h] = Closed
      /\ \A g \in FileHandles \ {h} : es[g] = fs[g]
  BY <1>1
<1>3. Fine(w, m, n, v)
  OBVIOUS
<1> HIDE DEF es, n
<1>4. \A g \in Opened(es, FileHandles) : g \in Opened(fs, FileHandles) /\ es[g] = fs[g]
  BY <1>2 DEF Opened
<1>5. Handles(w, m.at, ds, es)
  BY <1>1, <1>2, <1>4 DEF Handles
<1>6. Roots(ds, es) \subseteq v
  BY <1>4 DEF Roots
<1> HIDE DEF v
<1>7. n \in [w.entries -> Nat]
  BY HoldersNumbers DEF n
<1>8. \A b \in w.entries : n[b] <= n[b]
  <2>1. \A b \in w.entries : n[b] \in Nat
    BY <1>7
  <2> QED BY <2>1
<1>9. Fine(w, m, n, Roots(ds, es))
  BY <1>3, <1>6, <1>7, <1>8, Fewer
<1>10. Held(w, m, ds, es)
  BY <1>5, <1>9 DEF Held, n
<1> QED BY <1>10 DEF es

-----------------------------------------------------------------------------
(* The invariant.                                                            *)

World == [entries |-> DOMAIN fat, disk |-> disk, dangling |-> dangling]

\* The disk e is the one that the writes that wait lead to.
FATInv ==
  \E e : Held(World, Machine(fat, cacheObjects, e, pending, status, unsaved), dirs, files)

\* A disk that was just mounted.
Nobody(w) == [c \in w.entries |-> 0]
Fresher(w) == Machine(w.disk.fats[1], [c \in w.entries |-> Absent], w.disk, <<>>, "ready", {})

LEMMA MountedFine ==
  ASSUME NEW w, WorldOK(w), DiskOK(w, w.disk), Links(w, w.disk.fats[1])
  PROVE  /\ Fine(w, Fresher(w), Nobody(w), {0})
         /\ Cached([c \in w.entries |-> Absent]) = {}
<1> DEFINE t == w.disk.fats[1]
           cache == [c \in w.entries |-> Absent]
           m == Machine(t, cache, w.disk, <<>>, "ready", {})
           n == Nobody(w)
<1>1. /\ IsMachine(m) /\ m.fat = t /\ m.cache = cache /\ m.disk = w.disk /\ m.log = <<>>
      /\ m.at = "ready" /\ m.unsaved = {}
  BY MachineFields
<1>2. m = Fresher(w)
  BY DEF Fresher
<1>3. n \in [w.entries -> Nat] /\ \A c \in w.entries : n[c] = 0
  BY DEF Nobody
<1>4. \A c \in w.entries : cache[c] = Absent
  OBVIOUS
<1>5. Cached(cache) = {}
  BY <1>4 DEF Cached, Absent
<1>6. CacheOK(w, cache)
  <2>1. /\ Absent = Object(Absent.refs, Absent.dirty, Absent.nth, Absent.cells)
        /\ Absent.refs = 0 /\ Absent.nth = 0 /\ Absent.dirty \in BOOLEAN
    BY DEF Absent, Object
  <2>2. \A c \in w.entries : ObjectOK(w, c, cache[c])
    BY <1>4, <2>1 DEF ObjectOK
  <2>3. Listed(cache)
    <3>1. Cardinality(Cached(cache)) = 0
      BY <1>5, FS_EmptySet
    <3> HIDE DEF cache
    <3> QED BY <1>5, <3>1 DEF Listed
  <2> QED BY <2>2, <2>3 DEF CacheOK
<1> HIDE DEF m, n, cache
<1>7. Taken(w, t, 0) /\ 0 \in w.entries
  BY Entries DEF DiskOK, Taken
<1>8. t \in Tables(w) /\ Leads(w, <<>>, w.disk)
  <2>1. 1 \in 1..Copies
    BY Constant
  <2> QED BY <2>1, LeadsStill DEF DiskOK
<1> HIDE DEF t
<1>9. Fits(w, m)
  BY <1>1, <1>6, <1>8 DEF Fits
<1>10. Counted(w, cache, n)
  BY <1>3, <1>4 DEF Counted, Absent
<1>11. AllKept(w, t, cache, w.disk, {})
  BY <1>5 DEF AllKept, t
<1>12. Fine(w, m, n, {0})
  BY <1>1, <1>7, <1>9, <1>10, <1>11 DEF Fine, Known, t
<1> QED BY <1>2, <1>5, <1>12 DEF cache, n

LEMMA Mounted ==
  ASSUME NEW w, WorldOK(w), DiskOK(w, w.disk), Links(w, w.disk.fats[1])
  PROVE  Held(w, Fresher(w), [h \in DirHandles |-> Closed], [k \in FileHandles |-> Closed])
<1> DEFINE ds == [h \in DirHandles |-> Closed]
           fs == [k \in FileHandles |-> Closed]
<1>1. Opened(ds, DirHandles) = {} /\ Opened(fs, FileHandles) = {}
  BY DEF Opened
<1>2. Fresher(w).at = "ready"
  BY MachineFields DEF Fresher
<1>3. Handles(w, "ready", ds, fs)
  BY <1>1 DEF Handles
<1>4. Roots(ds, fs) = {0}
  BY <1>1 DEF Roots
<1>5. Holders(w, ds, fs) = Nobody(w)
  <2>1. \A c : Holding(ds, DirHandles, c) = {} /\ Holding(fs, FileHandles, c) = {}
    BY <1>1 DEF Holding
  <2>2. Cardinality({}) = 0
    BY FS_EmptySet
  <2>3. Holders(w, ds, fs) = [c \in w.entries |-> 0 + 0]
    BY <2>1, <2>2 DEF Holders
  <2> QED BY <2>3 DEF Nobody
<1>6. Fine(w, Fresher(w), Nobody(w), {0})
  BY MountedFine
<1> HIDE DEF ds, fs
<1>7. Held(w, Fresher(w), ds, fs)
  BY <1>2, <1>3, <1>4, <1>5, <1>6 DEF Held
<1> QED BY <1>7 DEF ds, fs

\* The disk does one of the writes.
LEMMA FineElsewhere ==
  ASSUME NEW w, NEW m, NEW n, NEW v, Fine(w, m, n, v),
         NEW x, x.entries = w.entries, x.dangling = w.dangling, NEW log, Leads(x, log, m.disk)
  PROVE  Fine(x, Machine(m.fat, m.cache, m.disk, log, m.at, m.unsaved), n, v)
<1> DEFINE r == Machine(m.fat, m.cache, m.disk, log, m.at, m.unsaved)
<1>1. /\ IsMachine(r) /\ r.fat = m.fat /\ r.cache = m.cache /\ r.disk = m.disk /\ r.log = log
      /\ r.at = m.at /\ r.unsaved = m.unsaved
  BY MachineFields
<1> HIDE DEF r
<1>2. Fits(w, m) /\ Counted(w, m.cache, n) /\ v \subseteq w.entries
  BY DEF Fine
<1>3. /\ WorldOK(x) /\ Tables(x) = Tables(w)
      /\ \A t, c : Taken(x, t, c) <=> Taken(w, t, c)
      /\ \A c, cells : CellsOK(x, c, cells) <=> CellsOK(w, c, cells)
  BY <1>2 DEF Fits, WorldOK, Tables, Taken, CellsOK
<1>4. \A t, c, cells : CellsTaken(x, t, c, cells) <=> CellsTaken(w, t, c, cells)
  BY <1>3 DEF CellsTaken
<1>5. CacheOK(x, m.cache)
  <2>1. \A c, o : ObjectOK(w, c, o) => ObjectOK(x, c, o)
    BY <1>3 DEF ObjectOK
  <2>2. CacheOK(w, m.cache)
    BY <1>2 DEF Fits
  <2> QED BY <2>1, <2>2 DEF CacheOK
<1>6. Fits(x, r)
  BY <1>1, <1>2, <1>3, <1>5 DEF Fits
<1>7. Counted(x, m.cache, n)
  BY <1>2 DEF Counted
<1>8. ASSUME m.at = "ready"
      PROVE  AllKept(x, m.fat, m.cache, m.disk, m.unsaved) /\ Links(x, m.fat) /\ Known(x, m.fat, v)
  <2>1. AllKept(w, m.fat, m.cache, m.disk, m.unsaved) /\ Links(w, m.fat) /\ Known(w, m.fat, v)
    BY <1>8 DEF Fine
  <2>2. \A c \in Cached(m.cache) : Kept(x, m.fat, m.disk, m.unsaved, c, m.cache[c])
    <3>1. ASSUME NEW c \in Cached(m.cache) PROVE Kept(x, m.fat, m.disk, m.unsaved, c, m.cache[c])
      <4>1. Kept(w, m.fat, m.disk, m.unsaved, c, m.cache[c])
        BY <2>1 DEF AllKept
      <4> QED BY <1>3, <1>4, <4>1 DEF Kept
    <3> QED BY <3>1
  <2> QED BY <1>3, <2>1, <2>2 DEF AllKept, Links, Known
<1>9. Fine(x, r, n, v)
  BY <1>1, <1>2, <1>6, <1>7, <1>8 DEF Fine
<1> QED BY <1>9 DEF r

LEMMA HeldElsewhere ==
  ASSUME NEW w, NEW m, NEW ds, NEW fs, Held(w, m, ds, fs),
         NEW x, x.entries = w.entries, x.dangling = w.dangling, NEW log, Leads(x, log, m.disk)
  PROVE  Held(x, Machine(m.fat, m.cache, m.disk, log, m.at, m.unsaved), ds, fs)
<1> DEFINE r == Machine(m.fat, m.cache, m.disk, log, m.at, m.unsaved)
           n == Holders(w, ds, fs)
           v == Roots(ds, fs)
<1>1. Handles(w, m.at, ds, fs) /\ Fine(w, m, n, v) /\ r.at = m.at
  BY MachineFields DEF Held
<1> HIDE DEF r
<1>2. Holders(x, ds, fs) = n
  BY DEF Holders
<1> HIDE DEF n, v
<1>3. Fine(x, r, n, v)
  BY <1>1, FineElsewhere DEF r
<1>4. Handles(x, r.at, ds, fs)
  <2>1. \A d : IsDir(w, d) => IsDir(x, d)
    BY DEF IsDir
  <2>2. \A f : IsFile(w, f) => IsFile(x, f)
    BY DEF IsFile
  <2> QED BY <1>1, <2>1, <2>2 DEF Handles
<1>5. Held(x, r, ds, fs)
  BY <1>2, <1>3, <1>4 DEF Held, v
<1> QED BY <1>5 DEF r

\* A handler begins with the disk as it is, and ends with the machine it made.
LEMMA Begun ==
  ASSUME NEW e, NEW n, NEW v, Fine(World, Machine(fat, cacheObjects, e, pending, status, unsaved), n, v), Ready
  PROVE  Now = Machine(fat, cacheObjects, e, pending, status, unsaved) /\ Now.at = "ready"
<1> DEFINE m == Machine(fat, cacheObjects, e, pending, status, unsaved)
<1>1. m.log = pending /\ m.disk = e /\ m.at = status
  BY MachineFields
<1>2. World.disk = disk
  BY DEF World
<1> HIDE DEF m
<1>3. Leads(World, <<>>, e)
  BY <1>1, Typing DEF Ready, m
<1>4. e = disk
  BY <1>2, <1>3, LeadsStill
<1>5. Now = m
  BY <1>4 DEF Now, Machine, Ready, m
<1> QED BY <1>1, <1>5 DEF Ready, m

LEMMA Begin ==
  ASSUME FATInv, Ready
  PROVE  Held(World, Now, dirs, files) /\ Now.at = "ready" /\ Handles(World, "ready", dirs, files)
<1>1. PICK e : Held(World, Machine(fat, cacheObjects, e, pending, status, unsaved), dirs, files)
  BY DEF FATInv
<1>2. Now = Machine(fat, cacheObjects, e, pending, status, unsaved) /\ Now.at = "ready"
  BY <1>1, Begun DEF Held
<1> QED BY <1>1, <1>2 DEF Held

LEMMA Committed ==
  ASSUME NEW m, IsMachine(m), m.fat \in Tables(World), Commit(m)
  PROVE  /\ World' = World
         /\ Machine(fat', cacheObjects', m.disk, pending', status', unsaved') = m
<1>1. /\ fat' = m.fat /\ cacheObjects' = m.cache /\ pending' = m.log /\ status' = m.at
      /\ unsaved' = m.unsaved /\ disk' = disk /\ dangling' = dangling
  BY DEF Commit
<1>2. DOMAIN fat' = DOMAIN fat
  BY <1>1 DEF Tables, World
<1>3. World' = World
  BY <1>1, <1>2 DEF World
<1> QED BY <1>1, <1>3 DEF IsMachine

LEMMA Done ==
  ASSUME NEW m, NEW ds, NEW fs, Held(World, m, ds, fs), Commit(m), dirs' = ds, files' = fs
  PROVE  FATInv'
<1>1. IsMachine(m) /\ m.fat \in Tables(World)
  BY Typing DEF Held
<1>2. World' = World /\ Machine(fat', cacheObjects', m.disk, pending', status', unsaved') = m
  BY <1>1, Committed
<1>3. Held(World', Machine(fat', cacheObjects', m.disk, pending', status', unsaved'), dirs', files')
  BY <1>2
<1> QED BY <1>3 DEF FATInv

\* An operation on a directory whose handle was taken.
LEMMA DirStep ==
  ASSUME Handles(World, "ready", dirs, files), NEW h \in DirHandles, NEW r, NEW v,
         DirFine(World, r.m, r.d, Holders(World, [dirs EXCEPT ![h] = Closed], files), v),
         Roots(dirs, files) \subseteq v, OnDir(h, r)
  PROVE  FATInv'
<1>1. Held(World, r.m, [dirs EXCEPT ![h] = r.d], files)
  BY DirPut
<1> QED BY <1>1, Done DEF OnDir

LEMMA FileStep ==
  ASSUME Handles(World, "ready", dirs, files), NEW h \in FileHandles, NEW r, NEW v,
         FileFine(World, r.m, r.f, Holders(World, dirs, [files EXCEPT ![h] = Closed]), v),
         Roots(dirs, files) \subseteq v, OnFile(h, r)
  PROVE  FATInv'
<1>1. Held(World, r.m, dirs, [files EXCEPT ![h] = r.f])
  BY FilePut
<1> QED BY <1>1, Done DEF OnFile

\* A handle that is open, as the handler takes it.
LEMMA DirBegins ==
  ASSUME FATInv, Ready, NEW h \in DirHandles, OpenDir(h)
  PROVE  /\ DirFine(World, Now, dirs[h], Holders(World, [dirs EXCEPT ![h] = Closed], files), Roots(dirs, files))
         /\ Handles(World, "ready", dirs, files)
<1> DEFINE cs == [dirs EXCEPT ![h] = Closed]
<1>1. Held(World, Now, dirs, files) /\ Handles(World, "ready", dirs, files)
  BY Begin
<1>2. dirs = [g \in DirHandles |-> dirs[g]]
  BY <1>1 DEF Handles
<1>3. cs[h] = Closed /\ \A g \in DirHandles \ {h} : cs[g] = dirs[g]
  BY <1>2
<1>4. dirs[h] # Closed
  BY DEF OpenDir
<1> HIDE DEF cs
<1>5. DirFine(World, Now, dirs[h], Holders(World, cs, files), Roots(dirs, files))
  BY <1>1, <1>3, <1>4, DirTaken
<1> QED BY <1>1, <1>5 DEF cs

LEMMA FileBegins ==
  ASSUME FATInv, Ready, NEW h \in FileHandles, OpenFile(h)
  PROVE  /\ FileFine(World, Now, files[h], Holders(World, dirs, [files EXCEPT ![h] = Closed]), Roots(dirs, files))
         /\ Handles(World, "ready", dirs, files) /\ Now.at = "ready" /\ IsFile(World, files[h]) /\ Fresh(files[h])
<1> DEFINE cs == [files EXCEPT ![h] = Closed]
<1>1. Held(World, Now, dirs, files) /\ Handles(World, "ready", dirs, files) /\ Now.at = "ready"
  BY Begin
<1>2. files = [g \in FileHandles |-> files[g]]
  BY <1>1 DEF Handles
<1>3. cs[h] = Closed /\ \A g \in FileHandles \ {h} : cs[g] = files[g]
  BY <1>2
<1>4. files[h] # Closed
  BY DEF OpenFile
<1> HIDE DEF cs
<1>5. FileFine(World, Now, files[h], Holders(World, dirs, cs), Roots(dirs, files))
  BY <1>1, <1>3, <1>4, FileTaken
<1>6. IsFile(World, files[h]) /\ Fresh(files[h])
  BY <1>1, <1>4 DEF Handles, Opened
<1> QED BY <1>1, <1>5, <1>6 DEF cs

-----------------------------------------------------------------------------
(* The operations on directories.                                            *)

LEMMA OpenRootKeeps ==
  ASSUME FATInv, NEW h \in DirHandles, OpenRoot(h)
  PROVE  FATInv'
<1> DEFINE cs == [dirs EXCEPT ![h] = Closed]
           d == DirectoryOpenRoot
           r == [m |-> Now, d |-> d]
           n == Holders(World, cs, files)
           v == Roots(dirs, files)
<1>1. Ready /\ dirs[h] = Closed /\ OnDir(h, r)
  BY DEF OpenRoot, OpenDir
<1>2. Held(World, Now, dirs, files) /\ Handles(World, "ready", dirs, files)
  BY <1>1, Begin
<1>3. cs = dirs
  BY <1>1, <1>2 DEF Handles
<1>4. Fine(World, Now, n, v)
  BY <1>2, <1>3 DEF Held
<1>5. d.cache = None /\ d.root = 0 /\ d = [root |-> d.root, offset |-> d.offset, cache |-> d.cache]
  BY DEF DirectoryOpenRoot
<1>6. 0 \in v
  BY DEF Roots
<1>7. r.m = Now /\ r.d = d
  OBVIOUS
<1> HIDE DEF d, n, v, r
<1>8. 0 \in World.entries /\ n \in [World.entries -> Nat] /\ With(n, None) = n
  BY <1>4, Typing, Entries DEF With
<1>9. DirFine(World, Now, d, n, v)
  BY <1>4, <1>5, <1>6, <1>8 DEF DirFine, IsDir
<1> QED BY <1>1, <1>2, <1>7, <1>9, DirStep DEF n, v

LEMMA CloseDirKeeps ==
  ASSUME FATInv, NEW h \in DirHandles, CloseDir(h)
  PROVE  FATInv'
<1> DEFINE cs == [dirs EXCEPT ![h] = Closed]
           m == FreeCache(Now, dirs[h].cache)
           n == Holders(World, cs, files)
           v == Roots(dirs, files)
<1>1. Ready /\ OpenDir(h) /\ Commit(m) /\ dirs' = cs /\ files' = files
  BY DEF CloseDir, OnDir
<1>2. DirFine(World, Now, dirs[h], n, v) /\ Handles(World, "ready", dirs, files)
  BY <1>1, DirBegins
<1>3. Fine(World, m, n, v)
  BY <1>2, FreeCacheFine DEF DirFine, IsDir
<1> HIDE DEF m
<1>4. Held(World, m, cs, files)
  BY <1>2, <1>3, DirGone
<1> QED BY <1>1, <1>4, Done

LEMMA ReadKeeps ==
  ASSUME FATInv, NEW h \in DirHandles, Read(h)
  PROVE  FATInv'
<1> DEFINE r == DirectoryRead(Now, dirs[h])
           n == Holders(World, [dirs EXCEPT ![h] = Closed], files)
           v == Roots(dirs, files)
<1>1. Ready /\ OpenDir(h) /\ OnDir(h, r)
  BY DEF Read
<1>2. DirFine(World, Now, dirs[h], n, v) /\ Handles(World, "ready", dirs, files)
  BY <1>1, DirBegins
<1> HIDE DEF n, v
<1>3. DirFine(World, r.m, r.d, n, v)
  BY <1>2, ReadOnFine DEF DirectoryRead, AtCell
<1> HIDE DEF r
<1> QED BY <1>1, <1>2, <1>3, DirStep DEF n, v

LEMMA RewindKeeps ==
  ASSUME FATInv, NEW h \in DirHandles, Rewind(h)
  PROVE  FATInv'
<1> DEFINE r == DirectoryRewind(Now, dirs[h])
           n == Holders(World, [dirs EXCEPT ![h] = Closed], files)
           v == Roots(dirs, files)
<1>1. Ready /\ OpenDir(h) /\ OnDir(h, r)
  BY DEF Rewind
<1>2. DirFine(World, Now, dirs[h], n, v) /\ Handles(World, "ready", dirs, files)
  BY <1>1, DirBegins
<1> HIDE DEF n, v
<1>3. DirFine(World, r.m, r.d, n, v)
  BY <1>2, DirectoryRewindFine
<1> HIDE DEF r
<1> QED BY <1>1, <1>2, <1>3, DirStep DEF n, v

LEMMA FollowKeeps ==
  ASSUME FATInv, NEW h \in DirHandles, Follow(h)
  PROVE  FATInv'
<1> DEFINE r == DirectoryFollow(Now, dirs[h])
           n == Holders(World, [dirs EXCEPT ![h] = Closed], files)
           v == Roots(dirs, files)
<1>1. Ready /\ OpenDir(h) /\ dirs[h].cache # None /\ OnDir(h, r)
  BY DEF Follow, AtEntry
<1>2. DirFine(World, Now, dirs[h], n, v) /\ Handles(World, "ready", dirs, files)
  BY <1>1, DirBegins
<1> HIDE DEF n, v
<1>3. DirFine(World, r.m, r.d, n, v \cup {r.d.root})
  BY <1>1, <1>2, DirectoryFollowFine
<1> HIDE DEF r
<1>4. v \subseteq v \cup {r.d.root}
  OBVIOUS
<1> QED BY <1>1, <1>2, <1>3, <1>4, DirStep DEF n, v

LEMMA CreateKeeps ==
  ASSUME FATInv, NEW h \in DirHandles, NEW name \in Names, Create(h, name)
  PROVE  FATInv'
<1> DEFINE n == Holders(World, [dirs EXCEPT ![h] = Closed], files)
           v == Roots(dirs, files)
<1>1. Ready /\ OpenDir(h)
  BY DEF Create
<1>2. DirFine(World, Now, dirs[h], n, v) /\ Handles(World, "ready", dirs, files)
  BY <1>1, DirBegins
<1>3. 0 \in v
  BY DEF Roots
<1>4. v \subseteq v
  OBVIOUS
<1> HIDE DEF n, v
<1>5. CASE OnDir(h, DirectoryCreate(Now, dirs[h], name))
  <2> DEFINE r == DirectoryCreate(Now, dirs[h], name)
  <2>1. DirFine(World, r.m, r.d, n, v)
    BY <1>2, DirectoryCreateFine
  <2>2. OnDir(h, r)
    BY <1>5
  <2> HIDE DEF r
  <2> QED BY <1>2, <1>4, <2>1, <2>2, DirStep DEF n, v
<1>6. CASE OnDir(h, FileCreate(Now, dirs[h], name))
  <2> DEFINE r == FileCreate(Now, dirs[h], name)
  <2>1. DirFine(World, r.m, r.d, n, v)
    BY <1>2, <1>3, FileCreateFine DEF AtCell
  <2>2. OnDir(h, r)
    BY <1>6
  <2> HIDE DEF r
  <2> QED BY <1>2, <1>4, <2>1, <2>2, DirStep DEF n, v
<1> QED BY <1>5, <1>6 DEF Create

-----------------------------------------------------------------------------
(* The operations on files.                                                  *)

LEMMA OpenKeeps ==
  ASSUME FATInv, NEW h \in DirHandles, NEW k \in FileHandles, Open(h, k)
  PROVE  FATInv'
<1> DEFINE cs == [dirs EXCEPT ![h] = Closed]
           gs == [files EXCEPT ![k] = Closed]
           v == Roots(dirs, files)
           n == Holders(World, cs, files)
<1>1. /\ Ready /\ OpenDir(h) /\ dirs[h].cache # None /\ files[k] = Closed
      /\ Commit(Now) /\ dirs' = dirs
  BY DEF Open, AtEntry, OpenFile
<1>2. PICK update \in BOOLEAN : files' = [files EXCEPT ![k] = FileOpen(Now, dirs[h], update)]
  BY DEF Open
<1> DEFINE f == FileOpen(Now, dirs[h], update)
<1>3. DirFine(World, Now, dirs[h], n, v) /\ Handles(World, "ready", dirs, files)
  BY <1>1, DirBegins
<1>4. FileFine(World, Now, f, With(n, dirs[h].cache), v \cup {f.root, f.parent})
  <2> HIDE DEF n, v
  <2> QED BY <1>1, <1>3, FileOpenFine
<1>5. With(n, dirs[h].cache) = Holders(World, dirs, gs)
  <2>1. gs = files
    BY <1>1, <1>3 DEF Handles
  <2>2. dirs = [g \in DirHandles |-> dirs[g]]
    BY <1>3 DEF Handles
  <2>3. cs[h] = Closed /\ \A g \in DirHandles \ {h} : dirs[g] = cs[g]
    BY <2>2
  <2>4. WorldOK(World) /\ dirs[h].cache \in World.entries \cup {None}
    BY <1>3, Typing DEF DirFine, IsDir
  <2>5. dirs[h] # Closed
    BY <1>1 DEF OpenDir
  <2> HIDE DEF cs, gs
  <2> QED BY <2>1, <2>3, <2>4, <2>5, HoldersDir, Z3
<1>6. FileFine(World, Now, f, Holders(World, dirs, gs), v \cup {f.root, f.parent})
  BY <1>4, <1>5
<1>7. v \subseteq v \cup {f.root, f.parent}
  OBVIOUS
<1> HIDE DEF n, v, f
<1>8. Held(World, Now, dirs, [files EXCEPT ![k] = f])
  BY <1>3, <1>6, <1>7, FilePut DEF v
<1> QED BY <1>1, <1>2, <1>8, Done DEF f

LEMMA CloseKeeps ==
  ASSUME FATInv, NEW k \in FileHandles, Close(k)
  PROVE  FATInv'
<1> DEFINE gs == [files EXCEPT ![k] = Closed]
           m == FreeCache(Now, files[k].cache)
           n == Holders(World, dirs, gs)
           v == Roots(dirs, files)
<1>1. Ready /\ OpenFile(k) /\ Commit(m) /\ files' = gs /\ dirs' = dirs
  BY DEF Close, OnFile
<1>2. FileFine(World, Now, files[k], n, v) /\ Handles(World, "ready", dirs, files)
  BY <1>1, FileBegins
<1>3. Fine(World, m, n, v)
  BY <1>2, FreeCacheFine DEF FileFine, IsFile
<1> HIDE DEF m
<1>4. Held(World, m, dirs, gs)
  BY <1>2, <1>3, FileGone
<1> QED BY <1>1, <1>4, Done

LEMMA ReadFileKeeps ==
  ASSUME FATInv, NEW k \in FileHandles, ReadFile(k)
  PROVE  FATInv'
<1> DEFINE n == Holders(World, dirs, [files EXCEPT ![k] = Closed])
           v == Roots(dirs, files)
<1>1. Ready /\ OpenFile(k)
  BY DEF ReadFile
<1>2. PICK count \in 1..(2 * Cells) : OnFile(k, FileRead(Now, files[k], count))
  BY DEF ReadFile
<1> DEFINE r == FileRead(Now, files[k], count)
<1>3. FileFine(World, Now, files[k], n, v) /\ Handles(World, "ready", dirs, files) /\ Fresh(files[k])
  BY <1>1, FileBegins
<1>4. count \in Nat
  BY FATAssumption
<1>5. v \subseteq v /\ OnFile(k, r)
  BY <1>2
<1> HIDE DEF n, v
<1>6. FileFine(World, r.m, r.f, n, v)
  BY <1>3, <1>4, FileReadFine DEF AtFile
<1> HIDE DEF r
<1> QED BY <1>3, <1>5, <1>6, FileStep DEF n, v

LEMMA WriteFileKeeps ==
  ASSUME FATInv, NEW k \in FileHandles, WriteFile(k)
  PROVE  FATInv'
<1> DEFINE n == Holders(World, dirs, [files EXCEPT ![k] = Closed])
           v == Roots(dirs, files)
<1>1. Ready /\ OpenFile(k)
  BY DEF WriteFile
<1>2. PICK b \in Bytes : files[k].offset < MaxSize /\ OnFile(k, FileWrite(Now, files[k], b))
  BY DEF WriteFile
<1> DEFINE r == FilePutByte(Now, files[k], b)
<1>3. FileFine(World, Now, files[k], n, v) /\ Handles(World, "ready", dirs, files) /\ Fresh(files[k])
  BY <1>1, FileBegins
<1>4. v \subseteq v \cup {r.f.root} /\ OnFile(k, r)
  BY <1>2 DEF FileWrite
<1> HIDE DEF n, v
<1>5. FileFine(World, r.m, r.f, n, v \cup {r.f.root})
  BY <1>2, <1>3, FilePutByteFine DEF AtFile
<1> HIDE DEF r
<1> QED BY <1>3, <1>4, <1>5, FileStep DEF n, v

LEMMA SeekKeeps ==
  ASSUME FATInv, NEW k \in FileHandles, Seek(k)
  PROVE  FATInv'
<1> DEFINE n == Holders(World, dirs, [files EXCEPT ![k] = Closed])
           v == Roots(dirs, files)
<1>1. Ready /\ OpenFile(k)
  BY DEF Seek
<1>2. FileFine(World, Now, files[k], n, v) /\ Handles(World, "ready", dirs, files) /\ IsFile(World, files[k])
  BY <1>1, FileBegins
<1>3. PICK offset \in 0..files[k].size : OnFile(k, FileSetPointer(Now, files[k], offset))
  BY DEF Seek
<1>4. offset \in Nat
  BY <1>2, Constant DEF IsFile
<1> DEFINE r == FileSetPointer(Now, files[k], offset)
<1>5. v \subseteq v /\ OnFile(k, r)
  BY <1>3
<1> HIDE DEF n, v
<1>6. FileFine(World, r.m, r.f, n, v)
  BY <1>2, <1>4, FileSetPointerFine
<1> HIDE DEF r
<1> QED BY <1>2, <1>5, <1>6, FileStep DEF n, v

LEMMA FlushAllKeeps ==
  ASSUME FATInv, FlushAll
  PROVE  FATInv'
<1> DEFINE m == Flush(Now)
           n == Holders(World, dirs, files)
           v == Roots(dirs, files)
<1>1. Ready /\ Commit(m) /\ dirs' = dirs /\ files' = files
  BY DEF FlushAll
<1>2. Fine(World, Now, n, v) /\ Handles(World, "ready", dirs, files)
  BY <1>1, Begin DEF Held
<1>3. Fine(World, m, n, v)
  <2> HIDE DEF n, v
  <2> QED BY <1>2, FlushFine
<1>4. Held(World, m, dirs, files)
  <2>1. Handles(World, m.at, dirs, files)
    BY <1>2 DEF Handles
  <2> QED BY <1>3, <2>1 DEF Held
<1> HIDE DEF m
<1> QED BY <1>1, <1>4, Done

-----------------------------------------------------------------------------
(* The disk.                                                                 *)

LEMMA DiskWriteKeeps ==
  ASSUME FATInv, DiskWrite
  PROVE  FATInv'
<1>1. PICK e : Held(World, Machine(fat, cacheObjects, e, pending, status, unsaved), dirs, files)
  BY DEF FATInv
<1> DEFINE m == Machine(fat, cacheObjects, e, pending, status, unsaved)
<1>2. /\ m.fat = fat /\ m.cache = cacheObjects /\ m.log = pending /\ m.disk = e /\ m.at = status
      /\ m.unsaved = unsaved
  BY MachineFields
<1>3. Held(World, m, dirs, files)
  BY <1>1
<1> HIDE DEF m
<1>4. /\ pending # <<>> /\ disk' = Written(disk, Head(pending)) /\ pending' = Tail(pending)
      /\ fat' = fat /\ cacheObjects' = cacheObjects /\ status' = status /\ dirs' = dirs
      /\ files' = files /\ unsaved' = unsaved /\ dangling' = dangling
  BY DEF DiskWrite
<1>5. /\ World'.disk = Written(World.disk, Head(pending)) /\ World'.entries = World.entries
      /\ World'.dangling = World.dangling
  BY <1>4 DEF World
<1>6. Leads(World, pending, e)
  BY <1>2, <1>3, Typing DEF Held
<1>7. Leads(World', Tail(pending), e)
  BY <1>4, <1>5, <1>6, LeadsTail
<1>8. Held(World', Machine(fat, cacheObjects, e, Tail(pending), status, unsaved), dirs, files)
  BY <1>2, <1>3, <1>5, <1>7, HeldElsewhere
<1>9. Held(World', Machine(fat', cacheObjects', e, pending', status', unsaved'), dirs', files')
  BY <1>4, <1>8
<1> QED BY <1>9 DEF FATInv

\* The disk as a handler has left it, or does so now.
LEMMA DiskNow ==
  ASSUME NEW e, NEW n, NEW v, Fine(World, Machine(fat, cacheObjects, e, pending, status, unsaved), n, v)
  PROVE  WorldOK(World) /\ DiskOK(World, disk) /\ fat \in Tables(World)
<1> DEFINE m == Machine(fat, cacheObjects, e, pending, status, unsaved)
<1>1. m.log = pending /\ m.disk = e /\ m.fat = fat
  BY MachineFields
<1> HIDE DEF m
<1>2. Leads(World, pending, e) /\ WorldOK(World) /\ fat \in Tables(World)
  BY <1>1, Typing DEF m
<1>3. World.disk = disk
  BY DEF World
<1> QED BY <1>2, <1>3, LeadsTo

\* What is marked on a disk can still be known when more is dangling.
LEMMA Crashed ==
  ASSUME WorldOK(World), DiskOK(World, disk), Crash
  PROVE  /\ WorldOK(World') /\ DiskOK(World', World'.disk) /\ Links(World', World'.disk.fats[1])
         /\ Fresher(World') = Machine(fat', cacheObjects', disk', pending', status', unsaved')
<1> DEFINE t == disk.fats[1]
           x == World'
           found == {c \in DOMAIN fat : /\ disk.fats[1][c] = 0
                                        /\ \E p \in DOMAIN fat : disk.fats[1][p] = c /\ c # 0}
<1>1. /\ fat' = t /\ cacheObjects' = [c \in DOMAIN fat |-> Absent] /\ pending' = <<>>
      /\ status' = "ready" /\ unsaved' = {} /\ disk' = disk
      /\ dangling' = dangling \cup found
  BY DEF Crash, Mount
<1>2. t \in [World.entries -> World.entries \cup {ClusterLast}]
  BY Constant DEF DiskOK, Tables
<1>3. World.entries = DOMAIN fat /\ DOMAIN t = DOMAIN fat /\ World.dangling = dangling
  BY <1>2 DEF World
<1>4. x.entries = World.entries /\ x.disk = disk /\ x.dangling = dangling \cup found
  BY <1>1, <1>3 DEF World
<1>5. found \subseteq World.entries /\ \A c \in World.entries : t[c] \in World.entries /\ t[t[c]] = 0 /\ t[c] # 0 => t[c] \in found
  BY <1>3
<1> HIDE DEF x, found, t
<1>6. WorldOK(x)
  BY <1>3, <1>4, <1>5 DEF WorldOK
<1>7. DiskOK(x, disk)
  <2>1. \A s, c : Taken(World, s, c) => Taken(x, s, c)
    BY <1>3, <1>4 DEF Taken
  <2>2. \A s, c, cells : CellsTaken(World, s, c, cells) => CellsTaken(x, s, c, cells)
    BY <2>1 DEF CellsTaken
  <2>3. Tables(x) = Tables(World) /\ \A c, cells : CellsOK(World, c, cells) => CellsOK(x, c, cells)
    BY <1>4 DEF Tables, CellsOK
  <2> QED BY <2>2, <2>3 DEF DiskOK
<1>8. Links(x, t)
  <2>1. ASSUME NEW c \in World.entries, t[c] # 0, t[c] # ClusterLast PROVE Taken(x, t, t[c])
    <3>1. t[c] \in World.entries
      BY <1>2, <2>1
    <3> QED BY <1>4, <1>5, <2>1, <3>1 DEF Taken
  <2> QED BY <1>4, <2>1 DEF Links
<1>9. x.disk.fats[1] = t
  BY <1>4 DEF t
<1>10. Fresher(x) = Machine(fat', cacheObjects', disk', pending', status', unsaved')
  BY <1>1, <1>3, <1>4, <1>9 DEF Fresher
<1> QED BY <1>4, <1>6, <1>7, <1>8, <1>9, <1>10 DEF x

LEMMA CrashKeeps ==
  ASSUME FATInv, Crash
  PROVE  FATInv'
<1>1. WorldOK(World) /\ DiskOK(World, disk)
  BY DiskNow DEF FATInv, Held
<1>2. dirs' = [h \in DirHandles |-> Closed] /\ files' = [h \in FileHandles |-> Closed]
  BY DEF Crash, Mount
<1>3. /\ WorldOK(World') /\ DiskOK(World', World'.disk) /\ Links(World', World'.disk.fats[1])
      /\ Fresher(World') = Machine(fat', cacheObjects', disk', pending', status', unsaved')
  BY <1>1, Crashed
<1>4. Held(World', Fresher(World'), dirs', files')
  BY <1>2, <1>3, Mounted
<1>5. Held(World', Machine(fat', cacheObjects', disk', pending', status', unsaved'), dirs', files')
  BY <1>3, <1>4
<1> QED BY <1>5 DEF FATInv

LEMMA Started ==
  ASSUME FATInit
  PROVE  /\ WorldOK(World) /\ DiskOK(World, World.disk) /\ Links(World, World.disk.fats[1])
         /\ Fresher(World) = Machine(fat, cacheObjects, disk, pending, status, unsaved)
<1> DEFINE t == disk.fats[1]
<1>1. PICK last \in LastCluster..(ClusterLast - 1) : Formatted(disk, last)
  BY FATAssumption DEF FATInit
<1>2. /\ fat = t /\ cacheObjects = [c \in DOMAIN fat |-> Absent] /\ pending = <<>>
      /\ status = "ready" /\ unsaved = {} /\ dangling = {}
  BY DEF FATInit
<1>3. /\ disk = [fats |-> disk.fats, data |-> [c \in Clusters |-> disk.data[c]]]
      /\ disk.fats \in [1..Copies -> [0..last -> 0..last \cup {ClusterLast}]]
      /\ \A c \in Clusters : disk.data[c] \in [0..(Size(c) - 1) -> CellOver(0..last)]
  BY <1>1 DEF Formatted
<1> DEFINE taken == {c \in 0..last : t[c] # 0}
<1>4. /\ {0, 1} \subseteq taken
      /\ \A c \in taken : t[c] \in taken \cup {ClusterLast}
      /\ \A c \in Clusters : \A i \in 0..(Size(c) - 1) : disk.data[c][i].cluster \in taken
  BY <1>1 DEF Formatted
<1>5. t \in [0..last -> 0..last \cup {ClusterLast}]
  <2>1. 1 \in 1..Copies
    BY Constant
  <2>2. \A S, T : S \in [1..Copies -> T] => S[1] \in T
    BY <2>1
  <2> QED BY <1>3, <2>2
<1>6. World.entries = 0..last /\ World.disk = disk /\ World.dangling = {} /\ DOMAIN fat = 0..last
  BY <1>2, <1>5 DEF World
<1> HIDE DEF t
<1>7. WorldOK(World)
  BY <1>6 DEF WorldOK
<1>8. \A c \in taken : Taken(World, t, c)
  BY <1>6 DEF Taken
<1>9. DiskOK(World, disk)
  <2>1. disk = [fats |-> disk.fats, data |-> disk.data] /\ disk.data = [c \in Clusters |-> disk.data[c]]
    <3>1. \A a, b, d : d = [fats |-> a, data |-> b] => d.data = b /\ d = [fats |-> a, data |-> d.data]
      OBVIOUS
    <3>2. disk.data = [c \in Clusters |-> disk.data[c]]
      BY <1>3, <3>1
    <3> QED BY <1>3, <3>1, <3>2
  <2>2. disk.fats \in [1..Copies -> Tables(World)]
    BY <1>3, <1>6 DEF Tables
  <2>3. disk.fats[1][0] # 0 /\ disk.fats[1][1] # 0
    BY <1>4 DEF t
  <2>4. \A c \in Clusters : CellsOK(World, c, disk.data[c])
    BY <1>3, <1>6 DEF CellsOK
  <2>5. \A c \in Clusters : CellsTaken(World, disk.fats[1], c, disk.data[c])
    <3> HIDE DEF taken
    <3> QED BY <1>4, <1>8 DEF CellsTaken, t
  <2> QED BY <2>1, <2>2, <2>3, <2>4, <2>5 DEF DiskOK
<1>10. Links(World, t)
  <2>1. ASSUME NEW c \in 0..last PROVE t[c] \in {0, ClusterLast} \/ Taken(World, t, t[c])
    <3>1. t[c] = 0 \/ t[c] \in taken \cup {ClusterLast}
      BY <1>4
    <3> HIDE DEF taken
    <3> QED BY <1>8, <3>1
  <2> QED BY <1>6, <2>1 DEF Links
<1>11. World.disk.fats[1] = t
  BY <1>6 DEF t
<1>12. Fresher(World) = Machine(fat, cacheObjects, disk, pending, status, unsaved)
  BY <1>2, <1>6, <1>11 DEF Fresher
<1> QED BY <1>6, <1>7, <1>9, <1>10, <1>11, <1>12

LEMMA FATStart ==
  ASSUME FATInit
  PROVE  FATInv
<1>1. dirs = [h \in DirHandles |-> Closed] /\ files = [h \in FileHandles |-> Closed]
  BY DEF FATInit
<1>2. Held(World, Machine(fat, cacheObjects, disk, pending, status, unsaved), dirs, files)
  BY <1>1, Started, Mounted
<1> QED BY <1>2 DEF FATInv

-----------------------------------------------------------------------------
(* What the invariant is for.                                                *)

LEMMA FATKeeps ==
  ASSUME FATInv, [FATNext]_fatVars
  PROVE  FATInv'
<1>1. ASSUME NEW h \in DirHandles, OpenRoot(h) PROVE FATInv'
  BY <1>1, OpenRootKeeps
<1>2. ASSUME NEW h \in DirHandles, CloseDir(h) PROVE FATInv'
  BY <1>2, CloseDirKeeps
<1>3. ASSUME NEW h \in DirHandles, Read(h) PROVE FATInv'
  BY <1>3, ReadKeeps
<1>4. ASSUME NEW h \in DirHandles, Rewind(h) PROVE FATInv'
  BY <1>4, RewindKeeps
<1>5. ASSUME NEW h \in DirHandles, Follow(h) PROVE FATInv'
  BY <1>5, FollowKeeps
<1>6. ASSUME NEW h \in DirHandles, NEW name \in Names, Create(h, name) PROVE FATInv'
  BY <1>6, CreateKeeps
<1>7. ASSUME NEW h \in DirHandles, NEW k \in FileHandles, Open(h, k) PROVE FATInv'
  BY <1>7, OpenKeeps
<1>8. ASSUME NEW k \in FileHandles, Close(k) PROVE FATInv'
  BY <1>8, CloseKeeps
<1>9. ASSUME NEW k \in FileHandles, ReadFile(k) PROVE FATInv'
  BY <1>9, ReadFileKeeps
<1>10. ASSUME NEW k \in FileHandles, WriteFile(k) PROVE FATInv'
  BY <1>10, WriteFileKeeps
<1>11. ASSUME NEW k \in FileHandles, Seek(k) PROVE FATInv'
  BY <1>11, SeekKeeps
<1>12. CASE FlushAll
  BY <1>12, FlushAllKeeps
<1>13. CASE DiskWrite
  BY <1>13, DiskWriteKeeps
<1>14. CASE Crash
  BY <1>14, CrashKeeps
<1>15. CASE UNCHANGED fatVars
  BY <1>15 DEF fatVars, FATInv, World
<1> QED
  BY <1>1, <1>2, <1>3, <1>4, <1>5, <1>6, <1>7, <1>8, <1>9, <1>10, <1>11, <1>12, <1>13, <1>14, <1>15
  DEF FATNext

LEMMA InvTypes ==
  ASSUME FATInv
  PROVE  FATTypeOK
<1>1. PICK e : Held(World, Machine(fat, cacheObjects, e, pending, status, unsaved), dirs, files)
  BY DEF FATInv
<1> DEFINE m == Machine(fat, cacheObjects, e, pending, status, unsaved)
<1>2. m.fat = fat /\ m.cache = cacheObjects /\ m.log = pending /\ m.disk = e /\ m.at = status
  BY MachineFields
<1>3. Held(World, m, dirs, files)
  BY <1>1
<1> HIDE DEF m
<1>4. World.entries = DOMAIN fat /\ World.disk = disk /\ CellType = CellOver(World.entries)
  BY DEF World, CellType
<1>5. /\ fat \in Tables(World) /\ Cached(cacheObjects) \subseteq World.entries
      /\ CacheOK(World, cacheObjects)
      /\ \A c \in World.entries : /\ ObjectOK(World, c, cacheObjects[c])
                                  /\ c \in Cached(cacheObjects) => CellsOK(World, c, cacheObjects[c].cells)
      /\ Leads(World, pending, e) /\ status \in {"ready", "stopped", "hung", "spoiled"}
  BY <1>2, <1>3, Typing DEF Held
<1>6. DOMAIN cacheObjects = DOMAIN fat
  BY <1>4, <1>5 DEF CacheOK
<1>7. ASSUME NEW c \in Cached(cacheObjects)
      PROVE  /\ cacheObjects[c].refs \in Nat /\ cacheObjects[c].dirty \in BOOLEAN
             /\ cacheObjects[c].cells \in [0..(Size(c) - 1) -> CellType]
  <2>1. ObjectOK(World, c, cacheObjects[c]) /\ CellsOK(World, c, cacheObjects[c].cells)
    BY <1>5
  <2> QED BY <1>4, <2>1 DEF ObjectOK, CellsOK
<1>8. \A c \in Clusters : disk.data[c] \in [0..(Size(c) - 1) -> CellType]
  <2>1. DiskOK(World, disk)
    BY <1>4, <1>5, LeadsTo
  <2> QED BY <1>4, <2>1 DEF DiskOK, CellsOK
<1>9. \A c \in DOMAIN fat : fat[c] \in DOMAIN fat \cup {ClusterLast}
  BY <1>4, <1>5 DEF Tables
<1>10. ASSUME NEW k \in FileHandles, OpenFile(k)
       PROVE  files[k].cache \in Cached(cacheObjects) \cup {None} /\ files[k].size \in 0..MaxSize
  <2> DEFINE gs == [files EXCEPT ![k] = Closed]
             n == Holders(World, dirs, gs)
             v == Roots(dirs, files)
  <2>1. files = [g \in FileHandles |-> files[g]]
    BY <1>3 DEF Held, Handles
  <2>2. gs[k] = Closed /\ \A g \in FileHandles \ {k} : gs[g] = files[g]
    BY <2>1
  <2> HIDE DEF gs
  <2>3. FileFine(World, m, files[k], n, v)
    BY <1>3, <1>10, <2>2, FileTaken DEF OpenFile
  <2> HIDE DEF n, v
  <2>4. /\ files[k].cache \in World.entries \cup {None} /\ files[k].size \in 0..MaxSize
        /\ n \in [World.entries -> Nat] /\ Fine(World, m, With(n, files[k].cache), v)
    BY <2>3 DEF FileFine, IsFile
  <2> QED BY <1>2, <2>4, HeldCached
<1>11. ASSUME NEW h \in DirHandles, OpenDir(h)
       PROVE  dirs[h].cache \in Cached(cacheObjects) \cup {None}
  <2> DEFINE cs == [dirs EXCEPT ![h] = Closed]
             n == Holders(World, cs, files)
             v == Roots(dirs, files)
  <2>1. dirs = [g \in DirHandles |-> dirs[g]]
    BY <1>3 DEF Held, Handles
  <2>2. cs[h] = Closed /\ \A g \in DirHandles \ {h} : cs[g] = dirs[g]
    BY <2>1
  <2> HIDE DEF cs
  <2>3. DirFine(World, m, dirs[h], n, v)
    BY <1>3, <1>11, <2>2, DirTaken DEF OpenDir
  <2> HIDE DEF n, v
  <2>4. /\ dirs[h].cache \in World.entries \cup {None}
        /\ n \in [World.entries -> Nat] /\ Fine(World, m, With(n, dirs[h].cache), v)
    BY <2>3 DEF DirFine, IsDir
  <2> QED BY <1>2, <2>4, HeldCached
<1> QED BY <1>5, <1>6, <1>7, <1>8, <1>9, <1>10, <1>11 DEF FATTypeOK

LEMMA InvSaved ==
  ASSUME FATInv
  PROVE  MarkedOrSaved
<1>1. SUFFICES ASSUME status = "ready", pending = <<>>
               PROVE  /\ fat = disk.fats[1]
                      /\ \A c \in Cached(cacheObjects) :
                           IF cacheObjects[c].dirty THEN cacheObjects[c].refs > 0
                           ELSE cacheObjects[c].cells = disk.data[c] \/ c \in unsaved \cup dangling
  BY DEF MarkedOrSaved
<1>2. Held(World, Now, dirs, files)
  BY <1>1, Begin DEF Ready
<1>3. Now.fat = fat /\ Now.cache = cacheObjects /\ Now.disk = disk /\ Now.unsaved = unsaved /\ Now.at = "ready"
  BY <1>1 DEF Now
<1>4. AllKept(World, fat, cacheObjects, disk, unsaved)
  BY <1>2, <1>3 DEF Held, Fine
<1>5. World.dangling = dangling
  BY DEF World
<1> QED BY <1>4, <1>5 DEF AllKept, Kept

\* The types of the table, the cache, the disk and the handles hold: for every disk
\* that was formatted, whatever is done with it, and whenever the power fails.  Links
\* stay in the table, cells name clusters of it, and what a handle holds is cached.
THEOREM TypesKept == FATSpec => []FATTypeOK
<1>1. FATInit => FATInv
  BY FATStart
<1>2. FATInv /\ [FATNext]_fatVars => FATInv'
  BY FATKeeps
<1>3. FATInv => FATTypeOK
  BY InvTypes
<1> QED BY <1>1, <1>2, <1>3, PTL DEF FATSpec

\* Between the handlers the table in memory is on the disk, and a cluster in memory is
\* too, or is marked and held by someone who will have it written: except for the data
\* of files, and what was dangling when the power failed.
THEOREM NothingForgotten == FATSpec => []MarkedOrSaved
<1>1. FATInit => FATInv
  BY FATStart
<1>2. FATInv /\ [FATNext]_fatVars => FATInv'
  BY FATKeeps
<1>3. FATInv => MarkedOrSaved
  BY InvSaved
<1> QED BY <1>1, <1>2, <1>3, PTL DEF FATSpec

=============================================================================
