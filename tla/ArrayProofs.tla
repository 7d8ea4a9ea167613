----------------------------- MODULE ArrayProofs -----------------------------
(***************************************************************************)
(* Proofs about the heap (module Heap), for any sizes of headers, pages    *)
(* and requests and any bound on the addresses, and about the array on it  *)
(* (module Array), for any number of arrays and of other callers, any      *)
(* elements and any sizes.                                                 *)
(***************************************************************************)
EXTENDS Array, FiniteSetTheorems, FunctionTheorems, SequenceTheorems, WellFoundedInduction, TLAPS

-----------------------------------------------------------------------------
(* Least and greatest elements: what stands for induction along the list.  *)

LEMMA LeastNumber ==
  ASSUME NEW K, K \subseteq Nat, K # {}
  PROVE  \E m \in K : \A n \in K : m <= n
<1> DEFINE R == StrictSubsetOrdering(Nat)
           S == FiniteSubsetsOf(Nat)
           T == {0..n : n \in K}
<1>1. IsWellFoundedOn(R, S)
  BY FS_StrictSubsetOrderingWellFounded
<1>2. T \subseteq S
  <2>1. \A n \in K : 0..n \in SUBSET Nat
    OBVIOUS
  <2>2. ASSUME NEW n \in K PROVE IsFiniteSet(0..n)
    <3>1. n \in Int /\ 0 \in Int
      OBVIOUS
    <3> QED BY <3>1, FS_Interval
  <2> QED BY <2>1, <2>2 DEF FiniteSubsetsOf
<1>3. T # {}
  OBVIOUS
<1>4. \E x \in T : \A y \in T : ~(<<y, x>> \in R)
  <2> HIDE DEF R, S, T
  <2> QED BY <1>1, <1>2, <1>3, WFMin
<1>5. PICK m \in K : \A n \in K : ~(<<0..n, 0..m>> \in R)
  BY <1>4
<1>6. ASSUME NEW n \in K, n < m PROVE FALSE
  <2>1. 0..n \subseteq 0..m /\ m \notin 0..n /\ m \in 0..m
    BY <1>6
  <2>2. <<0..n, 0..m>> \in R
    BY <2>1 DEF StrictSubsetOrdering
  <2> QED BY <2>2, <1>5
<1> QED BY <1>5, <1>6

LEMMA GreatestNumber ==
  ASSUME NEW bound \in Nat, NEW K, K \subseteq 0..bound, K # {}
  PROVE  \E m \in K : \A n \in K : n <= m
<1> DEFINE L == {bound - k : k \in K}
<1>1. L \subseteq Nat /\ L # {}
  <2>1. \A k \in K : bound - k \in Nat
    OBVIOUS
  <2>2. \E k : k \in K
    OBVIOUS
  <2> QED BY <2>1, <2>2
<1>2. PICK l \in L : \A n \in L : l <= n
  <2> HIDE DEF L
  <2> QED BY <1>1, LeastNumber
<1>3. PICK m \in K : l = bound - m
  OBVIOUS
<1>4. ASSUME NEW n \in K PROVE n <= m
  BY <1>2, <1>3
<1> QED BY <1>4

-----------------------------------------------------------------------------
(* The tiling of a set of bytes by blocks of given lengths.                *)

EndIn(lengths, h) == h + HeaderSize + lengths[h]

Tiles(lengths, bytes) ==
  /\ lengths \in [DOMAIN lengths -> Nat]
  /\ DOMAIN lengths \subseteq 0..HeapEnd
  /\ bytes \subseteq 0..HeapEnd
  /\ \A g, h \in DOMAIN lengths : g < h => EndIn(lengths, g) <= h
  /\ bytes = UNION {h..(EndIn(lengths, h) - 1) : h \in DOMAIN lengths}

LEMMA EndOfBlock ==
  ASSUME NEW lengths, NEW bytes, Tiles(lengths, bytes), NEW h \in DOMAIN lengths
  PROVE  /\ h \in Nat
         /\ lengths[h] \in Nat
         /\ EndIn(lengths, h) \in Nat
         /\ h < EndIn(lengths, h)
BY HeapAssumption DEF Tiles, EndIn

\* A byte is in the tiled set exactly if it is in some block.
LEMMA TiledByte ==
  ASSUME NEW lengths, NEW bytes, Tiles(lengths, bytes)
  PROVE  \A b : b \in bytes <=> \E h \in DOMAIN lengths :
                  b \in Int /\ h <= b /\ b < EndIn(lengths, h)
<1>1. ASSUME NEW h \in DOMAIN lengths, NEW b
      PROVE  b \in h..(EndIn(lengths, h) - 1)
               <=> b \in Int /\ h <= b /\ b < EndIn(lengths, h)
  BY EndOfBlock
<1>2. ASSUME NEW b PROVE b \in bytes <=> \E h \in DOMAIN lengths :
                                  b \in h..(EndIn(lengths, h) - 1)
  BY DEF Tiles
<1> QED BY <1>1, <1>2

\* To show a tiling by its bytes.
LEMMA TilesByBytes ==
  ASSUME NEW lengths, NEW bytes,
         lengths \in [DOMAIN lengths -> Nat],
         DOMAIN lengths \subseteq 0..HeapEnd,
         bytes \subseteq 0..HeapEnd,
         \A g, h \in DOMAIN lengths : g < h => EndIn(lengths, g) <= h,
         \A b \in bytes : \E h \in DOMAIN lengths : h <= b /\ b < EndIn(lengths, h),
         \A h \in DOMAIN lengths : \A b \in Int :
            h <= b /\ b < EndIn(lengths, h) => b \in bytes
  PROVE  Tiles(lengths, bytes)
<1>1. \A h \in DOMAIN lengths : h \in Nat /\ EndIn(lengths, h) \in Nat
  BY HeapAssumption DEF EndIn
<1>2. bytes \subseteq Int
  BY HeapAssumption
<1>3. ASSUME NEW h \in DOMAIN lengths, NEW b
      PROVE  b \in h..(EndIn(lengths, h) - 1)
               <=> b \in Int /\ h <= b /\ b < EndIn(lengths, h)
  BY <1>1
<1>4. bytes = UNION {h..(EndIn(lengths, h) - 1) : h \in DOMAIN lengths}
  BY <1>2, <1>3
<1> QED BY <1>4 DEF Tiles

-----------------------------------------------------------------------------
(* Merging.  The end of a merged block is the first end, from the block    *)
(* on, at which no block of the list begins.                               *)

LEMMA BlockBounds ==
  ASSUME Tiles(length, mapped)
  PROVE  /\ \A f \in Headers : /\ f \in Nat
                             /\ End(f) \in Nat
                             /\ f < End(f)
                             /\ f + HeaderSize <= End(f)
         /\ \A f, g \in Headers : f < g => End(f) <= g
<1>1. \A f \in Headers : EndIn(length, f) = End(f) /\ f \in DOMAIN length
  BY DEF EndIn, End, Headers
<1>2. \A f \in Headers : f \in Nat /\ length[f] \in Nat /\ End(f) \in Nat /\ f < End(f)
  BY <1>1, EndOfBlock
<1>3. \A f \in Headers : f + HeaderSize <= End(f)
  BY <1>2, HeapAssumption DEF End
<1>4. \A f, g \in Headers : f < g => End(f) <= g
  BY <1>1 DEF Tiles
<1> QED BY <1>2, <1>3, <1>4

LEMMA MergedEnd ==
  ASSUME HeapTypeOK, Tiles(length, mapped),
         NEW list \in SUBSET Headers, NEW h \in list
  PROVE  LET e == h + HeaderSize + MergedLength(list, h)
         IN /\ MergedLength(list, h) \in Nat
            /\ e \in MergedEnds(list, h)
            /\ \A f \in MergedEnds(list, h) : e <= f
<1> DEFINE Ends == MergedEnds(list, h)
           e == CHOOSE e \in Ends : \A f \in Ends : e <= f
<1>1. \A f \in list : f \in Nat /\ End(f) \in Nat /\ f < End(f) /\ f + HeaderSize <= End(f)
  BY BlockBounds
<1>2. list \subseteq 0..HeapEnd
  BY DEF HeapTypeOK
<1>3. PICK last \in list : \A f \in list : f <= last
  BY <1>2, GreatestNumber, HeapAssumption
<1>4. End(last) \in Ends
  <2>1. h <= last /\ End(last) \notin list
    BY <1>1, <1>3
  <2> QED BY <2>1, <1>1 DEF MergedEnds
<1>5. Ends \subseteq Nat
  BY <1>1 DEF MergedEnds
<1>6. e \in Ends /\ \A f \in Ends : e <= f
  <2>1. \E m \in Ends : \A f \in Ends : m <= f
    <3> HIDE DEF Ends
    <3> QED BY <1>4, <1>5, LeastNumber
  <2> HIDE DEF Ends
  <2> QED BY <2>1
<1>7. PICK f \in list : f >= h /\ e = End(f)
  <2>1. e \in {End(g) : g \in {f \in list : f >= h}}
    BY <1>6 DEF MergedEnds
  <2> QED BY <2>1
<1>8. e - h - HeaderSize \in Nat
  <2> HIDE DEF e
  <2> QED BY <1>1, <1>7, HeapAssumption
<1>9. MergedLength(list, h) = e - h - HeaderSize
  BY DEF MergedLength
<1>10. h + HeaderSize + MergedLength(list, h) = e
  <2> HIDE DEF e
  <2> QED BY <1>1, <1>7, <1>9, HeapAssumption
<1> HIDE DEF e
<1> QED BY <1>6, <1>8, <1>9, <1>10

\* No block of the list begins at the end of a merged block, and where the
\* block's last part is.
LEMMA MergedPart ==
  ASSUME HeapTypeOK, Tiles(length, mapped),
         NEW list \in SUBSET Headers, NEW h \in list
  PROVE  \E f \in list :
            /\ h <= f
            /\ h + HeaderSize + MergedLength(list, h) = End(f)
            /\ End(f) \notin list
BY MergedEnd DEF MergedEnds

\* A block that ends at or before a place at which no block of the list begins
\* bounds the merged block that it is part of.
LEMMA MergedBound ==
  ASSUME HeapTypeOK, Tiles(length, mapped),
         NEW list \in SUBSET Headers, NEW h \in list,
         NEW f \in list, h <= f, End(f) \notin list
  PROVE  h + HeaderSize + MergedLength(list, h) <= End(f)
<1>1. h \in Int /\ f \in Int
  BY BlockBounds
<1>2. End(f) \in MergedEnds(list, h)
  BY <1>1 DEF MergedEnds
<1> QED BY <1>2, MergedEnd

\* From a block of the list on, the list is without a gap up to the end of the
\* merged block.
LEMMA MergedInside ==
  ASSUME HeapTypeOK, Tiles(length, mapped),
         NEW list \in SUBSET Headers, NEW h \in list,
         NEW b \in Int, h <= b, b < h + HeaderSize + MergedLength(list, h)
  PROVE  \E f \in list : h <= f /\ f <= b /\ b < End(f)
<1> DEFINE K == {f \in list : h <= f /\ f <= b}
<1>1. \A f \in list : f \in Nat /\ End(f) \in Nat /\ f < End(f)
  BY BlockBounds
<1>2. K \subseteq 0..HeapEnd /\ K # {}
  <2>1. h \in K
    BY <1>1
  <2> QED BY <2>1 DEF HeapTypeOK
<1>3. PICK f \in K : \A g \in K : g <= f
  <2> HIDE DEF K
  <2> QED BY <1>2, GreatestNumber, HeapAssumption
<1>4. CASE b < End(f)
  BY <1>4
<1>5. CASE End(f) <= b
  <2>1. End(f) \notin list
    BY <1>1, <1>3, <1>5
  <2>2. h + HeaderSize + MergedLength(list, h) <= End(f)
    BY <2>1, MergedBound
  <2>3. MergedLength(list, h) \in Nat
    BY MergedEnd
  <2> QED BY <1>1, <1>5, <2>2, <2>3, HeapAssumption
<1> QED BY <1>1, <1>4, <1>5

\* Every block of the list is inside the merged block of one that is kept.
LEMMA KeptCovers ==
  ASSUME HeapTypeOK, Tiles(length, mapped),
         NEW list \in SUBSET Headers, NEW h \in list
  PROVE  \E g \in list \ Absorbed(list) :
            g <= h /\ End(h) <= g + HeaderSize + MergedLength(list, g)
<1> DEFINE K == {g \in list \ Absorbed(list) : g <= h}
<1>1. \A f \in list : f \in Nat /\ End(f) \in Nat /\ f < End(f)
  BY BlockBounds
<1>2. \A f, g \in list : f < g => End(f) <= g
  BY BlockBounds
<1>3. PICK first \in list : \A f \in list : first <= f
  BY <1>1, LeastNumber
<1>4. K \subseteq 0..HeapEnd /\ K # {}
  <2>1. first \in K
    BY <1>1, <1>3 DEF Absorbed
  <2> QED BY <2>1 DEF HeapTypeOK
<1>5. PICK g \in K : \A k \in K : k <= g
  <2> HIDE DEF K
  <2> QED BY <1>4, GreatestNumber, HeapAssumption
<1>6. PICK f \in list : /\ g <= f
                       /\ g + HeaderSize + MergedLength(list, g) = End(f)
                       /\ End(f) \notin list
  BY MergedPart
<1>7. CASE h <= f
  BY <1>1, <1>2, <1>5, <1>6, <1>7
<1>8. CASE f < h
  <2> DEFINE Beyond == {k \in list : End(f) < k}
  <2>1. h \in Beyond
    BY <1>1, <1>2, <1>6, <1>8
  <2>2. Beyond \subseteq Nat
    BY <1>1
  <2>3. PICK k \in Beyond : \A l \in Beyond : k <= l
    <3> HIDE DEF Beyond
    <3> QED BY <2>1, <2>2, LeastNumber
  <2>4. k \notin Absorbed(list)
    <3>1. ASSUME NEW l \in list, End(l) = k PROVE FALSE
      <4>1. l < k /\ l \notin Beyond
        BY <1>1, <2>3, <3>1
      <4>2. l # End(f) /\ l # f
        BY <1>1, <1>6, <2>3, <3>1
      <4>3. l < End(f)
        BY <1>1, <4>1, <4>2
      <4>4. l < f
        BY <1>1, <1>2, <4>2, <4>3
      <4> QED BY <1>1, <1>2, <2>3, <3>1, <4>4
    <3> QED BY <3>1 DEF Absorbed
  <2>5. k \in K /\ g < k
    BY <1>1, <1>5, <1>6, <2>1, <2>3, <2>4
  <2> QED BY <1>1, <1>5, <2>5
<1> QED BY <1>1, <1>7, <1>8

\* MallocMerge keeps the tiling.
LEMMA MergeTiles ==
  ASSUME HeapTypeOK, Tiles(length, mapped),
         NEW list \in SUBSET Headers, MallocMerge(list)
  PROVE  Tiles(length', mapped)
<1> DEFINE Left == Headers \ Absorbed(list)
<1>1. Absorbed(list) \subseteq list
  BY DEF Absorbed
<1>2. /\ DOMAIN length' = Left
      /\ length' \in [Left -> Nat]
      /\ \A h \in Left \cap list : length'[h] = MergedLength(list, h)
      /\ \A h \in Left \ list : length'[h] = length[h]
  <2>1. \A h \in list : MergedLength(list, h) \in Nat
    BY MergedEnd
  <2>2. \A h \in Headers : length[h] \in Nat
    BY DEF Tiles, Headers
  <2> QED BY <2>1, <2>2 DEF MallocMerge
<1>3. /\ \A h \in Left \cap list :
             EndIn(length', h) = h + HeaderSize + MergedLength(list, h)
      /\ \A h \in Left \ list : EndIn(length', h) = End(h)
  BY <1>2 DEF EndIn, End
<1>4. ASSUME NEW g \in Left, NEW h \in Left, g < h
      PROVE  EndIn(length', g) <= h
  <2>1. CASE g \notin list
    BY <1>3, <1>4, <2>1, BlockBounds
  <2>2. CASE g \in list
    <3> DEFINE K == {f \in list : g <= f /\ f < h}
    <3>1. K \subseteq 0..HeapEnd /\ K # {}
      <4>1. g \in K
        BY <1>4, <2>2, BlockBounds
      <4> QED BY <4>1 DEF HeapTypeOK
    <3>2. PICK f \in K : \A k \in K : k <= f
      <4> HIDE DEF K
      <4> QED BY <3>1, GreatestNumber, HeapAssumption
    <3>3. End(f) <= h
      BY BlockBounds
    <3>4. End(f) \notin list
      <4>1. ASSUME End(f) \in list PROVE FALSE
        <5>1. End(f) # h
          BY <4>1 DEF Absorbed
        <5>2. End(f) \in K
          BY <3>3, <4>1, <5>1, BlockBounds
        <5> QED BY <3>2, <5>2, BlockBounds
      <4> QED BY <4>1
    <3>5. g + HeaderSize + MergedLength(list, g) <= End(f)
      BY <2>2, <3>4, MergedBound
    <3>6. MergedLength(list, g) \in Nat
      BY <2>2, MergedEnd
    <3> QED BY <1>3, <2>2, <3>3, <3>5, <3>6, BlockBounds, HeapAssumption
  <2> QED BY <2>1, <2>2
<1>5. ASSUME NEW b \in mapped
      PROVE  \E h \in Left : h <= b /\ b < EndIn(length', h)
  <2>1. PICK h \in Headers : b \in Int /\ h <= b /\ b < EndIn(length, h)
    BY TiledByte DEF Headers
  <2>2. b < End(h)
    BY <2>1 DEF EndIn, End
  <2>3. CASE h \notin list
    BY <1>1, <1>3, <2>1, <2>2, <2>3
  <2>4. CASE h \in list
    <3>1. PICK g \in list \ Absorbed(list) :
               g <= h /\ End(h) <= g + HeaderSize + MergedLength(list, g)
      BY <2>4, KeptCovers
    <3>2. MergedLength(list, g) \in Nat
      BY MergedEnd
    <3>3. g <= b /\ b < g + HeaderSize + MergedLength(list, g)
      BY <2>1, <2>2, <3>1, <3>2, BlockBounds, HeapAssumption
    <3> QED BY <1>3, <3>3
  <2> QED BY <2>3, <2>4
<1>6. ASSUME NEW h \in Left, NEW b \in Int, h <= b, b < EndIn(length', h)
      PROVE  b \in mapped
  <2>1. CASE h \notin list
    <3>1. b < EndIn(length, h)
      BY <1>3, <1>6, <2>1 DEF EndIn, End
    <3> QED BY <1>6, <3>1, TiledByte DEF Headers
  <2>2. CASE h \in list
    <3>1. PICK f \in list : h <= f /\ f <= b /\ b < End(f)
      BY <1>3, <1>6, <2>2, MergedInside
    <3>2. b < EndIn(length, f)
      BY <3>1 DEF EndIn, End
    <3> QED BY <3>1, <3>2, TiledByte DEF Headers
  <2> QED BY <2>1, <2>2
<1>7. Left \subseteq 0..HeapEnd /\ mapped \subseteq 0..HeapEnd
  BY DEF HeapTypeOK
<1> HIDE DEF Left
<1> QED BY <1>2, <1>4, <1>5, <1>6, <1>7, TilesByBytes

-----------------------------------------------------------------------------
(* Taking a block, out of the list or out of new pages.                    *)

\* Cutting a block keeps the tiling, and the cut is not where a block begins.
LEMMA TakeTiles ==
  ASSUME NEW lengths, NEW list, NEW bytes \in Nat, NEW h \in list, NEW memory,
         Tiles(lengths, memory), list \subseteq DOMAIN lengths,
         lengths[h] >= bytes, Take(h, bytes, lengths, list)
  PROVE  /\ Tiles(length', memory)
         /\ DOMAIN lengths \subseteq Headers'
         /\ length'[h] >= bytes
         /\ \A b \in DOMAIN lengths \ {h} : length'[b] = lengths[b]
         /\ freeList' \subseteq (Headers' \ DOMAIN lengths) \cup (list \ {h})
<1> DEFINE rest == h + HeaderSize + bytes
           splits == lengths[h] - bytes > HeaderSize
<1>1. /\ h \in Nat /\ lengths[h] \in Nat /\ HeaderSize \in Nat \ {0}
      /\ EndIn(lengths, h) = h + HeaderSize + lengths[h]
  BY HeapAssumption, EndOfBlock DEF EndIn
<1>2. CASE ~splits
  <2>1. length' = lengths /\ freeList' = list \ {h}
    BY <1>2 DEF Take
  <2> QED BY <2>1 DEF Headers
<1>3. CASE splits
  <2>1. rest \in Nat /\ h < rest /\ rest < EndIn(lengths, h)
    BY <1>1, <1>3
  <2>2. rest \notin DOMAIN lengths
    BY <2>1, <1>1, EndOfBlock DEF Tiles
  <2>3. rest \in 0..HeapEnd
    <3>1. rest \in memory
      BY <1>1, <2>1, TiledByte
    <3> QED BY <3>1 DEF Tiles
  <2>4. /\ length' = [b \in DOMAIN lengths \cup {rest} |->
                         IF b = h THEN bytes
                         ELSE IF b = rest THEN lengths[h] - bytes - HeaderSize
                         ELSE lengths[b]]
        /\ freeList' = (list \ {h}) \cup {rest}
    BY <1>3 DEF Take
  <2>5. lengths[h] - bytes - HeaderSize \in Nat
    BY <1>1, <1>3
  <2>6. /\ DOMAIN length' = DOMAIN lengths \cup {rest}
        /\ length' \in [DOMAIN length' -> Nat]
        /\ length'[h] = bytes
        /\ length'[rest] = lengths[h] - bytes - HeaderSize
        /\ \A b \in DOMAIN lengths \ {h} : length'[b] = lengths[b]
    <3>1. \A b \in DOMAIN lengths : lengths[b] \in Nat
      BY DEF Tiles
    <3> HIDE DEF rest
    <3>2. h # rest
      BY <2>2
    <3> QED BY <2>2, <2>4, <2>5, <3>1, <3>2
  <2>7. /\ EndIn(length', h) = rest
        /\ EndIn(length', rest) = EndIn(lengths, h)
        /\ \A b \in DOMAIN lengths \ {h} : EndIn(length', b) = EndIn(lengths, b)
    BY <1>1, <2>6 DEF EndIn
  <2> HIDE DEF rest, splits
  <2>8. \A a, b \in DOMAIN length' : a < b => EndIn(length', a) <= b
    <3>1. \A a, b \in DOMAIN lengths : a < b => EndIn(lengths, a) <= b
      BY DEF Tiles
    <3>2. \A a \in DOMAIN lengths : a \in Nat /\ EndIn(lengths, a) \in Nat /\ a < EndIn(lengths, a)
      BY EndOfBlock
    <3>3. ASSUME NEW a \in DOMAIN lengths, a # h, a < rest PROVE EndIn(lengths, a) <= rest
      BY <1>1, <2>1, <3>1, <3>2, <3>3
    <3>4. ASSUME NEW b \in DOMAIN lengths, rest < b PROVE EndIn(lengths, h) <= b
      BY <1>1, <2>1, <3>1, <3>2, <3>4
    <3>5. ASSUME NEW b \in DOMAIN lengths, h < b PROVE rest <= b
      BY <1>1, <2>1, <3>1, <3>2, <3>5
    <3> QED BY <1>1, <2>1, <2>6, <2>7, <3>1, <3>3, <3>4, <3>5
  <2>9. \A b \in memory : \E a \in DOMAIN length' : a <= b /\ b < EndIn(length', a)
    <3>1. TAKE b \in memory
    <3>2. PICK a \in DOMAIN lengths : b \in Int /\ a <= b /\ b < EndIn(lengths, a)
      BY TiledByte
    <3>3. CASE a # h
      BY <2>6, <2>7, <3>2, <3>3
    <3>4. CASE a = h /\ b < rest
      BY <2>6, <2>7, <3>2, <3>4
    <3>5. CASE a = h /\ rest <= b
      BY <2>6, <2>7, <3>2, <3>5
    <3> QED BY <2>1, <3>2, <3>3, <3>4, <3>5
  <2>10. \A a \in DOMAIN length' : \A b \in Int :
            a <= b /\ b < EndIn(length', a) => b \in memory
    <3>1. TAKE a \in DOMAIN length', b \in Int
    <3>2. HAVE a <= b /\ b < EndIn(length', a)
    <3>3. CASE a = h
      <4>1. b < EndIn(lengths, h)
        BY <1>1, <2>1, <2>7, <3>2, <3>3, EndOfBlock
      <4> QED BY <3>2, <3>3, <4>1, TiledByte
    <3>4. CASE a = rest
      <4>1. h <= b
        BY <1>1, <2>1, <3>2, <3>4
      <4> QED BY <2>7, <3>2, <3>4, <4>1, TiledByte
    <3>5. CASE a # h /\ a # rest
      BY <2>6, <2>7, <3>2, <3>5, TiledByte
    <3> QED BY <3>3, <3>4, <3>5
  <2>11. DOMAIN length' \subseteq 0..HeapEnd /\ memory \subseteq 0..HeapEnd
    BY <2>3, <2>6 DEF Tiles
  <2>12. Tiles(length', memory)
    BY <2>6, <2>8, <2>9, <2>10, <2>11, TilesByBytes
  <2> QED BY <1>1, <2>2, <2>4, <2>6, <2>12 DEF Headers
<1> QED BY <1>2, <1>3

LEMMA RoundUpCovers ==
  ASSUME NEW n \in Nat
  PROVE  RoundUp(n) \in Nat /\ RoundUp(n) >= n
<1>1. ASSUME NEW p \in Nat \ {0}
      PROVE  /\ ((n + p - 1) \div p) \in Nat
             /\ ((n + p - 1) \div p) * p >= n
             /\ ((n + p - 1) \div p) * p \in Nat
  OBVIOUS
<1> QED BY <1>1, HeapAssumption DEF RoundUp

LEMMA TotalSizeCovers ==
  ASSUME NEW bytes \in Nat
  PROVE  TotalSize(bytes) \in Nat /\ TotalSize(bytes) >= bytes + HeaderSize
<1>1. ASSUME NEW p \in Nat, NEW m \in Nat PROVE m * p \in Nat
  OBVIOUS
<1>2. MinPages * PageSize \in Nat
  BY <1>1, HeapAssumption
<1>3. bytes + HeaderSize \in Nat
  BY HeapAssumption
<1> QED BY <1>2, <1>3, RoundUpCovers, HeapAssumption DEF TotalSize

\* New pages as one block keep the tiling.
LEMMA GrowTiles ==
  ASSUME Tiles(length, mapped), NEW page \in 0..HeapEnd, NEW total \in Nat,
         total >= HeaderSize, page + total <= HeapEnd,
         \A byte \in mapped : byte < page
  PROVE  LET lengths == [b \in Headers \cup {page} |->
                           IF b = page THEN total - HeaderSize ELSE length[b]]
         IN /\ Tiles(lengths, mapped \cup page..(page + total - 1))
            /\ page \notin Headers
<1> DEFINE lengths == [b \in Headers \cup {page} |->
                         IF b = page THEN total - HeaderSize ELSE length[b]]
           memory == mapped \cup page..(page + total - 1)
<1>1. /\ page \in Nat /\ HeaderSize \in Nat \ {0} /\ HeapEnd \in Nat
      /\ total - HeaderSize \in Nat
  BY HeapAssumption
<1>2. ASSUME NEW h \in Headers PROVE h < page /\ End(h) <= page
  <2>1. /\ h \in Nat /\ End(h) \in Nat /\ h < End(h)
        /\ h \in DOMAIN length /\ EndIn(length, h) = End(h)
    BY BlockBounds DEF Headers, EndIn, End
  <2>2. h \in mapped /\ End(h) - 1 \in mapped
    BY <2>1, TiledByte
  <2> QED BY <1>1, <2>1, <2>2
<1>3. page \notin Headers
  BY <1>1, <1>2
<1>4. /\ DOMAIN lengths = Headers \cup {page}
      /\ lengths \in [DOMAIN lengths -> Nat]
      /\ lengths[page] = total - HeaderSize
      /\ \A h \in Headers : lengths[h] = length[h]
  <2>1. \A h \in Headers : length[h] \in Nat
    BY DEF Tiles, Headers
  <2> QED BY <1>1, <1>3, <2>1
<1>5. /\ EndIn(lengths, page) = page + total
      /\ \A h \in Headers : EndIn(lengths, h) = End(h)
  BY <1>1, <1>4 DEF EndIn, End
<1>6. DOMAIN lengths \subseteq 0..HeapEnd /\ memory \subseteq 0..HeapEnd
  <2>1. Headers \subseteq 0..HeapEnd /\ mapped \subseteq 0..HeapEnd
    BY DEF Tiles, Headers
  <2>2. page..(page + total - 1) \subseteq 0..HeapEnd
    BY <1>1
  <2> QED BY <1>4, <2>1, <2>2
<1> HIDE DEF lengths
<1>7. \A g, h \in DOMAIN lengths : g < h => EndIn(lengths, g) <= h
  BY <1>1, <1>2, <1>4, <1>5, BlockBounds
<1>8. \A b \in memory : \E h \in DOMAIN lengths : h <= b /\ b < EndIn(lengths, h)
  <2>1. TAKE b \in memory
  <2>2. CASE b \in mapped
    <3>1. PICK h \in DOMAIN length : h <= b /\ b < EndIn(length, h)
      BY <2>2, TiledByte
    <3>2. h \in Headers /\ EndIn(length, h) = End(h)
      BY DEF Headers, EndIn, End
    <3> QED BY <1>4, <1>5, <3>1, <3>2
  <2>3. CASE b \in page..(page + total - 1)
    BY <1>1, <1>4, <1>5, <2>3
  <2> QED BY <2>2, <2>3
<1>9. \A h \in DOMAIN lengths : \A b \in Int :
         h <= b /\ b < EndIn(lengths, h) => b \in memory
  <2>1. TAKE h \in DOMAIN lengths, b \in Int
  <2>2. HAVE h <= b /\ b < EndIn(lengths, h)
  <2>3. CASE h \in Headers
    <3>1. EndIn(length, h) = EndIn(lengths, h) /\ h \in DOMAIN length
      BY <1>5, <2>3 DEF Headers, EndIn, End
    <3> QED BY <2>2, <3>1, TiledByte
  <2>4. CASE h = page
    BY <1>1, <1>5, <2>2, <2>4
  <2> QED BY <1>4, <2>3, <2>4
<1>10. Tiles(lengths, memory)
  <2> HIDE DEF memory
  <2> QED BY <1>4, <1>6, <1>7, <1>8, <1>9, TilesByBytes
<1> QED BY <1>3, <1>10 DEF lengths

-----------------------------------------------------------------------------
(* The invariant: HeapTypeOK and BlocksTile, with the tiling stated for    *)
(* the function length, so that the lemmas above apply to length and       *)
(* length' alike.                                                          *)

HeapInv ==
  /\ Tiles(length, mapped)
  /\ used \subseteq Headers
  /\ freeList \subseteq Headers
  /\ used \cap freeList = {}
  /\ asked \in [used -> Nat]
  /\ \A h \in used : asked[h] <= length[h]

LEMMA InvTypes == HeapInv => HeapTypeOK
BY DEF HeapInv, HeapTypeOK, Tiles, Headers

LEMMA InvTiles == HeapInv => BlocksTile
BY DEF HeapInv, BlocksTile, Tiles, Headers, EndIn, End

\* Taking a block that was not in use keeps the invariant.
LEMMA TakeInv ==
  ASSUME HeapInv, NEW lengths, NEW list, NEW bytes \in Nat, NEW h \in list,
         Tiles(lengths, mapped'), Headers \subseteq DOMAIN lengths,
         \A b \in used : lengths[b] = length[b],
         list \subseteq DOMAIN lengths, used \cap list = {},
         lengths[h] >= bytes, Take(h, bytes, lengths, list)
  PROVE  HeapInv'
<1>1. /\ Tiles(length', mapped')
      /\ DOMAIN lengths \subseteq Headers'
      /\ length'[h] >= bytes
      /\ \A b \in DOMAIN lengths \ {h} : length'[b] = lengths[b]
      /\ freeList' \subseteq (Headers' \ DOMAIN lengths) \cup (list \ {h})
  BY TakeTiles
<1>2. /\ used' = used \cup {h}
      /\ asked' = [b \in used \cup {h} |-> IF b = h THEN bytes ELSE asked[b]]
  BY DEF Take
<1>3. /\ used \subseteq Headers
      /\ asked \in [used -> Nat]
      /\ \A b \in used : asked[b] <= length[b]
  BY DEF HeapInv
<1>4. used' \subseteq Headers' /\ used' \subseteq DOMAIN lengths
  BY <1>1, <1>2, <1>3
<1>5. freeList' \subseteq Headers' /\ used' \cap freeList' = {}
  BY <1>1, <1>2, <1>4
<1>6. asked' \in [used' -> Nat] /\ \A b \in used' : asked'[b] <= length'[b]
  BY <1>1, <1>2, <1>3
<1> QED BY <1>1, <1>4, <1>5, <1>6 DEF HeapInv

LEMMA HeapInitInv == HeapInit => HeapInv
<1> SUFFICES ASSUME HeapInit PROVE HeapInv
  OBVIOUS
<1>1. /\ Headers = {} /\ mapped = {} /\ used = {} /\ freeList = {}
      /\ length \in [{} -> Nat] /\ asked \in [{} -> Nat]
  BY DEF HeapInit, Headers
<1>2. Tiles(length, mapped)
  BY <1>1 DEF Tiles, Headers
<1> QED BY <1>1, <1>2 DEF HeapInv, Headers

LEMMA AllocFitsInv ==
  ASSUME HeapInv, NEW bytes \in Nat, AllocFits(bytes)
  PROVE  HeapInv'
<1>1. PICK h \in Fits(bytes) : Take(h, bytes, length, freeList)
  BY DEF AllocFits
<1>2. mapped' = mapped /\ Tiles(length, mapped)
  BY DEF AllocFits, HeapInv
<1>3. h \in freeList /\ length[h] >= bytes
  BY DEF Fits
<1>4. freeList \subseteq Headers /\ used \cap freeList = {}
  BY DEF HeapInv
<1>5. Headers \subseteq DOMAIN length /\ freeList \subseteq DOMAIN length
  BY <1>4 DEF Headers
<1> QED BY <1>1, <1>2, <1>3, <1>4, <1>5, TakeInv

\* A growing step takes a block of new pages.
Grown(page, lengths, bytes) ==
  /\ page \notin Headers
  /\ Tiles(lengths, mapped')
  /\ DOMAIN lengths = Headers \cup {page}
  /\ \A b \in Headers : lengths[b] = length[b]
  /\ lengths[page] >= bytes
  /\ Take(page, bytes, lengths, freeList \cup {page})

LEMMA Growing ==
  ASSUME HeapInv, NEW bytes \in Nat, AllocGrows(bytes)
  PROVE  \E page, lengths : Grown(page, lengths, bytes)
<1> DEFINE total == TotalSize(bytes)
           lens(page) == [b \in Headers \cup {page} |->
                            IF b = page THEN total - HeaderSize ELSE length[b]]
<1>1. PICK page \in 0..HeapEnd :
        /\ \A byte \in mapped : byte < page
        /\ page + total <= HeapEnd
        /\ mapped' = mapped \cup page..(page + total - 1)
        /\ Take(page, bytes, lens(page), freeList \cup {page})
  BY DEF AllocGrows
<1>2. total \in Nat /\ total >= bytes + HeaderSize /\ total >= HeaderSize
  BY TotalSizeCovers, HeapAssumption
<1> HIDE DEF total
<1>3. Tiles(lens(page), mapped') /\ page \notin Headers
  BY <1>1, <1>2, GrowTiles DEF HeapInv
<1>4. /\ DOMAIN lens(page) = Headers \cup {page}
      /\ \A b \in Headers : lens(page)[b] = length[b]
      /\ lens(page)[page] = total - HeaderSize
  BY <1>3
<1>5. lens(page)[page] >= bytes
  BY <1>2, <1>4, HeapAssumption
<1> HIDE DEF lens
<1>6. Grown(page, lens(page), bytes)
  BY <1>1, <1>3, <1>4, <1>5 DEF Grown
<1> QED BY <1>6

LEMMA AllocGrowsInv ==
  ASSUME HeapInv, NEW bytes \in Nat, AllocGrows(bytes)
  PROVE  HeapInv'
<1>1. PICK page, lengths : Grown(page, lengths, bytes)
  BY Growing
<1>2. used \subseteq Headers /\ freeList \subseteq Headers /\ used \cap freeList = {}
  BY DEF HeapInv
<1> QED BY <1>1, <1>2, TakeInv DEF Grown

LEMMA FreeInv ==
  ASSUME HeapInv, NEW h \in used, Free(h)
  PROVE  HeapInv'
<1> DEFINE list == Listed(h)
<1>1. /\ HeapTypeOK /\ Tiles(length, mapped) /\ mapped' = mapped
      /\ used \subseteq Headers /\ freeList \subseteq Headers /\ used \cap freeList = {}
      /\ asked \in [used -> Nat] /\ \A b \in used : asked[b] <= length[b]
  BY InvTypes DEF HeapInv, Free
<1>2. list \in SUBSET Headers /\ list \subseteq freeList \cup {h}
  BY <1>1 DEF Listed
<1>3. /\ used' = used \ {h}
      /\ asked' = [b \in used \ {h} |-> asked[b]]
      /\ MallocMerge(list)
  BY DEF Free
<1> HIDE DEF list
<1>4. Tiles(length', mapped')
  BY <1>1, <1>2, <1>3, MergeTiles
<1>5. /\ Headers' = Headers \ Absorbed(list)
      /\ freeList' = list \ Absorbed(list)
      /\ Absorbed(list) \subseteq list
      /\ \A b \in Headers \ list : length'[b] = length[b]
  BY <1>3 DEF MallocMerge, Headers, Absorbed
<1>6. used' \cap list = {}
  BY <1>1, <1>2, <1>3
<1>7. used' \subseteq Headers' /\ freeList' \subseteq Headers' /\ used' \cap freeList' = {}
  BY <1>1, <1>2, <1>3, <1>5, <1>6
<1>8. asked' \in [used' -> Nat] /\ \A b \in used' : asked'[b] <= length'[b]
  BY <1>1, <1>3, <1>5, <1>6
<1> QED BY <1>4, <1>7, <1>8 DEF HeapInv

\* A step of the heap, for a request of any size.
AnyStep ==
  \/ \E bytes \in Nat : AllocFits(bytes) \/ AllocGrows(bytes)
  \/ \E h \in used : Free(h)

LEMMA RequestsAny == HeapNext => AnyStep
BY HeapAssumption DEF HeapNext, AnyStep

LEMMA HeapNextInv == HeapInv /\ [AnyStep]_heapVars => HeapInv'
<1> SUFFICES ASSUME HeapInv, [AnyStep]_heapVars PROVE HeapInv'
  OBVIOUS
<1>1. ASSUME NEW bytes \in Nat, AllocFits(bytes) PROVE HeapInv'
  BY <1>1, AllocFitsInv
<1>2. ASSUME NEW bytes \in Nat, AllocGrows(bytes) PROVE HeapInv'
  BY <1>2, AllocGrowsInv
<1>3. ASSUME NEW h \in used, Free(h) PROVE HeapInv'
  BY <1>3, FreeInv
<1>4. CASE UNCHANGED heapVars
  BY <1>4 DEF heapVars, HeapInv, Headers
<1> QED BY <1>1, <1>2, <1>3, <1>4 DEF AnyStep

LEMMA HeapInvariant == HeapSpec => []HeapInv
BY HeapInitInv, HeapNextInv, RequestsAny, PTL DEF HeapSpec

\* The variables keep their types; in particular a block is never both in the
\* free list and in use (Memory.cpp:275, 364).
THEOREM HeapTypeCorrect == HeapSpec => []HeapTypeOK
BY HeapInvariant, InvTypes, PTL

\* However Alloc cuts and MallocMerge joins blocks, they tile the memory
\* (Memory.cpp:301-310, 345-362).
THEOREM HeapTiled == HeapSpec => []BlocksTile
BY HeapInvariant, InvTiles, PTL

-----------------------------------------------------------------------------
(* The heap implements the allocator.                                      *)

RangeOf(h) == [at |-> h + HeaderSize, size |-> asked[h]]

\* Ranges in two blocks that tile the memory have no byte in common.
LEMMA RangesDisjoint ==
  ASSUME NEW lengths, NEW bytes, Tiles(lengths, bytes),
         NEW g \in DOMAIN lengths, NEW h \in DOMAIN lengths, g # h,
         NEW m \in Nat, m <= lengths[g], NEW n \in Nat, n <= lengths[h]
  PROVE  Promise!Disjoint([at |-> g + HeaderSize, size |-> m],
                          [at |-> h + HeaderSize, size |-> n])
<1>1. /\ g \in Nat /\ lengths[g] \in Nat /\ h \in Nat /\ lengths[h] \in Nat
      /\ HeaderSize \in Nat
  BY EndOfBlock, HeapAssumption
<1>2. /\ g < h => g + HeaderSize + lengths[g] <= h
      /\ h < g => h + HeaderSize + lengths[h] <= g
  BY DEF Tiles, EndIn
<1> QED BY <1>1, <1>2 DEF Promise!Disjoint

Granted == {RangeOf(h) : h \in used}

\* Taking a block for a caller grants the caller a range.
LEMMA TakeGrants ==
  ASSUME HeapInv, HeapInv', NEW h, h \notin used, NEW bytes \in Nat,
         used' = used \cup {h},
         asked' = [b \in used \cup {h} |-> IF b = h THEN bytes ELSE asked[b]]
  PROVE  \E r \in Granted' :
           /\ r \notin Granted
           /\ \A s \in Granted : Promise!Disjoint(r, s)
           /\ Granted' = Granted \cup {r}
<1> DEFINE r == [at |-> h + HeaderSize, size |-> bytes]
<1>1. /\ \A b \in used' : b \in Nat
      /\ HeaderSize \in Nat
      /\ used' \subseteq DOMAIN length'
      /\ Tiles(length', mapped')
      /\ \A b \in used' : asked'[b] \in Nat /\ asked'[b] <= length'[b]
  <2>1. Tiles(length', mapped') /\ used' \subseteq DOMAIN length'
    BY DEF HeapInv, Headers
  <2> QED BY <2>1, EndOfBlock, HeapAssumption DEF HeapInv
<1>2. asked'[h] = bytes /\ \A b \in used : asked'[b] = asked[b]
  OBVIOUS
<1>3. Granted' = {[at |-> b + HeaderSize, size |-> asked'[b]] : b \in used'}
  BY DEF Granted, RangeOf
<1>4. Granted' = Granted \cup {r}
  BY <1>2, <1>3 DEF Granted, RangeOf
<1>5. ASSUME NEW s \in Granted PROVE Promise!Disjoint(r, s) /\ r # s
  <2>1. PICK b \in used : s = [at |-> b + HeaderSize, size |-> asked[b]]
    BY DEF Granted, RangeOf
  <2>2. Promise!Disjoint([at |-> h + HeaderSize, size |-> asked'[h]],
                         [at |-> b + HeaderSize, size |-> asked'[b]])
    BY <1>1, RangesDisjoint
  <2>3. r.at # s.at
    BY <1>1, <2>1
  <2> QED BY <1>2, <2>1, <2>2, <2>3
<1> QED BY <1>4, <1>5

LEMMA HeapInitGrants == HeapInit => Promise!Init
BY DEF HeapInit, Promise!Init

LEMMA HeapNextGrants ==
  HeapInv /\ HeapInv' /\ [AnyStep]_heapVars => [Promise!Next]_Granted
<1> SUFFICES ASSUME HeapInv, HeapInv', [AnyStep]_heapVars
             PROVE  Promise!Next \/ Granted' = Granted
  OBVIOUS
<1>1. used \subseteq Headers /\ used \cap freeList = {}
  BY DEF HeapInv
<1>2. ASSUME NEW h, h \notin used, NEW bytes \in Nat, NEW lengths, NEW list,
             Take(h, bytes, lengths, list)
      PROVE  Promise!Next
  <2>1. /\ used' = used \cup {h}
        /\ asked' = [b \in used \cup {h} |-> IF b = h THEN bytes ELSE asked[b]]
    BY <1>2 DEF Take
  <2>2. \E r \in Granted' :
           /\ r \notin Granted
           /\ \A s \in Granted : Promise!Disjoint(r, s)
           /\ Granted' = Granted \cup {r}
    BY <1>2, <2>1, TakeGrants
  <2> QED BY <2>2 DEF Promise!Next, Promise!Grant, Granted, RangeOf
<1>3. ASSUME NEW bytes \in Nat, AllocFits(bytes) PROVE Promise!Next
  <2>1. PICK h \in freeList : Take(h, bytes, length, freeList)
    BY <1>3 DEF AllocFits, Fits
  <2> QED BY <1>1, <1>2, <2>1, HeapAssumption
<1>4. ASSUME NEW bytes \in Nat, AllocGrows(bytes) PROVE Promise!Next
  <2>1. PICK page, lengths : Grown(page, lengths, bytes)
    BY <1>4, Growing
  <2>2. page \notin used /\ Take(page, bytes, lengths, freeList \cup {page})
    BY <1>1, <2>1 DEF Grown
  <2> QED BY <1>2, <2>2
<1>5. ASSUME NEW h \in used, Free(h) PROVE Promise!Next
  <2>1. used' = used \ {h} /\ \A b \in used' : asked'[b] = asked[b]
    BY <1>5 DEF Free
  <2>2. Granted' = {[at |-> b + HeaderSize, size |-> asked[b]] : b \in used \ {h}}
    BY <2>1 DEF Granted, RangeOf
  <2>3. \A b \in used : b \in Nat /\ HeaderSize \in Nat
    BY <1>1, HeapAssumption DEF HeapInv, Tiles, Headers
  <2>4. \A b \in used \ {h} : RangeOf(b).at # RangeOf(h).at
    BY <2>3 DEF RangeOf
  <2>5. Granted' = Granted \ {RangeOf(h)} /\ RangeOf(h) \in Granted
    BY <2>2, <2>4 DEF Granted, RangeOf
  <2> QED BY <2>5 DEF Promise!Next, Promise!Release, Granted, RangeOf
<1>6. CASE UNCHANGED heapVars
  BY <1>6 DEF heapVars, Granted, RangeOf
<1> QED BY <1>3, <1>4, <1>5, <1>6 DEF AnyStep

\* The heap keeps the promise of an allocator: what Alloc returns belongs to its
\* caller alone until Free (Memory.cpp:275-364).
THEOREM AllocatorImplemented == HeapSpec => ImplementsAllocator
<1>1. Granted = {[at |-> h + HeaderSize, size |-> asked[h]] : h \in used}
  BY DEF Granted, RangeOf
<1>2. HeapInv /\ HeapInv' /\ [HeapNext]_heapVars =>
        [Promise!Next]_{[at |-> h + HeaderSize, size |-> asked[h]] : h \in used}
  BY HeapNextGrants, RequestsAny DEF Granted, RangeOf
<1> QED BY HeapInitGrants, <1>2, HeapInvariant, PTL
        DEF HeapSpec, ImplementsAllocator, Promise!Spec

Cells == Values \cup {Unset}

-----------------------------------------------------------------------------
(* What Remove leaves.                                                     *)

\* The places that are kept, numbered in their order.
LEMMA Numbered ==
  ASSUME NEW m \in Nat, NEW K \in SUBSET (1..m)
  PROVE  /\ Cardinality(K) \in Nat /\ Cardinality(K) <= m
         /\ \A i, j \in K : i < j => Cardinality(UpTo(K, i)) < Cardinality(UpTo(K, j))
         /\ \A k \in 1..Cardinality(K) : \E i \in K : Cardinality(UpTo(K, i)) = k
<1> DEFINE n == Cardinality(K)
           rank == [i \in K |-> Cardinality(UpTo(K, i))]
<1>1. IsFiniteSet(1..m) /\ Cardinality(1..m) = m
  <2>1. \A q \in Nat : IsFiniteSet(1..q) /\ Cardinality(1..q) = q
    BY FS_Interval, SMTT(20)
  <2>2. QED
    BY <2>1
<1>2. IsFiniteSet(K) /\ n <= m /\ n \in Nat
  BY <1>1, FS_Subset, FS_CardinalityType
<1>3. ASSUME NEW i \in K
      PROVE  /\ UpTo(K, i) \in SUBSET K /\ i \in UpTo(K, i)
             /\ IsFiniteSet(UpTo(K, i)) /\ Cardinality(UpTo(K, i)) \in 1..n
  <2>1. UpTo(K, i) \in SUBSET K /\ i \in UpTo(K, i)
    BY DEF UpTo
  <2>2. IsFiniteSet(UpTo(K, i)) /\ Cardinality(UpTo(K, i)) <= n
    BY <1>2, <2>1, FS_Subset
  <2>3. Cardinality(UpTo(K, i)) \in Nat /\ Cardinality(UpTo(K, i)) # 0
    BY <2>1, <2>2, FS_CardinalityType, FS_EmptySet
  <2>4. QED
    BY <1>2, <2>1, <2>2, <2>3
<1>4. ASSUME NEW i \in K, NEW j \in K, i < j
      PROVE  Cardinality(UpTo(K, i)) < Cardinality(UpTo(K, j))
  <2>1. \A x \in K : x \in Nat
    OBVIOUS
  <2>2. UpTo(K, i) \in SUBSET UpTo(K, j) /\ j \notin UpTo(K, i)
    <3>1. \A x \in K : x <= i => x <= j
      BY <1>4, <2>1
    <3>2. ~(j <= i)
      BY <1>4, <2>1
    <3>3. QED
      BY <3>1, <3>2 DEF UpTo
  <2>3. /\ Cardinality(UpTo(K, i)) <= Cardinality(UpTo(K, j))
        /\ Cardinality(UpTo(K, j)) = Cardinality(UpTo(K, i)) => UpTo(K, j) = UpTo(K, i)
    BY <1>3, <2>2, FS_Subset
  <2>4. UpTo(K, j) # UpTo(K, i)
    BY <1>3, <2>2
  <2>5. Cardinality(UpTo(K, i)) \in Nat /\ Cardinality(UpTo(K, j)) \in Nat
    BY <1>3, <1>2
  <2>6. QED
    BY <2>3, <2>4, <2>5
<1>5. rank \in [K -> 1..n]
  BY <1>3
<1>6. \A i, j \in K : rank[i] = rank[j] => i = j
  <2>1. ASSUME NEW i \in K, NEW j \in K, i # j PROVE rank[i] # rank[j]
    <3>1. i < j \/ j < i
      BY <2>1
    <3>2. QED
      BY <1>3, <1>4, <3>1
  <2>2. QED
    BY <2>1
<1>7. rank \in Injection(K, 1..n)
  BY <1>5, <1>6 DEF Injection, IsInjective
<1>8. IsFiniteSet(1..n) /\ Cardinality(1..n) = n
  <2>1. \A q \in Nat : IsFiniteSet(1..q) /\ Cardinality(1..q) = q
    BY FS_Interval, SMTT(20)
  <2>2. QED
    BY <1>2, <2>1
<1>9. rank \in Surjection(K, 1..n)
  BY <1>7, <1>8, FS_Injection
<1>10. ASSUME NEW k \in 1..n PROVE \E i \in K : Cardinality(UpTo(K, i)) = k
  BY <1>9 DEF Surjection
<1>11. QED
  BY <1>2, <1>4, <1>10

\* In r are the elements of s that are not v, in their order.
Picked(s, v, r) ==
  LET kept == {i \in DOMAIN s : s[i] # v}
  IN \E at \in [1..Cardinality(kept) -> kept] :
       /\ \A j, k \in DOMAIN at : j < k => at[j] < at[k]
       /\ r = [k \in DOMAIN at |-> s[at[k]]]

\* What Remove leaves is what the abstract RemoveAll says of it.
LEMMA Remains ==
  ASSUME NEW m \in Nat, NEW S, NEW s \in [1..m -> S], NEW v
  PROVE  /\ Without(s, v) \in Seq(S) /\ Len(Without(s, v)) <= m
         /\ Picked(s, v, Without(s, v))
<1> DEFINE K == Kept(s, v)
           n == Cardinality(K)
           at == [k \in 1..n |-> CHOOSE i \in K : Cardinality(UpTo(K, i)) = k]
<1>1. K \in SUBSET (1..m) /\ K = {i \in DOMAIN s : s[i] # v}
  BY DEF Kept
<1>2. Without(s, v) = [k \in 1..n |-> s[CHOOSE i \in K : Cardinality(UpTo(K, i)) = k]]
  BY DEF Without
<1> HIDE DEF K
<1>3. /\ n \in Nat /\ n <= m
      /\ \A i, j \in K : i < j => Cardinality(UpTo(K, i)) < Cardinality(UpTo(K, j))
      /\ \A k \in 1..n : \E i \in K : Cardinality(UpTo(K, i)) = k
  BY <1>1, Numbered
<1> HIDE DEF n
<1>4. \A k \in 1..n : at[k] \in K /\ Cardinality(UpTo(K, at[k])) = k
  BY <1>3
<1>5. at \in [1..n -> K]
  BY <1>4
<1>6. ASSUME NEW j \in 1..n, NEW k \in 1..n, j < k PROVE at[j] < at[k]
  <2>1. /\ at[j] \in K /\ Cardinality(UpTo(K, at[j])) = j
        /\ at[k] \in K /\ Cardinality(UpTo(K, at[k])) = k
    BY <1>4
  <2> HIDE DEF at
  <2>2. at[j] \in Nat /\ at[k] \in Nat
    BY <1>1, <2>1
  <2>3. at[k] < at[j] => k < j
    BY <1>3, <2>1
  <2>4. at[k] # at[j]
    BY <1>6, <2>1
  <2>5. QED
    BY <1>6, <2>2, <2>3, <2>4
<1>7. Without(s, v) = [k \in 1..n |-> s[at[k]]]
  BY <1>2
<1> HIDE DEF at
<1>8. \A k \in 1..n : s[at[k]] \in S
  BY <1>1, <1>5
<1>9. Without(s, v) \in Seq(S) /\ Len(Without(s, v)) = n
  BY <1>3, <1>7, <1>8, LenProperties
<1>10. Picked(s, v, Without(s, v))
  BY <1>1, <1>5, <1>6, <1>7 DEF Picked, n
<1>11. QED
  BY <1>3, <1>9, <1>10

-----------------------------------------------------------------------------
(* The cells of an array.                                                  *)

LEMMA FilledCells ==
  ASSUME NEW s \in Seq(Cells), NEW n \in Nat, Len(s) <= n
  PROVE  /\ Filled(s, n) \in Seq(Cells) /\ Len(Filled(s, n)) = n
         /\ \A i \in 1..Len(s) : Filled(s, n)[i] = s[i]
<1> DEFINE r == Stale(n - Len(s))
<1>1. Len(s) \in Nat /\ n - Len(s) \in Nat
  BY LenProperties
<1>2. r \in Seq(Cells) /\ Len(r) = n - Len(s)
  <2>1. \A q \in Nat : Stale(q) \in Seq(Cells) /\ Len(Stale(q)) = q
    BY DEF Stale, Cells
  <2>2. QED
    BY <1>1, <2>1
<1> HIDE DEF r
<1>3. /\ s \o r \in Seq(Cells) /\ Len(s \o r) = Len(s) + Len(r)
      /\ \A i \in 1..(Len(s) + Len(r)) : (s \o r)[i] = IF i <= Len(s) THEN s[i] ELSE r[i - Len(s)]
  BY <1>2, ConcatProperties
<1>4. QED
  BY <1>1, <1>2, <1>3 DEF Filled, r

-----------------------------------------------------------------------------
(* The inductive invariant.                                                *)

\* An array's fields fit the block with its cells.
FieldsOK ==
  /\ data \in [Arrays -> Nat \cup {Null}]
  /\ size \in [Arrays -> Nat] /\ capacity \in [Arrays -> Nat]
  /\ cells = [h \in DOMAIN cells |-> cells[h]]
  /\ \A a \in Arrays : data[a] = Null => size[a] = 0
  /\ \A a \in Arrays : data[a] # Null =>
       /\ size[a] <= capacity[a] /\ data[a] \in DOMAIN cells
       /\ cells[data[a]] \in Seq(Cells) /\ Len(cells[data[a]]) = capacity[a]

\* The block that Resize has still to give back.
Old == IF call.op = "resized" THEN {call.old} \ {Null} ELSE {}

OneOwner == \A a, b \in Arrays : data[a] # Null /\ data[a] = data[b] => a = b

OwnersOK ==
  /\ used = Blocks \cup others \cup Old
  /\ Blocks \cap (others \cup Old) = {} /\ others \cap Old = {}
  /\ OneOwner
  /\ \A a \in Arrays : data[a] # Null => capacity[a] <= asked[data[a]]

ResizedCalls == [op: {"resized"}, a: Arrays, i: Nat, v: Values, old: Nat \cup {Null}]
AssignCalls == [op: {"assign"}, a: Arrays, b: Arrays]

\* What a call that is half done will find.
CallOK ==
  /\ call \in {NoCall, Stopped} \cup ResizedCalls \cup AssignCalls
  /\ call.op = "resized" =>
       /\ data[call.a] # Null
       /\ call.i \in 1..(size[call.a] + 1) /\ size[call.a] < capacity[call.a]
  /\ call.op = "assign" => data[call.a] = Null /\ size[call.b] > 0

ArrayInv == HeapInv /\ FieldsOK /\ OwnersOK /\ CallOK

Contents == [a \in Arrays |-> Content(a)]

LEMMA OwnersFollow == ArrayInv => DataOwned
<1> SUFFICES ASSUME ArrayInv PROVE DataOwned
  OBVIOUS
<1>1. /\ used = Blocks \cup others \cup Old
      /\ Blocks \cap (others \cup Old) = {} /\ others \cap Old = {}
  BY DEF ArrayInv, OwnersOK
<1>2. ASSUME NEW a \in Arrays, data[a] # Null
      PROVE  /\ \A b \in Arrays : data[b] = data[a] => b = a
             /\ size[a] <= capacity[a] /\ capacity[a] <= asked[data[a]]
             /\ Len(cells[data[a]]) = capacity[a]
  BY <1>2 DEF ArrayInv, OwnersOK, OneOwner, FieldsOK
<1>3. QED
  BY <1>1, <1>2 DEF DataOwned, Old

LEMMA ContentType ==
  ASSUME FieldsOK, NEW a \in Arrays
  PROVE  /\ Content(a) \in Seq(Cells) /\ Len(Content(a)) = size[a] /\ size[a] \in Nat
         /\ Content(a) \in [1..size[a] -> Cells]
         /\ Contents[a] = Content(a)
<1>1. size[a] \in Nat /\ capacity[a] \in Nat
  BY DEF FieldsOK
<1>2. ASSUME NEW i \in 1..size[a] PROVE cells[data[a]][i] \in Cells
  <2>1. data[a] # Null
    BY <1>1 DEF FieldsOK
  <2>2. /\ cells[data[a]] \in Seq(Cells) /\ Len(cells[data[a]]) = capacity[a]
        /\ size[a] <= capacity[a]
    BY <2>1 DEF FieldsOK
  <2>3. i \in 1..Len(cells[data[a]])
    BY <1>1, <2>2
  <2>4. QED
    BY <2>2, <2>3, ElementOfSeq
<1>3. Content(a) \in [1..size[a] -> Cells]
  BY <1>2 DEF Content
<1>4. Content(a) \in Seq(Cells) /\ Len(Content(a)) = size[a]
  BY <1>1, <1>3, LenProperties
<1>5. QED
  BY <1>1, <1>3, <1>4 DEF Contents

-----------------------------------------------------------------------------
(* One array changes.                                                      *)

\* The block at is filled, and those of the other arrays are kept.
Placed(a, at, s, n) ==
  /\ cells' = [h \in DOMAIN cells' |-> cells'[h]]
  /\ at # Null => at \in DOMAIN cells' /\ cells'[at] = Filled(s, n)
  /\ \A b \in Arrays \ {a} : data[b] # Null =>
       data[b] \in DOMAIN cells' /\ cells'[data[b]] = cells[data[b]]

LEMMA FieldsMove ==
  ASSUME FieldsOK, NEW a \in Arrays, NEW at \in Nat \cup {Null},
         NEW s \in Seq(Cells), NEW n \in Nat, Len(s) <= n, at = Null => s = <<>>,
         Becomes(a, at, s, n), Placed(a, at, s, n)
  PROVE  FieldsOK' /\ Contents' = [Contents EXCEPT ![a] = s]
<1>1. /\ data \in [Arrays -> Nat \cup {Null}]
      /\ size \in [Arrays -> Nat] /\ capacity \in [Arrays -> Nat]
      /\ data' = [data EXCEPT ![a] = at] /\ size' = [size EXCEPT ![a] = Len(s)]
      /\ capacity' = [capacity EXCEPT ![a] = n]
      /\ Len(s) \in Nat
  BY LenProperties DEF FieldsOK, Becomes
<1>2. /\ data' \in [Arrays -> Nat \cup {Null}]
      /\ size' \in [Arrays -> Nat] /\ capacity' \in [Arrays -> Nat]
      /\ data'[a] = at /\ size'[a] = Len(s) /\ capacity'[a] = n
      /\ \A b \in Arrays \ {a} : /\ data'[b] = data[b] /\ size'[b] = size[b]
                                 /\ capacity'[b] = capacity[b]
  BY <1>1
<1>3. /\ Filled(s, n) \in Seq(Cells) /\ Len(Filled(s, n)) = n
      /\ \A i \in 1..Len(s) : Filled(s, n)[i] = s[i]
  BY FilledCells
<1>4. ASSUME NEW b \in Arrays, data'[b] = Null PROVE size'[b] = 0
  <2>1. CASE b = a
    BY <1>2, <1>4, <2>1
  <2>2. CASE b # a
    BY <1>2, <1>4, <2>2 DEF FieldsOK
  <2>3. QED
    BY <2>1, <2>2
<1>5. ASSUME NEW b \in Arrays, data'[b] # Null
      PROVE  /\ size'[b] <= capacity'[b] /\ data'[b] \in DOMAIN cells'
             /\ cells'[data'[b]] \in Seq(Cells) /\ Len(cells'[data'[b]]) = capacity'[b]
  <2>1. CASE b = a
    BY <1>2, <1>3, <1>5, <2>1 DEF Placed
  <2>2. CASE b # a
    BY <1>2, <1>5, <2>2 DEF Placed, FieldsOK
  <2>3. QED
    BY <2>1, <2>2
<1>6. FieldsOK'
  BY <1>2, <1>4, <1>5 DEF FieldsOK, Placed
<1>7. Content(a)' = s
  <2>1. Content(a)' = [i \in 1..Len(s) |-> cells'[at][i]]
    BY <1>2 DEF Content
  <2>2. ASSUME NEW i \in 1..Len(s) PROVE cells'[at][i] = s[i]
    <3>1. at # Null
      BY <1>1
    <3>2. QED
      BY <1>3, <3>1 DEF Placed
  <2>3. s = [i \in 1..Len(s) |-> s[i]]
    BY LenProperties
  <2>4. QED
    BY <2>1, <2>2, <2>3
<1>8. ASSUME NEW b \in Arrays, b # a PROVE Content(b)' = Content(b)
  <2>1. Content(b)' = [i \in 1..size[b] |-> cells'[data[b]][i]]
    BY <1>2, <1>8 DEF Content
  <2>2. CASE data[b] = Null
    <3>1. 1..size[b] = {}
      BY <2>2 DEF FieldsOK
    <3>2. QED
      BY <2>1, <3>1 DEF Content
  <2>3. CASE data[b] # Null
    BY <1>8, <2>1, <2>3 DEF Content, Placed
  <2>4. QED
    BY <2>2, <2>3
<1>9. QED
  BY <1>6, <1>7, <1>8 DEF Contents

LEMMA ChangesPlaced ==
  ASSUME FieldsOK, OneOwner, NEW a \in Arrays, NEW s, Changes(a, s)
  PROVE  Becomes(a, data[a], s, capacity[a]) /\ Placed(a, data[a], s, capacity[a])
<1>1. CASE data[a] = Null
  BY <1>1 DEF Changes, Placed, FieldsOK
<1>2. CASE data[a] # Null
  <2>1. cells' = [cells EXCEPT ![data[a]] = Filled(s, capacity[a])]
    BY <1>2 DEF Changes
  <2>2. data[a] \in DOMAIN cells /\ cells = [h \in DOMAIN cells |-> cells[h]]
    BY <1>2 DEF FieldsOK
  <2>3. \A b \in Arrays \ {a} : data[b] # Null => data[b] \in DOMAIN cells /\ data[b] # data[a]
    BY DEF FieldsOK, OneOwner
  <2>4. QED
    BY <2>1, <2>2, <2>3 DEF Changes, Placed
<1>3. QED
  BY <1>1, <1>2

LEMMA StoresPlaced ==
  ASSUME NEW a \in Arrays, NEW at, NEW s, NEW n, Stores(a, at, s, n),
         at # Null => \A b \in Arrays \ {a} : data[b] # at
  PROVE  Placed(a, at, s, n)
<1> DEFINE kept == ({data[b] : b \in Arrays \ {a}} \cup {at}) \ {Null}
<1>1. cells' = [h \in kept |-> IF h = at THEN Filled(s, n) ELSE cells[h]]
  BY DEF Stores
<1>2. at # Null => at \in kept
  OBVIOUS
<1>3. \A b \in Arrays \ {a} : data[b] # Null => data[b] \in kept /\ data[b] # at
  OBVIOUS
<1> HIDE DEF kept
<1>4. QED
  BY <1>1, <1>2, <1>3 DEF Placed

LEMMA BlocksMove ==
  ASSUME FieldsOK, OneOwner, NEW a \in Arrays, NEW at \in Nat \cup {Null},
         data' = [data EXCEPT ![a] = at], at # Null => at \notin Blocks \ {data[a]}
  PROVE  /\ Blocks' = (Blocks \ {data[a]}) \cup ({at} \ {Null})
         /\ OneOwner'
<1>1. /\ data \in [Arrays -> Nat \cup {Null}]
      /\ data'[a] = at /\ \A b \in Arrays \ {a} : data'[b] = data[b]
  BY DEF FieldsOK
<1>2. Blocks' = {data'[b] : b \in Arrays} \ {Null}
  BY DEF Blocks
<1>3. \A b \in Arrays \ {a} : data[b] # Null => data[b] \in Blocks \ {data[a]}
  BY DEF Blocks, OneOwner
<1>4. ASSUME NEW h \in Blocks \ {data[a]} PROVE h \in Blocks'
  <2>1. PICK b \in Arrays : h = data[b] /\ h # Null
    BY <1>4 DEF Blocks
  <2>2. QED
    BY <1>1, <1>2, <1>4, <2>1
<1>5. ASSUME NEW h \in Blocks' PROVE h \in (Blocks \ {data[a]}) \cup ({at} \ {Null})
  <2>1. PICK b \in Arrays : h = data'[b] /\ h # Null
    BY <1>2
  <2>2. QED
    BY <1>1, <1>3, <2>1
<1>6. {at} \ {Null} \subseteq Blocks'
  BY <1>1, <1>2
<1>7. Blocks' = (Blocks \ {data[a]}) \cup ({at} \ {Null})
  BY <1>4, <1>5, <1>6
<1>8. ASSUME NEW b \in Arrays, NEW d \in Arrays, data'[b] # Null, data'[b] = data'[d] PROVE b = d
  <2>1. CASE b # a /\ d # a
    BY <1>1, <1>8, <2>1 DEF OneOwner
  <2>2. CASE b = a \/ d = a
    BY <1>1, <1>3, <1>8, <2>2
  <2>3. QED
    BY <2>1, <2>2
<1>9. QED
  BY <1>7, <1>8 DEF OneOwner

LEMMA OwnersMove ==
  ASSUME FieldsOK, OwnersOK, NEW a \in Arrays, NEW at \in Nat \cup {Null}, NEW s, NEW n,
         Becomes(a, at, s, n), at # Null => at \notin Blocks \ {data[a]},
         used' = Blocks' \cup others' \cup Old',
         Blocks' \cap (others' \cup Old') = {}, others' \cap Old' = {},
         \A h \in Blocks \ {data[a]} : asked'[h] = asked[h],
         at # Null => n <= asked'[at]
  PROVE  OwnersOK'
<1>1. /\ data' = [data EXCEPT ![a] = at] /\ capacity' = [capacity EXCEPT ![a] = n]
      /\ data \in [Arrays -> Nat \cup {Null}] /\ capacity \in [Arrays -> Nat]
      /\ OneOwner
  BY DEF Becomes, FieldsOK, OwnersOK
<1>2. OneOwner'
  BY <1>1, BlocksMove
<1>3. ASSUME NEW b \in Arrays, data'[b] # Null PROVE capacity'[b] <= asked'[data'[b]]
  <2>1. CASE b = a
    BY <1>1, <1>3, <2>1
  <2>2. CASE b # a
    <3>1. data'[b] = data[b] /\ capacity'[b] = capacity[b]
      BY <1>1, <2>2
    <3>2. data[b] \in Blocks \ {data[a]}
      BY <1>1, <1>3, <2>2, <3>1 DEF Blocks, OneOwner
    <3>3. QED
      BY <1>3, <3>1, <3>2 DEF OwnersOK
  <2>3. QED
    BY <2>1, <2>2
<1>4. QED
  BY <1>2, <1>3 DEF OwnersOK

-----------------------------------------------------------------------------
(* The heap's calls.                                                       *)

LEMMA AllocGives ==
  ASSUME HeapInv, NEW bytes \in Nat, Alloc(bytes)
  PROVE  /\ HeapInv' /\ New \notin used /\ New \in Nat /\ used' = used \cup {New}
         /\ asked'[New] = bytes /\ \A h \in used : asked'[h] = asked[h]
<1>1. used \subseteq Headers /\ freeList \subseteq Headers /\ used \cap freeList = {}
  BY DEF HeapInv
<1>2. HeapInv'
  BY AllocFitsInv, AllocGrowsInv DEF Alloc
<1>3. \E h : /\ h \notin used /\ used' = used \cup {h}
             /\ asked' = [b \in used \cup {h} |-> IF b = h THEN bytes ELSE asked[b]]
  <2>1. CASE AllocFits(bytes)
    <3>1. PICK h \in freeList : Take(h, bytes, length, freeList)
      BY <2>1 DEF AllocFits, Fits
    <3>2. QED
      BY <1>1, <3>1 DEF Take
  <2>2. CASE AllocGrows(bytes)
    <3>1. PICK page, lengths : Grown(page, lengths, bytes)
      BY <2>2, Growing
    <3>2. page \notin used /\ Take(page, bytes, lengths, freeList \cup {page})
      BY <1>1, <3>1 DEF Grown
    <3>3. QED
      BY <3>2 DEF Take
  <2>3. QED
    BY <2>1, <2>2 DEF Alloc
<1>4. PICK h : /\ h \notin used /\ used' = used \cup {h}
               /\ asked' = [b \in used \cup {h} |-> IF b = h THEN bytes ELSE asked[b]]
  BY <1>3
<1>5. New = h
  BY <1>4 DEF New
<1>6. h \in Nat
  BY <1>2, <1>4 DEF HeapInv, Tiles, Headers
<1>7. QED
  BY <1>2, <1>4, <1>5, <1>6

LEMMA DeleteTakes ==
  ASSUME HeapInv, NEW h \in used \cup {Null}, Delete(h)
  PROVE  /\ HeapInv' /\ used' = used \ {h}
         /\ \A g \in used' : asked'[g] = asked[g]
<1>1. used \subseteq Nat
  BY DEF HeapInv, Tiles, Headers
<1>2. CASE h = Null
  <2>1. UNCHANGED heapVars
    BY <1>2 DEF Delete
  <2>2. HeapInv'
    BY <2>1, HeapNextInv
  <2>3. Null \notin used
    BY <1>1 DEF Null
  <2>4. QED
    BY <1>2, <2>1, <2>2, <2>3 DEF heapVars
<1>3. CASE h # Null
  <2>1. h \in used /\ Free(h)
    BY <1>3 DEF Delete
  <2>2. QED
    BY <2>1, FreeInv DEF Free
<1>4. QED
  BY <1>2, <1>3

LEMMA HeapStays ==
  ASSUME HeapInv, UNCHANGED heapVars
  PROVE  HeapInv' /\ used' = used /\ asked' = asked
BY HeapNextInv DEF heapVars

-----------------------------------------------------------------------------
(* Elements put in and taken out.                                          *)

LEMMA Joined ==
  ASSUME NEW l \in Seq(Cells), NEW r \in Seq(Cells)
  PROVE  /\ Len(l) \in Nat /\ Len(r) \in Nat
         /\ l \o r \in Seq(Cells) /\ Len(l \o r) = Len(l) + Len(r)
BY ConcatProperties, LenProperties

LEMMA Inserted ==
  ASSUME NEW s \in Seq(Cells), NEW i \in 1..(Len(s) + 1), NEW v \in Cells
  PROVE  InsertAt(s, i, v) \in Seq(Cells) /\ Len(InsertAt(s, i, v)) = Len(s) + 1
<1> DEFINE l == SubSeq(s, 1, i - 1)
           x == <<v>>
           r == SubSeq(s, i, Len(s))
<1>1. Len(s) \in Nat /\ \A k \in 1..Len(s) : s[k] \in Cells
  BY LenProperties, ElementOfSeq
<1>2. l \in Seq(Cells) /\ Len(l) = i - 1
  BY <1>1, SubSeqProperties
<1>3. r \in Seq(Cells) /\ Len(r) = Len(s) + 1 - i
  BY <1>1, SubSeqProperties
<1>4. x \in Seq(Cells) /\ Len(x) = 1
  OBVIOUS
<1> HIDE DEF l, x, r
<1>5. l \o x \in Seq(Cells) /\ Len(l \o x) = Len(l) + Len(x)
  BY <1>2, <1>4, Joined
<1>6. (l \o x) \o r \in Seq(Cells) /\ Len((l \o x) \o r) = Len(l \o x) + Len(r)
  BY <1>3, <1>5, Joined
<1>7. i \in Nat
  BY <1>1
<1>8. Len((l \o x) \o r) = Len(s) + 1
  BY <1>1, <1>2, <1>3, <1>4, <1>5, <1>6, <1>7
<1>9. QED
  BY <1>6, <1>8 DEF InsertAt, l, x, r

LEMMA Removed ==
  ASSUME NEW s \in Seq(Cells), NEW i \in 1..Len(s)
  PROVE  RemoveAt(s, i) \in Seq(Cells) /\ Len(RemoveAt(s, i)) <= Len(s)
<1> DEFINE l == SubSeq(s, 1, i - 1)
           r == SubSeq(s, i + 1, Len(s))
<1>1. Len(s) \in Nat /\ \A k \in 1..Len(s) : s[k] \in Cells
  BY LenProperties, ElementOfSeq
<1>2. l \in Seq(Cells) /\ Len(l) = i - 1
  BY <1>1, SubSeqProperties
<1>3. r \in Seq(Cells) /\ Len(r) = Len(s) - i
  BY <1>1, SubSeqProperties
<1> HIDE DEF l, r
<1>4. l \o r \in Seq(Cells) /\ Len(l \o r) = Len(l) + Len(r)
  BY <1>2, <1>3, Joined
<1>5. i \in Nat
  BY <1>1
<1>6. Len(l \o r) <= Len(s)
  BY <1>1, <1>2, <1>3, <1>4, <1>5
<1>7. QED
  BY <1>4, <1>6 DEF RemoveAt, l, r

-----------------------------------------------------------------------------
(* The three ways in which an array gets its block.                        *)

LEMMA PlainChange ==
  ASSUME ArrayInv, Idle, NEW a \in Arrays, NEW s \in Seq(Cells), Len(s) <= capacity[a],
         data[a] = Null => s = <<>>, Changes(a, s), UNCHANGED <<heapVars, others, call>>
  PROVE  ArrayInv' /\ Contents' = [Contents EXCEPT ![a] = s]
<1>1. /\ FieldsOK /\ OwnersOK /\ OneOwner /\ HeapInv
      /\ data[a] \in Nat \cup {Null} /\ capacity[a] \in Nat
  BY DEF ArrayInv, OwnersOK, FieldsOK
<1>2. Becomes(a, data[a], s, capacity[a]) /\ Placed(a, data[a], s, capacity[a])
  BY <1>1, ChangesPlaced
<1>3. FieldsOK' /\ Contents' = [Contents EXCEPT ![a] = s]
  BY <1>1, <1>2, FieldsMove
<1>4. HeapInv' /\ used' = used /\ asked' = asked
  BY <1>1, HeapStays
<1>5. data' = data /\ capacity' = capacity
  BY <1>1, <1>2 DEF Becomes, FieldsOK
<1>6. OwnersOK'
  BY <1>1, <1>4, <1>5 DEF OwnersOK, OneOwner, Blocks, Old
<1>7. CallOK'
  BY DEF CallOK, Idle, NoCall
<1>8. QED
  BY <1>3, <1>4, <1>6, <1>7 DEF ArrayInv

LEMMA GetsBlock ==
  ASSUME ArrayInv, Old = {}, NEW a \in Arrays, data[a] = Null, NEW n \in Nat, Alloc(n),
         NEW s \in Seq(Cells), Len(s) <= n, Becomes(a, New, s, n), Stores(a, New, s, n),
         call' = NoCall, UNCHANGED others
  PROVE  ArrayInv' /\ Contents' = [Contents EXCEPT ![a] = s]
<1>1. FieldsOK /\ OwnersOK /\ OneOwner /\ HeapInv
  BY DEF ArrayInv, OwnersOK
<1>2. /\ HeapInv' /\ New \notin used /\ New \in Nat /\ used' = used \cup {New}
      /\ asked'[New] = n /\ \A h \in used : asked'[h] = asked[h]
  BY <1>1, AllocGives
<1>3. used = Blocks \cup others /\ Blocks \cap others = {}
  BY <1>1 DEF OwnersOK
<1> DEFINE at == New
<1>4. at \in Nat \cup {Null} /\ at # Null /\ at \notin Blocks
  BY <1>2, <1>3 DEF Null
<1> HIDE DEF at
<1>5. \A b \in Arrays \ {a} : data[b] # at
  BY <1>4 DEF Blocks
<1>6. Becomes(a, at, s, n) /\ Stores(a, at, s, n)
  BY DEF at
<1>7. Placed(a, at, s, n)
  BY <1>5, <1>6, StoresPlaced
<1>8. FieldsOK' /\ Contents' = [Contents EXCEPT ![a] = s]
  BY <1>1, <1>4, <1>6, <1>7, FieldsMove
<1>9. Blocks' = (Blocks \ {data[a]}) \cup ({at} \ {Null})
  BY <1>1, <1>4, <1>6, BlocksMove DEF Becomes
<1>10. Null \notin Blocks /\ Old' = {}
  BY DEF Blocks, Old, NoCall
<1>11. Blocks' = Blocks \cup {at}
  BY <1>4, <1>9, <1>10
<1>12. /\ used' = Blocks' \cup others' \cup Old'
       /\ Blocks' \cap (others' \cup Old') = {} /\ others' \cap Old' = {}
  BY <1>2, <1>3, <1>10, <1>11 DEF at
<1>13. \A h \in Blocks \ {data[a]} : asked'[h] = asked[h]
  BY <1>2, <1>3
<1>14. n <= asked'[at]
  BY <1>2 DEF at
<1>15. OwnersOK'
  BY <1>1, <1>4, <1>6, <1>12, <1>13, <1>14, OwnersMove
<1>16. CallOK'
  BY DEF CallOK, NoCall
<1>17. QED
  BY <1>2, <1>8, <1>15, <1>16 DEF ArrayInv

LEMMA LosesBlock ==
  ASSUME ArrayInv, Old = {}, NEW a \in Arrays, Delete(data[a]),
         Becomes(a, Null, <<>>, 0), Stores(a, Null, <<>>, 0), Old' = {}, UNCHANGED others
  PROVE  /\ HeapInv' /\ FieldsOK' /\ OwnersOK'
         /\ Contents' = [Contents EXCEPT ![a] = <<>>]
<1>1. FieldsOK /\ OwnersOK /\ OneOwner /\ HeapInv
  BY DEF ArrayInv, OwnersOK
<1>2. used = Blocks \cup others /\ Blocks \cap others = {}
  BY <1>1 DEF OwnersOK
<1>3. data[a] \in used \cup {Null}
  BY <1>2 DEF Blocks
<1>4. /\ HeapInv' /\ used' = used \ {data[a]}
      /\ \A g \in used' : asked'[g] = asked[g]
  BY <1>1, <1>3, DeleteTakes
<1>5. Placed(a, Null, <<>>, 0)
  BY StoresPlaced
<1> DEFINE e == <<>>
           z == 0
           at == Null
<1>6. e \in Seq(Cells) /\ Len(e) <= z /\ at \in Nat \cup {Null} /\ z \in Nat
  OBVIOUS
<1>7. FieldsOK' /\ Contents' = [Contents EXCEPT ![a] = e]
  <2>1. Becomes(a, at, e, z) /\ Placed(a, at, e, z) /\ (at = Null => e = <<>>)
    BY <1>5
  <2> HIDE DEF e, z, at
  <2>2. QED
    BY <1>1, <1>6, <2>1, FieldsMove
<1>8. Blocks' = Blocks \ {data[a]}
  BY <1>1, BlocksMove DEF Becomes
<1>9. data[a] \notin others
  <2>1. \A h \in others : h \in Nat
    BY <1>1, <1>2 DEF HeapInv, Tiles, Headers
  <2>2. Null \notin others
    BY <2>1 DEF Null
  <2>3. QED
    BY <1>2, <2>2 DEF Blocks
<1>10. /\ used' = Blocks' \cup others' \cup Old'
       /\ Blocks' \cap (others' \cup Old') = {} /\ others' \cap Old' = {}
  BY <1>2, <1>4, <1>8, <1>9
<1>11. \A h \in Blocks \ {data[a]} : asked'[h] = asked[h]
  BY <1>2, <1>4
<1>12. OwnersOK'
  BY <1>1, <1>6, <1>10, <1>11, OwnersMove
<1>13. QED
  BY <1>4, <1>7, <1>12

-----------------------------------------------------------------------------
(* The steps, each of which is one of the abstract sequences' or none.     *)

LEMMA FieldsStay ==
  ASSUME FieldsOK, UNCHANGED <<data, size, capacity, cells>>
  PROVE  FieldsOK' /\ Contents' = Contents /\ Blocks' = Blocks
<1>1. FieldsOK'
  BY DEF FieldsOK
<1>2. Contents' = Contents /\ Blocks' = Blocks
  BY DEF Contents, Content, Blocks
<1>3. QED
  BY <1>1, <1>2

LEMMA OthersAllocStep ==
  ASSUME ArrayInv, OthersAlloc
  PROVE  ArrayInv' /\ Contents' = Contents
<1>1. FieldsOK /\ OwnersOK /\ HeapInv /\ Old = {} /\ call = NoCall
  BY DEF ArrayInv, OthersAlloc, Idle, Old, NoCall
<1>2. FieldsOK' /\ Contents' = Contents /\ Blocks' = Blocks
  BY <1>1, FieldsStay DEF OthersAlloc
<1>3. PICK bytes \in Nat : Alloc(bytes)
  BY HeapAssumption DEF OthersAlloc
<1>4. /\ HeapInv' /\ New \notin used /\ used' = used \cup {New}
      /\ \A h \in used : asked'[h] = asked[h]
  BY <1>1, <1>3, AllocGives
<1>5. others' = others \cup {New} /\ data' = data /\ capacity' = capacity /\ call' = call
  BY DEF OthersAlloc
<1>6. Old' = {} /\ CallOK'
  BY <1>1, <1>5 DEF Old, CallOK, NoCall
<1>7. used = Blocks \cup others /\ Blocks \cap others = {}
  BY <1>1 DEF OwnersOK
<1>8. /\ used' = Blocks' \cup others' \cup Old'
      /\ Blocks' \cap (others' \cup Old') = {} /\ others' \cap Old' = {}
  BY <1>2, <1>4, <1>5, <1>6, <1>7
<1>9. ASSUME NEW a \in Arrays, data[a] # Null PROVE capacity[a] <= asked'[data[a]]
  BY <1>1, <1>4, <1>7, <1>9 DEF OwnersOK, Blocks
<1>10. OwnersOK'
  BY <1>1, <1>5, <1>8, <1>9 DEF OwnersOK, OneOwner
<1>11. QED
  BY <1>2, <1>4, <1>6, <1>10 DEF ArrayInv

LEMMA OthersFreeStep ==
  ASSUME ArrayInv, OthersFree
  PROVE  ArrayInv' /\ Contents' = Contents
<1>1. FieldsOK /\ OwnersOK /\ HeapInv /\ Old = {} /\ call = NoCall
  BY DEF ArrayInv, OthersFree, Idle, Old, NoCall
<1>2. FieldsOK' /\ Contents' = Contents /\ Blocks' = Blocks
  BY <1>1, FieldsStay DEF OthersFree
<1>3. used = Blocks \cup others /\ Blocks \cap others = {}
  BY <1>1 DEF OwnersOK
<1>4. PICK h \in others : Delete(h) /\ others' = others \ {h}
  BY DEF OthersFree
<1>5. /\ HeapInv' /\ used' = used \ {h}
      /\ \A g \in used' : asked'[g] = asked[g]
  BY <1>1, <1>3, <1>4, DeleteTakes
<1>6. data' = data /\ capacity' = capacity /\ call' = call
  BY DEF OthersFree
<1>7. Old' = {} /\ CallOK'
  BY <1>1, <1>6 DEF Old, CallOK, NoCall
<1>8. /\ used' = Blocks' \cup others' \cup Old'
      /\ Blocks' \cap (others' \cup Old') = {} /\ others' \cap Old' = {}
  BY <1>2, <1>3, <1>4, <1>5, <1>7
<1>9. ASSUME NEW a \in Arrays, data[a] # Null PROVE capacity[a] <= asked'[data[a]]
  <2>1. data[a] \in Blocks
    BY <1>9 DEF Blocks
  <2>2. data[a] \in used'
    BY <1>3, <1>4, <1>5, <2>1
  <2>3. QED
    BY <1>1, <1>5, <1>9, <2>2 DEF OwnersOK
<1>10. OwnersOK'
  BY <1>1, <1>6, <1>8, <1>9 DEF OwnersOK, OneOwner
<1>11. QED
  BY <1>2, <1>5, <1>7, <1>10 DEF ArrayInv

\* A change of an array is that of its sequence.
LEMMA SeenChange ==
  ASSUME NEW a \in Arrays, NEW s, Contents' = [Contents EXCEPT ![a] = s]
  PROVE  Seen!Change(a, s)
BY DEF Seen!Change, Contents

LEMMA InsertStep ==
  ASSUME ArrayInv, NEW a \in Arrays, NEW i \in 1..(size[a] + 1), NEW v \in Values,
         Insert(a, i, v)
  PROVE  ArrayInv' /\ (Seen!Next \/ Contents' = Contents)
<1>1. /\ FieldsOK /\ OwnersOK /\ HeapInv /\ Idle /\ call = NoCall
      /\ size[a] \in Nat /\ capacity[a] \in Nat /\ size[a] < capacity[a]
      /\ UNCHANGED <<heapVars, others>>
  BY DEF ArrayInv, Insert, Idle, FieldsOK
<1>2. CASE data[a] = Null
  <2>1. call' = Stopped /\ UNCHANGED <<data, size, capacity, cells>>
    BY <1>2 DEF Insert
  <2>2. FieldsOK' /\ Contents' = Contents /\ Blocks' = Blocks
    BY <1>1, <2>1, FieldsStay
  <2>3. HeapInv' /\ used' = used /\ asked' = asked
    BY <1>1, HeapStays
  <2>4. CallOK' /\ Old' = {} /\ Old = {}
    BY <1>1, <2>1 DEF CallOK, Old, Stopped, NoCall
  <2>5. OwnersOK'
    BY <1>1, <2>1, <2>2, <2>3, <2>4 DEF OwnersOK, OneOwner
  <2>6. QED
    BY <2>2, <2>3, <2>4, <2>5 DEF ArrayInv
<1>3. CASE data[a] # Null
  <2> DEFINE s == InsertAt(Content(a), i, v)
  <2>1. Changes(a, s) /\ UNCHANGED call
    BY <1>3 DEF Insert
  <2>2. Content(a) \in Seq(Cells) /\ Len(Content(a)) = size[a] /\ Contents[a] = Content(a)
    BY <1>1, ContentType
  <2>3. v \in Cells
    BY DEF Cells
  <2>4. s \in Seq(Cells) /\ Len(s) = size[a] + 1
    BY <2>2, <2>3, Inserted
  <2> HIDE DEF s
  <2>5. Len(s) <= capacity[a]
    BY <1>1, <2>4
  <2>6. UNCHANGED <<heapVars, others, call>>
    BY <1>1, <2>1
  <2>7. ArrayInv' /\ Contents' = [Contents EXCEPT ![a] = s]
    BY <1>1, <1>3, <2>1, <2>4, <2>5, <2>6, PlainChange
  <2>8. Seen!Change(a, InsertAt(Contents[a], i, v))
    BY <2>2, <2>7, SeenChange DEF s
  <2>9. Seen!Insert(a)
    <3>1. i \in 1..(Len(Contents[a]) + 1)
      BY <2>2
    <3>2. \E j \in 1..(Len(Contents[a]) + 1), w \in Values :
            Seen!Change(a, InsertAt(Contents[a], j, w))
      BY <2>8, <3>1
    <3>3. QED
      BY <3>2 DEF Seen!Insert, Seen!InsertAt, InsertAt, Contents
  <2>10. QED
    BY <2>7, <2>9 DEF Seen!Next
<1>4. QED
  BY <1>2, <1>3

\* Twice the room, or the first.
LEMMA Grows ==
  ASSUME FieldsOK, NEW a \in Arrays, size[a] = capacity[a]
  PROVE  NewCapacity(a) \in Nat /\ size[a] < NewCapacity(a)
<1>1. capacity[a] \in Nat
  BY DEF FieldsOK
<1>2. CASE capacity[a] > 0
  BY <1>1, <1>2 DEF NewCapacity
<1>3. CASE ~(capacity[a] > 0)
  BY <1>1, <1>3, ArrayAssumption DEF NewCapacity
<1>4. QED
  BY <1>2, <1>3

LEMMA ResizeStep ==
  ASSUME ArrayInv, NEW a \in Arrays, NEW i \in 1..(size[a] + 1), NEW v \in Values,
         Resize(a, i, v)
  PROVE  ArrayInv' /\ Contents' = Contents
<1> DEFINE at == New
           s == Content(a)
           n == NewCapacity(a)
<1>1. /\ FieldsOK /\ OwnersOK /\ OneOwner /\ HeapInv /\ Old = {}
      /\ size[a] \in Nat /\ size[a] = capacity[a] /\ UNCHANGED others
  BY DEF ArrayInv, OwnersOK, Resize, Idle, Old, NoCall, FieldsOK
<1>2. n \in Nat /\ size[a] < n
  BY <1>1, Grows
<1>3. s \in Seq(Cells) /\ Len(s) = size[a] /\ Contents[a] = s
  BY <1>1, ContentType
<1>4. /\ Alloc(n) /\ Becomes(a, at, s, n)
      /\ cells' = [h \in Blocks \cup {at} |-> IF h = at THEN Filled(s, n) ELSE cells[h]]
      /\ call' = [op |-> "resized", a |-> a, i |-> i, v |-> v, old |-> data[a]]
  BY DEF Resize
<1>5. /\ HeapInv' /\ New \notin used /\ New \in Nat /\ used' = used \cup {New}
      /\ asked'[New] = n /\ \A h \in used : asked'[h] = asked[h]
  BY <1>1, <1>2, <1>4, AllocGives
<1>6. used = Blocks \cup others /\ Blocks \cap others = {} /\ Null \notin Blocks
  BY <1>1 DEF OwnersOK, Blocks
<1>7. at \in Nat \cup {Null} /\ at # Null /\ at \notin Blocks
  BY <1>5, <1>6 DEF Null
<1>8. /\ HeapInv' /\ at \notin used /\ used' = used \cup {at}
      /\ asked'[at] = n /\ \A h \in used : asked'[h] = asked[h]
  BY <1>5
<1> HIDE DEF at, s, n
<1>9. Placed(a, at, s, n)
  <2>1. \A b \in Arrays \ {a} : data[b] # Null => data[b] \in Blocks /\ data[b] # at
    BY <1>7 DEF Blocks
  <2>2. QED
    BY <1>4, <2>1 DEF Placed
<1>10. Len(s) <= n
  BY <1>1, <1>2, <1>3
<1>11. FieldsOK' /\ Contents' = [Contents EXCEPT ![a] = s]
  BY <1>1, <1>2, <1>3, <1>4, <1>7, <1>9, <1>10, FieldsMove
<1>12. Contents' = Contents
  BY <1>3, <1>11 DEF Contents
<1>13. Blocks' = (Blocks \ {data[a]}) \cup {at}
  <2>1. Blocks' = (Blocks \ {data[a]}) \cup ({at} \ {Null})
    BY <1>1, <1>4, <1>7, BlocksMove DEF Becomes
  <2>2. QED
    BY <1>7, <2>1
<1>14. Old' = {data[a]} \ {Null} /\ data[a] \in Blocks \cup {Null}
  BY <1>4 DEF Old, Blocks
<1>15. /\ used' = Blocks' \cup others' \cup Old'
       /\ Blocks' \cap (others' \cup Old') = {} /\ others' \cap Old' = {}
  BY <1>1, <1>6, <1>7, <1>8, <1>13, <1>14
<1>16. \A h \in Blocks \ {data[a]} : asked'[h] = asked[h]
  BY <1>6, <1>8
<1>17. n <= asked'[at]
  BY <1>2, <1>8
<1>18. OwnersOK'
  BY <1>1, <1>4, <1>7, <1>15, <1>16, <1>17, OwnersMove
<1>19. CallOK'
  <2>1. data'[a] = at /\ size'[a] = Len(s) /\ capacity'[a] = n
    BY <1>1, <1>4 DEF Becomes, FieldsOK
  <2>2. i \in Nat /\ i \in 1..(size'[a] + 1) /\ size'[a] < capacity'[a]
    BY <1>1, <1>2, <1>3, <2>1
  <2>3. data[a] \in Nat \cup {Null}
    BY <1>1 DEF FieldsOK
  <2>4. call' \in ResizedCalls
    BY <1>4, <2>2, <2>3 DEF ResizedCalls
  <2>5. call'.op = "resized" /\ call'.a = a /\ call'.i = i
    BY <1>4
  <2>6. QED
    BY <1>7, <2>1, <2>2, <2>4, <2>5 DEF CallOK
<1>20. QED
  BY <1>8, <1>11, <1>12, <1>18, <1>19 DEF ArrayInv

\* The second half: the old block goes, and the element is put in.
LEMMA ResizedStep ==
  ASSUME ArrayInv, Resized
  PROVE  ArrayInv' /\ Seen!Next
<1> DEFINE a == call.a
           at == data[a]
           i == call.i
           v == call.v
           s == InsertAt(Content(a), i, v)
           n == capacity[a]
<1>1. /\ call \in ResizedCalls /\ call.op = "resized" /\ data[call.a] # Null
      /\ call.i \in 1..(size[call.a] + 1) /\ size[call.a] < capacity[call.a]
  BY DEF ArrayInv, CallOK, Resized, NoCall, Stopped, AssignCalls
<1>2. a \in Arrays /\ v \in Values /\ call.old \in Nat \cup {Null} /\ Old = {call.old} \ {Null}
  BY <1>1 DEF ResizedCalls, Old
<1>3. /\ FieldsOK /\ OwnersOK /\ OneOwner /\ HeapInv
      /\ Delete(call.old) /\ Becomes(a, at, s, n) /\ Stores(a, at, s, n)
      /\ call' = NoCall /\ UNCHANGED others
  BY DEF ArrayInv, OwnersOK, Resized
<1>4. at # Null /\ i \in 1..(size[a] + 1) /\ size[a] < n
  BY <1>1
<1> HIDE DEF a
<1>5. /\ at \in Nat \cup {Null} /\ n \in Nat /\ size[a] \in Nat
      /\ \A b \in Arrays \ {a} : data[b] # at
  BY <1>2, <1>3, <1>4 DEF FieldsOK, OneOwner
<1> HIDE DEF at, i, v, n
<1>6. Content(a) \in Seq(Cells) /\ Len(Content(a)) = size[a] /\ Contents[a] = Content(a)
  BY <1>2, <1>3, ContentType
<1>7. s \in Seq(Cells) /\ Len(s) = size[a] + 1
  <2>1. v \in Cells
    BY <1>2 DEF Cells
  <2>2. i \in 1..(Len(Content(a)) + 1)
    BY <1>4, <1>6
  <2>3. QED
    BY <1>6, <2>1, <2>2, Inserted
<1>8. Contents' = [Contents EXCEPT ![a] = s] => Seen!Next
  <2>1. i \in 1..(Len(Contents[a]) + 1)
    BY <1>4, <1>6
  <2>2. ASSUME Contents' = [Contents EXCEPT ![a] = s] PROVE Seen!Next
    <3>1. Seen!Change(a, InsertAt(Contents[a], i, v))
      BY <1>2, <1>6, <2>2, SeenChange
    <3>2. Seen!Insert(a)
      BY <1>2, <2>1, <3>1 DEF Seen!Insert, Seen!InsertAt, InsertAt, Contents
    <3>3. QED
      BY <1>2, <3>2 DEF Seen!Next
  <2>3. QED
    BY <2>2
<1> HIDE DEF s
<1>9. Len(s) <= n
  BY <1>4, <1>5, <1>7
<1>10. Placed(a, at, s, n)
  BY <1>2, <1>3, <1>5, StoresPlaced
<1>11. FieldsOK' /\ Contents' = [Contents EXCEPT ![a] = s]
  BY <1>2, <1>3, <1>4, <1>5, <1>7, <1>9, <1>10, FieldsMove
<1>12. /\ used = Blocks \cup others \cup ({call.old} \ {Null}) /\ Blocks \cap others = {}
       /\ Blocks \cap ({call.old} \ {Null}) = {} /\ others \cap ({call.old} \ {Null}) = {}
  BY <1>2, <1>3 DEF OwnersOK
<1>13. /\ HeapInv' /\ used' = used \ {call.old}
       /\ \A g \in used' : asked'[g] = asked[g]
  <2>1. call.old \in used \cup {Null}
    BY <1>12
  <2>2. QED
    BY <1>3, <2>1, DeleteTakes
<1>14. data' = data /\ capacity' = capacity
  BY <1>2, <1>3 DEF Becomes, FieldsOK, at, n
<1>15. Blocks' = Blocks /\ Old' = {} /\ CallOK'
  BY <1>3, <1>14 DEF Blocks, Old, CallOK, NoCall
<1>16. Null \notin used
  BY <1>3 DEF HeapInv, Tiles, Headers, Null
<1>17. used' = Blocks \cup others
  BY <1>12, <1>13, <1>16
<1>18. ASSUME NEW b \in Arrays, data[b] # Null PROVE capacity[b] <= asked'[data[b]]
  <2>1. data[b] \in used'
    BY <1>17, <1>18 DEF Blocks
  <2>2. QED
    BY <1>3, <1>13, <1>18, <2>1 DEF OwnersOK
<1>19. OwnersOK'
  BY <1>3, <1>12, <1>14, <1>15, <1>17, <1>18 DEF OwnersOK, OneOwner
<1>20. QED
  BY <1>8, <1>11, <1>13, <1>15, <1>19 DEF ArrayInv

LEMMA RemoveAtStep ==
  ASSUME ArrayInv, NEW a \in Arrays, NEW i, RemoveAtIndex(a, i)
  PROVE  ArrayInv' /\ Seen!Next
<1> DEFINE s == RemoveAt(Content(a), i)
<1>1. /\ FieldsOK /\ Idle /\ i \in 1..size[a] /\ Changes(a, s)
      /\ UNCHANGED <<heapVars, others, call>>
  BY DEF ArrayInv, RemoveAtIndex
<1>2. /\ Content(a) \in Seq(Cells) /\ Len(Content(a)) = size[a] /\ Contents[a] = Content(a)
      /\ size[a] \in Nat
  BY <1>1, ContentType
<1>3. data[a] # Null /\ capacity[a] \in Nat /\ size[a] <= capacity[a]
  BY <1>1, <1>2 DEF FieldsOK
<1>4. s \in Seq(Cells) /\ Len(s) <= size[a]
  BY <1>1, <1>2, Removed
<1>5. Len(s) <= capacity[a]
  BY <1>2, <1>3, <1>4, LenProperties
<1> HIDE DEF s
<1>6. ArrayInv' /\ Contents' = [Contents EXCEPT ![a] = s]
  BY <1>1, <1>3, <1>4, <1>5, PlainChange
<1>7. Seen!Change(a, RemoveAt(Contents[a], i)) /\ i \in 1..Len(Contents[a])
  BY <1>1, <1>2, <1>6, SeenChange DEF s
<1>8. Seen!RemoveOne(a)
  BY <1>7 DEF Seen!RemoveOne, Seen!RemoveAt, RemoveAt, Contents
<1>9. QED
  BY <1>6, <1>8 DEF Seen!Next

LEMMA RemoveStep ==
  ASSUME ArrayInv, NEW a \in Arrays, ArrayRemove(a)
  PROVE  ArrayInv' /\ Seen!Next
<1>1. PICK v \in Values : Changes(a, Without(Content(a), v))
  BY DEF ArrayRemove
<1> DEFINE m == size[a]
           c == Content(a)
           s == Without(c, v)
<1>2. FieldsOK /\ Idle /\ Changes(a, s) /\ UNCHANGED <<heapVars, others, call>>
  BY <1>1 DEF ArrayInv, ArrayRemove
<1>3. c \in [1..m -> Cells] /\ m \in Nat /\ Contents[a] = c
  BY <1>2, ContentType
<1> HIDE DEF c, m
<1>4. s \in Seq(Cells) /\ Len(s) <= m /\ Picked(c, v, s)
  BY <1>3, Remains
<1> HIDE DEF s
<1>5. capacity[a] \in Nat /\ Len(s) \in Nat
  BY <1>2, <1>4, LenProperties DEF FieldsOK
<1>6. m <= capacity[a] /\ (data[a] = Null => m = 0)
  BY <1>2, <1>5 DEF FieldsOK, m
<1>7. Len(s) <= capacity[a]
  BY <1>3, <1>4, <1>5, <1>6
<1>8. data[a] = Null => s = <<>>
  <2>1. data[a] = Null => Len(s) = 0
    BY <1>4, <1>5, <1>6
  <2>2. QED
    BY <1>4, <2>1, EmptySeq
<1>9. ArrayInv' /\ Contents' = [Contents EXCEPT ![a] = s]
  BY <1>2, <1>4, <1>7, <1>8, PlainChange
<1>10. Seen!RemoveAll(a)
  <2> DEFINE d == [b \in Arrays |-> Content(b)][a]
             kept == {i \in DOMAIN d : d[i] # v}
  <2>1. c = d
    BY <1>3 DEF Contents
  <2> HIDE DEF d
  <2>2. Picked(d, v, s)
    BY <1>4, <2>1
  <2>3. PICK at \in [1..Cardinality(kept) -> kept] :
          /\ \A j, k \in DOMAIN at : j < k => at[j] < at[k]
          /\ s = [k \in DOMAIN at |-> d[at[k]]]
    BY <2>2 DEF Picked
  <2>4. Seen!Change(a, [k \in DOMAIN at |-> d[at[k]]])
    BY <1>9, <2>3, SeenChange
  <2>5. \A S : Seen!Cardinality(S) = Cardinality(S)
    BY DEF Seen!Cardinality, Cardinality
  <2>6. QED
    BY <2>3, <2>4, <2>5 DEF Seen!RemoveAll, d
<1>11. QED
  BY <1>9, <1>10 DEF Seen!Next

LEMMA ClearStep ==
  ASSUME ArrayInv, NEW a \in Arrays, Clear(a)
  PROVE  ArrayInv' /\ Seen!Next
<1> DEFINE s == <<>>
<1>1. FieldsOK /\ Idle /\ Changes(a, s) /\ UNCHANGED <<heapVars, others, call>>
  BY DEF ArrayInv, Clear
<1>2. s \in Seq(Cells) /\ Len(s) <= capacity[a] /\ (data[a] = Null => s = <<>>)
  BY <1>1 DEF FieldsOK
<1> HIDE DEF s
<1>3. ArrayInv' /\ Contents' = [Contents EXCEPT ![a] = s]
  BY <1>1, <1>2, PlainChange
<1>4. Seen!Change(a, s)
  BY <1>3, SeenChange
<1>5. QED
  BY <1>3, <1>4 DEF Seen!Next, Seen!Clear, s

LEMMA SeenClear ==
  ASSUME NEW a \in Arrays, Contents' = [Contents EXCEPT ![a] = <<>>]
  PROVE  Seen!Next
BY SeenChange DEF Seen!Next, Seen!Clear

LEMMA SeenCopy ==
  ASSUME NEW a \in Arrays, NEW b \in Arrays, Contents' = [Contents EXCEPT ![a] = Contents[b]]
  PROVE  Seen!Next
BY SeenChange DEF Seen!Next, Seen!Copy, Contents

LEMMA ConstructStep ==
  ASSUME ArrayInv, NEW a \in Arrays, Construct(a)
  PROVE  ArrayInv' /\ Seen!Next
<1> DEFINE s == <<>>
           n == FirstCapacity
<1>1. /\ Old = {} /\ data[a] = Null /\ Alloc(n) /\ Becomes(a, New, s, n) /\ Stores(a, New, s, n)
      /\ call' = NoCall /\ UNCHANGED others
  BY DEF Construct, Fresh, Idle, Old, NoCall
<1>2. n \in Nat /\ s \in Seq(Cells) /\ Len(s) <= n
  BY ArrayAssumption
<1> HIDE DEF s, n
<1>3. ArrayInv' /\ Contents' = [Contents EXCEPT ![a] = s]
  BY <1>1, <1>2, GetsBlock
<1>4. QED
  BY <1>3, SeenClear DEF s

LEMMA CopyConstructStep ==
  ASSUME ArrayInv, NEW a \in Arrays, NEW b \in Arrays, CopyConstruct(a, b)
  PROVE  ArrayInv' /\ Seen!Next
<1>1. /\ FieldsOK /\ OwnersOK /\ OneOwner /\ HeapInv /\ Old = {} /\ data[a] = Null
      /\ call = NoCall /\ call' = NoCall /\ UNCHANGED others
      /\ size[b] \in Nat /\ capacity[b] \in Nat
  BY DEF ArrayInv, OwnersOK, FieldsOK, CopyConstruct, Fresh, Idle, Old, NoCall
<1>2. CASE size[b] = 0
  <2> DEFINE s == <<>>
             n == capacity[b]
             at == Null
  <2>1. Becomes(a, at, s, n) /\ UNCHANGED <<heapVars, cells>>
    BY <1>2 DEF CopyConstruct
  <2>2. /\ at \in Nat \cup {Null} /\ n \in Nat /\ s \in Seq(Cells) /\ Len(s) <= n
        /\ at = Null => s = <<>>
    BY <1>1
  <2>3. Placed(a, at, s, n)
    BY <1>1, <2>1 DEF Placed, FieldsOK
  <2>4. data' = data /\ \A d \in Arrays : data[d] # Null => capacity'[d] = capacity[d]
    BY <1>1, <2>1 DEF Becomes, FieldsOK
  <2> HIDE DEF s, n, at
  <2>5. FieldsOK' /\ Contents' = [Contents EXCEPT ![a] = s]
    BY <1>1, <2>1, <2>2, <2>3, FieldsMove
  <2>6. HeapInv' /\ used' = used /\ asked' = asked
    BY <1>1, <2>1, HeapStays
  <2>7. Blocks' = Blocks /\ Old' = {} /\ CallOK'
    BY <1>1, <2>4 DEF Blocks, Old, CallOK, NoCall
  <2>8. OwnersOK'
    BY <1>1, <2>4, <2>6, <2>7 DEF OwnersOK, OneOwner
  <2>9. Seen!Next
    BY <2>5, SeenClear DEF s
  <2>10. QED
    BY <2>5, <2>6, <2>7, <2>8, <2>9 DEF ArrayInv
<1>3. CASE size[b] # 0
  <2> DEFINE s == Content(b)
             n == capacity[b]
  <2>1. Alloc(n) /\ Becomes(a, New, s, n) /\ Stores(a, New, s, n)
    BY <1>3 DEF CopyConstruct
  <2>2. s \in Seq(Cells) /\ Len(s) = size[b] /\ Contents[b] = s
    BY <1>1, ContentType
  <2>3. n \in Nat /\ Len(s) <= n
    BY <1>1, <1>3, <2>2 DEF FieldsOK
  <2> HIDE DEF s, n
  <2>4. ArrayInv' /\ Contents' = [Contents EXCEPT ![a] = s]
    BY <1>1, <2>1, <2>2, <2>3, GetsBlock
  <2>5. QED
    BY <2>2, <2>4, SeenCopy
<1>4. QED
  BY <1>2, <1>3

LEMMA AssignStep ==
  ASSUME ArrayInv, NEW a \in Arrays, NEW b \in Arrays, Assign(a, b)
  PROVE  ArrayInv' /\ (Seen!Next \/ Contents' = Contents)
<1>1. /\ FieldsOK /\ OwnersOK /\ OneOwner /\ HeapInv /\ Idle /\ Old = {}
      /\ call = NoCall /\ UNCHANGED others
      /\ size[a] \in Nat /\ capacity[a] \in Nat /\ size[b] \in Nat
  BY DEF ArrayInv, OwnersOK, FieldsOK, Assign, Idle, Old, NoCall
<1>2. CASE data[a] # Null /\ capacity[a] < size[b]
  <2>1. /\ Delete(data[a]) /\ Becomes(a, Null, <<>>, 0) /\ Stores(a, Null, <<>>, 0)
        /\ call' = [op |-> "assign", a |-> a, b |-> b]
    BY <1>1, <1>2 DEF Assign
  <2>2. Old' = {}
    BY <2>1 DEF Old
  <2>3. /\ HeapInv' /\ FieldsOK' /\ OwnersOK'
        /\ Contents' = [Contents EXCEPT ![a] = <<>>]
    BY <1>1, <2>1, <2>2, LosesBlock
  <2>4. CallOK'
    <3>1. a # b
      BY <1>1, <1>2 DEF FieldsOK
    <3>2. data'[a] = Null /\ size'[b] = size[b] /\ size[b] > 0
      BY <1>1, <1>2, <2>1, <3>1 DEF Becomes, FieldsOK
    <3>3. call' \in AssignCalls /\ call'.op = "assign" /\ call'.a = a /\ call'.b = b
      BY <2>1 DEF AssignCalls
    <3>4. QED
      BY <3>2, <3>3 DEF CallOK
  <2>5. QED
    BY <2>3, <2>4, SeenClear DEF ArrayInv
<1>3. CASE data[a] # Null /\ capacity[a] >= size[b]
  <2> DEFINE s == IF a = b THEN <<>> ELSE Content(b)
  <2>1. Changes(a, s) /\ UNCHANGED <<heapVars, others, call>>
    BY <1>1, <1>3 DEF Assign
  <2>2. /\ Content(b) \in Seq(Cells) /\ Len(Content(b)) = size[b] /\ Contents[b] = Content(b)
    BY <1>1, ContentType
  <2>3. s \in Seq(Cells) /\ Len(s) <= capacity[a]
    BY <1>1, <1>3, <2>2
  <2>4. s = <<>> \/ s = Contents[b]
    BY <2>2
  <2> HIDE DEF s
  <2>5. ArrayInv' /\ Contents' = [Contents EXCEPT ![a] = s]
    BY <1>1, <1>3, <2>1, <2>3, PlainChange
  <2>6. QED
    BY <2>4, <2>5, SeenClear, SeenCopy
<1>4. CASE data[a] = Null
  <2>1. /\ call' = IF size[b] = 0 THEN NoCall ELSE [op |-> "assign", a |-> a, b |-> b]
        /\ UNCHANGED <<heapVars, data, size, capacity, cells>>
    BY <1>4 DEF Assign
  <2>2. FieldsOK' /\ Contents' = Contents /\ Blocks' = Blocks
    BY <1>1, <2>1, FieldsStay
  <2>3. HeapInv' /\ used' = used /\ asked' = asked
    BY <1>1, <2>1, HeapStays
  <2>4. Old' = {}
    BY <2>1 DEF Old, NoCall
  <2>5. OwnersOK'
    BY <1>1, <2>1, <2>2, <2>3, <2>4 DEF OwnersOK, OneOwner
  <2>6. CallOK'
    <3>1. CASE size[b] = 0
      BY <2>1, <3>1 DEF CallOK, NoCall
    <3>2. CASE size[b] # 0
      <4>1. call' \in AssignCalls /\ call'.op = "assign" /\ call'.a = a /\ call'.b = b
        BY <2>1, <3>2 DEF AssignCalls
      <4>2. data'[a] = Null /\ size'[b] > 0
        BY <1>1, <1>4, <2>1, <3>2
      <4>3. QED
        BY <4>1, <4>2 DEF CallOK
    <3>3. QED
      BY <3>1, <3>2
  <2>7. QED
    BY <2>2, <2>3, <2>5, <2>6 DEF ArrayInv
<1>5. QED
  BY <1>2, <1>3, <1>4 DEF Assign

LEMMA AssignedStep ==
  ASSUME ArrayInv, Assigned
  PROVE  ArrayInv' /\ Seen!Next
<1> DEFINE a == call.a
           b == call.b
           s == Content(b)
           n == capacity[b]
<1>1. /\ call \in AssignCalls /\ call.op = "assign" /\ data[call.a] = Null /\ size[call.b] > 0
  BY DEF ArrayInv, CallOK, Assigned, NoCall, Stopped, ResizedCalls
<1>2. a \in Arrays /\ b \in Arrays /\ Old = {} /\ data[a] = Null
  BY <1>1 DEF AssignCalls, Old
<1>3. /\ FieldsOK /\ Alloc(n) /\ Becomes(a, New, s, n) /\ Stores(a, New, s, n)
      /\ call' = NoCall /\ UNCHANGED others
  BY DEF ArrayInv, Assigned
<1>4. size[b] > 0
  BY <1>1
<1> HIDE DEF a, b
<1>5. s \in Seq(Cells) /\ Len(s) = size[b] /\ Contents[b] = s /\ size[b] \in Nat
  BY <1>2, <1>3, ContentType
<1>6. n \in Nat /\ Len(s) <= n
  BY <1>2, <1>3, <1>4, <1>5 DEF FieldsOK
<1> HIDE DEF s, n
<1>7. ArrayInv' /\ Contents' = [Contents EXCEPT ![a] = s]
  BY <1>2, <1>3, <1>5, <1>6, GetsBlock
<1>8. QED
  BY <1>2, <1>5, <1>7, SeenCopy

LEMMA DestroyStep ==
  ASSUME ArrayInv, NEW a \in Arrays, Destroy(a)
  PROVE  ArrayInv' /\ Seen!Next
<1>1. /\ Delete(data[a]) /\ Becomes(a, Null, <<>>, 0) /\ Stores(a, Null, <<>>, 0)
      /\ call = NoCall /\ call' = NoCall /\ UNCHANGED others /\ Old = {} /\ Old' = {}
  BY DEF Destroy, Idle, Old, NoCall
<1>2. /\ HeapInv' /\ FieldsOK' /\ OwnersOK'
      /\ Contents' = [Contents EXCEPT ![a] = <<>>]
  BY <1>1, LosesBlock
<1>3. CallOK'
  BY <1>1 DEF CallOK, NoCall
<1>4. QED
  BY <1>2, <1>3, SeenClear DEF ArrayInv

-----------------------------------------------------------------------------
LEMMA ArrayInitInv == ArrayInit => ArrayInv /\ Seen!Init
<1> SUFFICES ASSUME ArrayInit PROVE ArrayInv /\ Seen!Init
  OBVIOUS
<1>1. HeapInv /\ used = {}
  BY HeapInitInv DEF ArrayInit, HeapInit
<1>2. \A a \in Arrays : data[a] = Null /\ size[a] = 0 /\ capacity[a] = 0
  BY DEF ArrayInit
<1>3. FieldsOK
  BY <1>2 DEF ArrayInit, FieldsOK
<1>4. Blocks = {} /\ Old = {} /\ others = {}
  BY <1>2 DEF ArrayInit, Blocks, Old, NoCall
<1>5. OwnersOK
  BY <1>1, <1>2, <1>4 DEF OwnersOK, OneOwner
<1>6. CallOK
  BY DEF ArrayInit, CallOK, NoCall
<1>7. Seen!Init
  <2>1. ASSUME NEW a \in Arrays PROVE Content(a) = <<>>
    BY <1>2 DEF Content
  <2>2. QED
    BY <2>1 DEF Seen!Init
<1>8. QED
  BY <1>1, <1>3, <1>5, <1>6, <1>7 DEF ArrayInv

LEMMA ArrayStep ==
  ArrayInv /\ [ArrayNext]_arrayVars => ArrayInv' /\ (Seen!Next \/ Contents' = Contents)
<1> SUFFICES ASSUME ArrayInv, [ArrayNext]_arrayVars
             PROVE  ArrayInv' /\ (Seen!Next \/ Contents' = Contents)
  OBVIOUS
<1>1. \A a \in Arrays : size[a] \in Nat
  BY DEF ArrayInv, FieldsOK
<1>2. ASSUME NEW a \in Arrays, NEW i \in 1..(size[a] + 1), InsertAtIndex(a, i)
      PROVE  ArrayInv' /\ (Seen!Next \/ Contents' = Contents)
  <2>1. PICK v \in Values : Insert(a, i, v) \/ Resize(a, i, v)
    BY <1>2 DEF InsertAtIndex
  <2>2. QED
    BY <2>1, InsertStep, ResizeStep
<1>3. CASE OthersAlloc
  BY <1>3, OthersAllocStep
<1>4. CASE OthersFree
  BY <1>4, OthersFreeStep
<1>5. ASSUME NEW a \in Arrays, PushFront(a) \/ PushBack(a) \/ ArrayInsertAt(a)
      PROVE  ArrayInv' /\ (Seen!Next \/ Contents' = Contents)
  <2>1. PICK i \in 1..(size[a] + 1) : InsertAtIndex(a, i)
    BY <1>1, <1>5 DEF PushFront, PushBack, ArrayInsertAt
  <2>2. QED
    BY <1>2, <2>1
<1>6. ASSUME NEW a \in Arrays, PopFront(a) \/ PopBack(a) \/ ArrayRemoveAt(a)
      PROVE  ArrayInv' /\ (Seen!Next \/ Contents' = Contents)
  BY <1>6, RemoveAtStep DEF PopFront, PopBack, ArrayRemoveAt
<1>7. ASSUME NEW a \in Arrays, ArrayRemove(a) \/ Clear(a) \/ Construct(a) \/ Destroy(a)
      PROVE  ArrayInv' /\ (Seen!Next \/ Contents' = Contents)
  BY <1>7, RemoveStep, ClearStep, ConstructStep, DestroyStep
<1>8. ASSUME NEW a \in Arrays, NEW b \in Arrays, CopyConstruct(a, b) \/ Assign(a, b)
      PROVE  ArrayInv' /\ (Seen!Next \/ Contents' = Contents)
  BY <1>8, CopyConstructStep, AssignStep
<1>9. CASE Resized
  BY <1>9, ResizedStep
<1>10. CASE Assigned
  BY <1>10, AssignedStep
<1>11. CASE UNCHANGED arrayVars
  <2>1. /\ UNCHANGED heapVars /\ data' = data /\ size' = size /\ capacity' = capacity
        /\ cells' = cells /\ others' = others /\ call' = call
    BY <1>11 DEF arrayVars
  <2>2. FieldsOK /\ OwnersOK /\ CallOK /\ HeapInv
    BY DEF ArrayInv
  <2>3. FieldsOK' /\ Contents' = Contents /\ Blocks' = Blocks
    BY <2>1, <2>2, FieldsStay
  <2>4. HeapInv' /\ used' = used /\ asked' = asked
    BY <2>1, <2>2, HeapStays
  <2>5. OwnersOK' /\ CallOK'
    BY <2>1, <2>2, <2>3, <2>4 DEF OwnersOK, OneOwner, Old, CallOK
  <2>6. QED
    BY <2>3, <2>4, <2>5 DEF ArrayInv
<1>12. QED
  BY <1>3, <1>4, <1>5, <1>6, <1>7, <1>8, <1>9, <1>10, <1>11 DEF ArrayNext

LEMMA ArrayInvariant == ArraySpec => []ArrayInv
BY ArrayInitInv, ArrayStep, PTL DEF ArraySpec

\* Every block in use has one owner, an array, another caller or a call that is
\* about to give it back, and is as long as its owner takes it to be.
THEOREM ArraysOwn == ArraySpec => []DataOwned
BY ArrayInvariant, OwnersFollow, PTL

\* What the users of an array see is a sequence, which their calls change and no
\* call on another array or on the heap does.
THEOREM VectorImplemented == ArraySpec => ImplementsVector
<1>1. ArrayInit => Seen!Init
  BY ArrayInitInv
<1>2. ArrayInv /\ [ArrayNext]_arrayVars => [Seen!Next]_([a \in Arrays |-> Content(a)])
  BY ArrayStep DEF Contents
<1>3. QED
  BY <1>1, <1>2, ArrayInvariant, PTL DEF ArraySpec, ImplementsVector, Seen!Spec

-----------------------------------------------------------------------------
(* The heap below the arrays.                                              *)

\* A step of the arrays is at most one call of the heap, and gives back only
\* what is in use.
LEMMA HeapCalled == ArrayInv /\ [ArrayNext]_arrayVars => [AnyStep]_heapVars
<1> DEFINE Called == AnyStep \/ UNCHANGED heapVars
<1> SUFFICES ASSUME ArrayInv, [ArrayNext]_arrayVars PROVE Called
  OBVIOUS
<1>1. /\ \A a \in Arrays : capacity[a] \in Nat
      /\ others \subseteq used /\ Old \subseteq used /\ Blocks \subseteq used
  BY DEF ArrayInv, OwnersOK, FieldsOK
<1>2. ASSUME NEW n \in Nat, Alloc(n) PROVE Called
  BY <1>2 DEF Alloc, AnyStep
<1>3. ASSUME NEW h \in used \cup {Null}, Delete(h) PROVE Called
  BY <1>3 DEF Delete, AnyStep
<1>4. \A a \in Arrays : data[a] \in used \cup {Null}
  BY <1>1 DEF Blocks
<1> HIDE DEF Called
<1>5. CASE OthersAlloc
  BY <1>2, <1>5, HeapAssumption DEF OthersAlloc
<1>6. CASE OthersFree
  BY <1>1, <1>3, <1>6 DEF OthersFree
<1>7. ASSUME NEW a \in Arrays, NEW i, InsertAtIndex(a, i) PROVE Called
  <2>1. PICK v \in Values : Insert(a, i, v) \/ Resize(a, i, v)
    BY <1>7 DEF InsertAtIndex
  <2>2. CASE Insert(a, i, v)
    BY <2>2 DEF Insert, Called
  <2>3. CASE Resize(a, i, v)
    <3>1. NewCapacity(a) \in Nat
      BY <2>3, Grows DEF Resize, ArrayInv
    <3>2. QED
      BY <1>2, <2>3, <3>1 DEF Resize
  <2>4. QED
    BY <2>1, <2>2, <2>3
<1>8. ASSUME NEW a \in Arrays, PushFront(a) \/ PushBack(a) \/ ArrayInsertAt(a) PROVE Called
  BY <1>7, <1>8 DEF PushFront, PushBack, ArrayInsertAt
<1>9. ASSUME NEW a \in Arrays, \/ PopFront(a) \/ PopBack(a) \/ ArrayRemoveAt(a)
                                \/ ArrayRemove(a) \/ Clear(a)
      PROVE  Called
  BY <1>9 DEF PopFront, PopBack, ArrayRemoveAt, RemoveAtIndex, ArrayRemove, Clear, Called
<1>10. ASSUME NEW a \in Arrays, Construct(a) \/ Destroy(a) PROVE Called
  BY <1>2, <1>3, <1>4, <1>10, ArrayAssumption DEF Construct, Destroy
<1>11. ASSUME NEW a \in Arrays, NEW b \in Arrays, CopyConstruct(a, b) \/ Assign(a, b)
       PROVE  Called
  <2>1. CASE CopyConstruct(a, b)
    BY <1>1, <1>2, <2>1 DEF CopyConstruct, Called
  <2>2. CASE Assign(a, b)
    BY <1>3, <1>4, <2>2 DEF Assign, Called
  <2>3. QED
    BY <1>11, <2>1, <2>2
<1>12. CASE Resized
  <2>1. call.op = "resized" /\ Delete(call.old)
    BY <1>12 DEF Resized
  <2>2. call.old \in used \cup {Null}
    BY <1>1, <2>1 DEF Old
  <2>3. QED
    BY <1>3, <2>1, <2>2
<1>13. CASE Assigned
  <2>1. Alloc(capacity[call.b]) /\ call \in AssignCalls
    BY <1>13 DEF Assigned, ArrayInv, CallOK, NoCall, Stopped, ResizedCalls
  <2>2. QED
    BY <1>1, <1>2, <2>1 DEF AssignCalls
<1>14. CASE UNCHANGED arrayVars
  BY <1>14 DEF arrayVars, Called
<1>15. QED
  BY <1>5, <1>6, <1>8, <1>9, <1>10, <1>11, <1>12, <1>13, <1>14 DEF ArrayNext

\* Below the arrays the heap is right too: its blocks tile it, and what it gives
\* belongs to its caller alone.
THEOREM HeapBelowArrays == ArraySpec => []HeapTypeOK /\ []BlocksTile /\ ImplementsAllocator
<1>1. ArrayInv => HeapTypeOK /\ BlocksTile
  BY InvTypes, InvTiles DEF ArrayInv
<1>2. ArrayInit => Promise!Init
  BY HeapInitGrants DEF ArrayInit
<1>3. ArrayInv /\ ArrayInv' /\ [ArrayNext]_arrayVars =>
        [Promise!Next]_{[at |-> h + HeaderSize, size |-> asked[h]] : h \in used}
  BY HeapCalled, HeapNextGrants DEF ArrayInv, Granted, RangeOf
<1>4. QED
  BY <1>1, <1>2, <1>3, ArrayInvariant, PTL DEF ArraySpec, ImplementsAllocator, Promise!Spec

=============================================================================
