------------------------------ MODULE ShellProofs ------------------------------
(***************************************************************************)
(* After every prompt of the shell nothing is left unsaved: whichever      *)
(* handles a command has opened, closed or forgotten, the machine stays    *)
(* fine for the one handle that the shell keeps, and the flush of the      *)
(* prompt has written every object.                                        *)
(***************************************************************************)
EXTENDS Shell, FATProofs

-----------------------------------------------------------------------------
(* The handles of the virtual file system.                                   *)

HandleRecord(v) == v = [fs |-> v.fs, d |-> v.d, path |-> v.path, astray |-> v.astray]

\* At the mount points nothing is held.  n is how many others hold each object, and u are
\* the clusters that they know of.
HandleFine(w, m, v, n, u) ==
  /\ HandleRecord(v) /\ (~v.fs => v.d.cache = None)
  /\ DirFine(w, m, v.d, n, u \cup {v.d.root})

\* A handle in another directory, on the way to it, on the disk and off it again.
In(v, d) == [v EXCEPT !.d = d]
Along(v, d, name) == [v EXCEPT !.d = d, !.path = Moved(@, name)]
Onto(v, name) == [v EXCEPT !.fs = TRUE, !.d = DirectoryOpenRoot, !.path = AddName(@, name)]
Off(v) == [v EXCEPT !.fs = FALSE, !.d = DirectoryOpenRoot, !.path = GoUp(@),
                    !.astray = @ \/ v.d.root # 0]

LEMMA InFields ==
  ASSUME NEW v, HandleRecord(v), NEW d
  PROVE  HandleRecord(In(v, d)) /\ In(v, d).d = d /\ In(v, d).fs = v.fs
<1> DEFINE D == {"fs", "d", "path", "astray"}
           a == In(v, d)
<1>1. DOMAIN v = D
  BY DEF HandleRecord
<1>2. DOMAIN a = D /\ a = [x \in D |-> a[x]] /\ a.d = d /\ a.fs = v.fs
  BY <1>1 DEF In
<1>3. \A g : DOMAIN g = D /\ g = [x \in D |-> g[x]] => HandleRecord(g)
  BY DEF HandleRecord
<1> HIDE DEF a, D
<1> QED BY <1>2, <1>3 DEF a

LEMMA AlongFields ==
  ASSUME NEW v, HandleRecord(v), NEW d, NEW name
  PROVE  HandleRecord(Along(v, d, name)) /\ Along(v, d, name).d = d /\ Along(v, d, name).fs = v.fs
<1> DEFINE D == {"fs", "d", "path", "astray"}
           a == Along(v, d, name)
<1>1. DOMAIN v = D
  BY DEF HandleRecord
<1>2. DOMAIN a = D /\ a = [x \in D |-> a[x]] /\ a.d = d /\ a.fs = v.fs
  BY <1>1 DEF Along
<1>3. \A g : DOMAIN g = D /\ g = [x \in D |-> g[x]] => HandleRecord(g)
  BY DEF HandleRecord
<1> HIDE DEF a, D
<1> QED BY <1>2, <1>3 DEF a

LEMMA OntoFields ==
  ASSUME NEW v, HandleRecord(v), NEW name
  PROVE  HandleRecord(Onto(v, name)) /\ Onto(v, name).d = DirectoryOpenRoot /\ Onto(v, name).fs
<1> DEFINE D == {"fs", "d", "path", "astray"}
           a == Onto(v, name)
<1>1. DOMAIN v = D
  BY DEF HandleRecord
<1>2. DOMAIN a = D /\ a = [x \in D |-> a[x]] /\ a.d = DirectoryOpenRoot /\ a.fs = TRUE
  <2> HIDE DEF DirectoryOpenRoot
  <2> QED BY <1>1 DEF Onto
<1>3. \A g : DOMAIN g = D /\ g = [x \in D |-> g[x]] => HandleRecord(g)
  BY DEF HandleRecord
<1> HIDE DEF a, D
<1> QED BY <1>2, <1>3 DEF a

LEMMA OffFields ==
  ASSUME NEW v, HandleRecord(v)
  PROVE  HandleRecord(Off(v)) /\ Off(v).d = DirectoryOpenRoot /\ ~Off(v).fs
<1> DEFINE D == {"fs", "d", "path", "astray"}
           a == Off(v)
<1>1. DOMAIN v = D
  BY DEF HandleRecord
<1>2. DOMAIN a = D /\ a = [x \in D |-> a[x]] /\ a.d = DirectoryOpenRoot /\ a.fs = FALSE
  <2> HIDE DEF DirectoryOpenRoot
  <2> QED BY <1>1 DEF Off
<1>3. \A g : DOMAIN g = D /\ g = [x \in D |-> g[x]] => HandleRecord(g)
  BY DEF HandleRecord
<1> HIDE DEF a, D
<1> QED BY <1>2, <1>3 DEF a

\* Of what a directory knows only its own cluster is needed.
LEMMA DirOnly ==
  ASSUME NEW w, NEW m, NEW d, NEW n, NEW v, DirFine(w, m, d, n, v), NEW u \in SUBSET v
  PROVE  DirFine(w, m, d, n, u \cup {d.root})
<1>1. u \cup {d.root} \in SUBSET v /\ d.root \in u \cup {d.root}
  BY DEF DirFine
<1> QED BY <1>1, DirFewer

\* A handle on the disk, from an operation on its directory.
LEMMA HandleIn ==
  ASSUME NEW w, NEW v, HandleRecord(v), v.fs, NEW m, NEW d, NEW n, NEW x, DirFine(w, m, d, n, x),
         NEW u \in SUBSET x
  PROVE  HandleFine(w, m, In(v, d), n, u) /\ In(v, d).fs
<1>1. DirFine(w, m, d, n, u \cup {d.root})
  BY DirOnly
<1>2. HandleRecord(In(v, d)) /\ In(v, d).d = d /\ In(v, d).fs = v.fs
  BY InFields
<1> QED BY <1>1, <1>2 DEF HandleFine

LEMMA RootFine ==
  ASSUME NEW w, NEW m, NEW n, NEW u, Fine(w, m, n, u)
  PROVE  /\ DirFine(w, m, DirectoryOpenRoot, n, u \cup {0}) /\ DirectoryOpenRoot.root = 0
         /\ DirectoryOpenRoot.cache = None
<1>1. n \in [w.entries -> Nat] /\ 0 \in w.entries /\ (m.at = "ready" => Taken(w, m.fat, 0))
  BY Typing, TakenBy, Entries
<1>2. Fine(w, m, n, u \cup {0})
  BY <1>1, Learn
<1> DEFINE d == DirectoryOpenRoot
<1>3. d = [root |-> d.root, offset |-> d.offset, cache |-> d.cache] /\ d.root = 0 /\ d.cache = None
  BY DEF DirectoryOpenRoot
<1> HIDE DEF d
<1>4. IsDir(w, d) /\ With(n, d.cache) = n
  BY <1>1, <1>3 DEF IsDir, With
<1>5. DirFine(w, m, d, n, u \cup {0})
  BY <1>1, <1>2, <1>3, <1>4 DEF DirFine
<1> QED BY <1>3, <1>5 DEF d

\* The shell's handle, or one at the mount points, is not changed where nothing is held.
LEMMA MountsFine ==
  ASSUME NEW w, NEW m, NEW n, NEW u, Fine(w, m, n, u)
  PROVE  HandleFine(w, m, VFSDirectoryOpenRoot, n, u) /\ ~VFSDirectoryOpenRoot.fs
<1> DEFINE h == VFSDirectoryOpenRoot
<1>1. HandleRecord(h) /\ h.d = DirectoryOpenRoot /\ h.fs = FALSE
  <2> HIDE DEF DirectoryOpenRoot
  <2> QED BY DEF VFSDirectoryOpenRoot, HandleRecord
<1> HIDE DEF h
<1>2. HandleFine(w, m, h, n, u)
  BY <1>1, RootFine DEF HandleFine
<1> QED BY <1>1, <1>2 DEF h

LEMMA AtMountsFine ==
  ASSUME NEW w, NEW m, NEW v, NEW n, NEW u, HandleFine(w, m, v, n, u), ~v.fs, NEW name
  PROVE  LET r == AtMounts(m, v, name)
         IN r.m = m /\ HandleFine(w, m, r.v, n, u) /\ (name = MountPoint => r.v.fs)
<1> DEFINE r == AtMounts(m, v, name)
<1>1. CASE name = MountPoint
  <2>1. r.m = m /\ r.v = Onto(v, name)
    BY <1>1 DEF AtMounts, Onto
  <2>2. HandleRecord(Onto(v, name)) /\ Onto(v, name).d = DirectoryOpenRoot /\ Onto(v, name).fs
    BY OntoFields DEF HandleFine
  <2>3. Fine(w, m, n, u \cup {v.d.root})
    BY DEF HandleFine, DirFine, With
  <2>4. DirFine(w, m, DirectoryOpenRoot, n, (u \cup {v.d.root}) \cup {0})
        /\ DirectoryOpenRoot.root = 0 /\ u \in SUBSET ((u \cup {v.d.root}) \cup {0})
    BY <2>3, RootFine
  <2>5. HandleFine(w, m, Onto(v, name), n, u)
    BY <2>2, <2>4, DirOnly DEF HandleFine
  <2> HIDE DEF r
  <2> QED BY <2>1, <2>2, <2>5 DEF r
<1>2. CASE name # MountPoint
  BY <1>2 DEF AtMounts
<1> QED BY <1>1, <1>2

LEMMA VFSCloseFine ==
  ASSUME NEW w, NEW m, NEW v, NEW n, NEW u, HandleFine(w, m, v, n, u)
  PROVE  Fine(w, VFSDirectoryClose(m, v), n, u \cup {v.d.root})
<1>1. /\ v.d.cache \in w.entries \cup {None} /\ n \in [w.entries -> Nat]
      /\ Fine(w, m, With(n, v.d.cache), u \cup {v.d.root})
  BY DEF HandleFine, DirFine, IsDir
<1>2. CASE v.fs
  BY <1>1, <1>2, FreeCacheFine DEF VFSDirectoryClose
<1>3. CASE ~v.fs
  BY <1>1, <1>3 DEF VFSDirectoryClose, HandleFine, With
<1> QED BY <1>2, <1>3

LEMMA VFSReadFine ==
  ASSUME NEW w, NEW m, NEW v, NEW n, NEW u, HandleFine(w, m, v, n, u), NEW wanted
  PROVE  LET r == VFSDirectoryRead(m, v, wanted)
         IN HandleFine(w, r.m, r.v, n, u) /\ r.v.fs = v.fs /\ (r.ok => v.fs)
<1> DEFINE r == VFSDirectoryRead(m, v, wanted)
           q == ReadOn(m, v.d, wanted)
<1>1. CASE v.fs
  <2>1. r = [m |-> q.m, v |-> In(v, q.d), ok |-> q.ok]
    BY <1>1 DEF VFSDirectoryRead, In
  <2>2. DirFine(w, q.m, q.d, n, u \cup {v.d.root}) /\ u \in SUBSET (u \cup {v.d.root})
    BY ReadOnFine DEF HandleFine, AtCell
  <2> HIDE DEF q, r
  <2>3. r.m = q.m /\ r.v = In(v, q.d)
    BY <2>1
  <2>4. HandleFine(w, q.m, In(v, q.d), n, u) /\ In(v, q.d).fs = v.fs
    BY <1>1, <2>2, HandleIn, InFields DEF HandleFine
  <2> QED BY <1>1, <2>3, <2>4 DEF r
<1>2. CASE ~v.fs
  BY <1>2 DEF VFSDirectoryRead
<1> QED BY <1>1, <1>2

LEMMA VFSRewindFine ==
  ASSUME NEW w, NEW m, NEW v, NEW n, NEW u, HandleFine(w, m, v, n, u)
  PROVE  LET r == VFSDirectoryRewind(m, v)
         IN HandleFine(w, r.m, r.v, n, u) /\ r.v.fs = v.fs
<1> DEFINE r == VFSDirectoryRewind(m, v)
           q == DirectoryRewind(m, v.d)
<1>1. CASE v.fs
  <2>1. r = [m |-> q.m, v |-> In(v, q.d), ok |-> TRUE]
    BY <1>1 DEF VFSDirectoryRewind, In
  <2>2. DirFine(w, q.m, q.d, n, u \cup {v.d.root}) /\ u \in SUBSET (u \cup {v.d.root})
    BY DirectoryRewindFine DEF HandleFine
  <2> HIDE DEF q, r
  <2>3. r.m = q.m /\ r.v = In(v, q.d)
    BY <2>1
  <2>4. HandleFine(w, q.m, In(v, q.d), n, u) /\ In(v, q.d).fs = v.fs
    BY <1>1, <2>2, HandleIn, InFields DEF HandleFine
  <2> QED BY <1>1, <2>3, <2>4 DEF r
<1>2. CASE ~v.fs
  BY <1>2 DEF VFSDirectoryRewind
<1> QED BY <1>1, <1>2

LEMMA VFSCreateFine ==
  ASSUME NEW w, NEW m, NEW v, NEW n, NEW u, HandleFine(w, m, v, n, u), NEW name \in Names
  PROVE  LET r == VFSDirectoryCreate(m, v, name) IN HandleFine(w, r.m, r.v, n, u)
<1> DEFINE r == VFSDirectoryCreate(m, v, name)
           q == DirectoryCreate(m, v.d, name)
<1>1. CASE v.fs
  <2>1. r = [m |-> q.m, v |-> In(v, q.d), ok |-> TRUE]
    BY <1>1 DEF VFSDirectoryCreate, In
  <2>2. DirFine(w, q.m, q.d, n, u \cup {v.d.root}) /\ u \in SUBSET (u \cup {v.d.root})
    BY DirectoryCreateFine DEF HandleFine
  <2> HIDE DEF q, r
  <2>3. r.m = q.m /\ r.v = In(v, q.d)
    BY <2>1
  <2>4. HandleFine(w, q.m, In(v, q.d), n, u)
    BY <1>1, <2>2, HandleIn DEF HandleFine
  <2> QED BY <2>3, <2>4 DEF r
<1>2. CASE ~v.fs
  BY <1>2 DEF VFSDirectoryCreate
<1> QED BY <1>1, <1>2

-----------------------------------------------------------------------------
(* The directory is changed.                                                 *)

\* What the search for a name returns.
Seeks(w, r, n, u) ==
  /\ r = [m |-> r.m, v |-> r.v, ok |-> r.ok, more |-> r.more]
  /\ HandleFine(w, r.m, r.v, n, u) /\ r.v.fs

LEMMA SeekResults ==
  ASSUME NEW w, NEW m, NEW v, NEW n, NEW u, HandleFine(w, m, v, n, u), v.fs, NEW ok, NEW more
  PROVE  Seeks(w, [m |-> m, v |-> v, ok |-> ok, more |-> more], n, u)
<1> DEFINE r == [m |-> m, v |-> v, ok |-> ok, more |-> more]
<1>1. r.m = m /\ r.v = v /\ r = [m |-> r.m, v |-> r.v, ok |-> r.ok, more |-> r.more]
  OBVIOUS
<1> HIDE DEF r
<1>2. Seeks(w, r, n, u)
  BY <1>1 DEF Seeks
<1> QED BY <1>2 DEF r

LEMMA SeekStops ==
  ASSUME NEW w, NEW r, NEW n, NEW u, Seeks(w, r, n, u), NEW s \in {"stopped", "hung", "spoiled"}
  PROVE  Seeks(w, [r EXCEPT !.m.at = s], n, u)
<1> DEFINE m == StoppedAt(r.m, s)
           q == [r EXCEPT !.m.at = s]
<1>1. q = [m |-> m, v |-> r.v, ok |-> r.ok, more |-> r.more]
  <2>1. q = [r EXCEPT !.m = m]
    BY DEF StoppedAt
  <2> HIDE DEF m, q
  <2> QED BY <2>1 DEF Seeks
<1>2. HandleFine(w, m, r.v, n, u)
  <2>1. Fine(w, r.m, With(n, r.v.d.cache), u \cup {r.v.d.root})
    BY DEF Seeks, HandleFine, DirFine
  <2>2. Fine(w, m, With(n, r.v.d.cache), u \cup {r.v.d.root})
    BY <2>1, Stops
  <2> HIDE DEF m
  <2> QED BY <2>2 DEF Seeks, HandleFine, DirFine
<1> HIDE DEF m, q
<1>3. Seeks(w, q, n, u)
  BY <1>1, <1>2, SeekResults DEF Seeks
<1> QED BY <1>3 DEF q

LEMMA SearchedFine ==
  ASSUME NEW w, NEW s, NEW n, NEW u, Seeks(w, s, n, u), NEW name
  PROVE  Seeks(w, Searched(s, name), n, u)
<1> DEFINE r == ReadOn(s.m, s.v.d, Named(name))
           f == DirectoryFollow(r.m, r.d)
           x == u \cup {s.v.d.root}
<1>1. AtCell(w, r, n, x, s.v.d.root) /\ HandleRecord(s.v) /\ s.v.fs
      /\ u \in SUBSET x
  BY ReadOnFine DEF Seeks, HandleFine
<1>2. DirFine(w, r.m, r.d, n, x) /\ r.d.cache # None
  BY <1>1 DEF AtCell
<1> HIDE DEF r, x
<1>3. DirFine(w, f.m, f.d, n, x \cup {f.d.root})
      /\ u \in SUBSET (x \cup {f.d.root})
  BY <1>1, <1>2, DirectoryFollowFine
<1> HIDE DEF f
<1>4. HandleFine(w, r.m, In(s.v, r.d), n, u) /\ In(s.v, r.d).fs
  BY <1>1, <1>2, HandleIn
<1>5. HandleFine(w, f.m, Along(s.v, f.d, name), n, u) /\ Along(s.v, f.d, name).fs
  <2>1. DirFine(w, f.m, f.d, n, u \cup {f.d.root})
    BY <1>3, DirOnly
  <2>2. /\ HandleRecord(Along(s.v, f.d, name)) /\ Along(s.v, f.d, name).d = f.d
        /\ Along(s.v, f.d, name).fs = s.v.fs
    BY <1>1, AlongFields
  <2> QED BY <1>1, <2>1, <2>2 DEF HandleFine
<1>6. Searched(s, name) =
        IF ~Continues(r) THEN [m |-> r.m, v |-> In(s.v, r.d), ok |-> s.ok, more |-> FALSE]
        ELSE IF ~f.ok THEN [m |-> r.m, v |-> In(s.v, r.d), ok |-> FALSE, more |-> TRUE]
        ELSE [m |-> f.m, v |-> Along(s.v, f.d, name), ok |-> TRUE, more |-> TRUE]
  BY DEF Searched, In, Along, r, f
<1>7. /\ Seeks(w, [m |-> r.m, v |-> In(s.v, r.d), ok |-> s.ok, more |-> FALSE], n, u)
      /\ Seeks(w, [m |-> r.m, v |-> In(s.v, r.d), ok |-> FALSE, more |-> TRUE], n, u)
      /\ Seeks(w, [m |-> f.m, v |-> Along(s.v, f.d, name), ok |-> TRUE, more |-> TRUE], n, u)
  BY <1>4, <1>5, SeekResults
<1> HIDE DEF Searched
<1> QED BY <1>6, <1>7

LEMMA SearchFine ==
  ASSUME NEW w, NEW m, NEW v, NEW n, NEW u, HandleFine(w, m, v, n, u), v.fs, NEW name
  PROVE  Seeks(w, Search(m, v, name), n, u)
<1> DEFINE Next(s) == IF s.more /\ s.m.at = "ready" THEN Searched(s, name) ELSE s
           first == [m |-> m, v |-> v, ok |-> FALSE, more |-> TRUE]
           Is(f, k) == f = [i \in 0..k |-> IF i = 0 THEN first ELSE Next(f[i - 1])]
           Good(s) == Seeks(w, s, n, u)
           f == CHOOSE f : Is(f, AllCells)
           last == f[AllCells]
<1>1. Search(m, v, name) = IF last.more /\ last.m.at = "ready" THEN [last EXCEPT !.m.at = "hung"] ELSE last
  BY DEF Search
<1>2. Good(first)
  BY SeekResults
<1>3. ASSUME NEW s, Good(s) PROVE Good(Next(s))
  BY <1>3, SearchedFine
<1> HIDE DEF Next, first, Good
<1>4. \A k \in Nat : \E g : Is(g, k)
  <2> DEFINE S == {k \in Nat : \E g : Is(g, k)}
  <2>1. 0 \in S
    <3>1. Is([i \in 0..0 |-> first], 0)
      OBVIOUS
    <3> QED BY <3>1
  <2>2. ASSUME NEW k \in Nat, k \in S PROVE k + 1 \in S
    <3>1. PICK g : Is(g, k)
      BY <2>2
    <3> DEFINE h == [i \in 0..(k + 1) |-> IF i = k + 1 THEN Next(g[k]) ELSE g[i]]
    <3>2. \A i \in 0..k : h[i] = g[i] /\ g[i] = IF i = 0 THEN first ELSE Next(g[i - 1])
      BY <3>1
    <3>3. ASSUME NEW i \in 0..(k + 1) PROVE h[i] = IF i = 0 THEN first ELSE Next(h[i - 1])
      <4>1. CASE i = k + 1
        <5>1. h[k] = g[k] /\ i - 1 = k /\ i # 0
          BY <3>2, <4>1
        <5> QED BY <4>1, <5>1
      <4>2. CASE i # k + 1 /\ i # 0
        <5>1. i \in 0..k /\ i - 1 \in 0..k
          BY <4>2
        <5> QED BY <3>2, <4>2, <5>1
      <4>3. CASE i = 0
        <5>1. i \in 0..k
          BY <4>3
        <5> QED BY <3>2, <4>3, <5>1
      <4> QED BY <4>1, <4>2, <4>3
    <3>4. h = [i \in 0..(k + 1) |-> h[i]]
      OBVIOUS
    <3> HIDE DEF h
    <3>5. Is(h, k + 1)
      BY <3>3, <3>4
    <3> HIDE DEF Is
    <3> QED BY <3>5
  <2> HIDE DEF S
  <2>3. Nat \subseteq S
    BY <2>1, <2>2, Numbers
  <2> QED BY <2>3 DEF S
<1>5. Is(f, AllCells) /\ AllCells \in Nat
  <2>1. AllCells \in Nat
    BY AllCellsNumber
  <2>2. \E g : Is(g, AllCells)
    BY <1>4, <2>1
  <2> HIDE DEF Is
  <2> QED BY <2>1, <2>2
<1> HIDE DEF f
<1>6. f[0] = first /\ \A i \in 1..AllCells : f[i] = Next(f[i - 1])
  <2>1. 0 \in 0..AllCells /\ \A i \in 1..AllCells : i \in 0..AllCells /\ i # 0
    BY <1>5
  <2> QED BY <1>5, <2>1
<1> HIDE DEF Is
<1>7. Good(f[AllCells])
  <2> DEFINE S == {k \in Nat : k \in 0..AllCells => Good(f[k])}
  <2>1. 0 \in S
    BY <1>2, <1>6
  <2>2. ASSUME NEW k \in Nat, k \in S PROVE k + 1 \in S
    <3>1. SUFFICES ASSUME k + 1 \in 0..AllCells PROVE Good(f[k + 1])
      OBVIOUS
    <3>2. k \in 0..AllCells /\ k + 1 \in 1..AllCells /\ (k + 1) - 1 = k
      BY <1>5, <3>1
    <3>3. f[k + 1] = Next(f[k]) /\ Good(f[k])
      BY <1>6, <2>2, <3>2
    <3> QED BY <1>3, <3>3
  <2> HIDE DEF S
  <2>3. Nat \subseteq S
    BY <2>1, <2>2, Numbers
  <2>4. AllCells \in 0..AllCells
    BY <1>5
  <2> QED BY <1>5, <2>3, <2>4 DEF S
<1> HIDE DEF last
<1>8. Good(last)
  BY <1>7 DEF last
<1>9. Seeks(w, last, n, u) /\ Seeks(w, [last EXCEPT !.m.at = "hung"], n, u)
  BY <1>8, SeekStops DEF Good
<1> HIDE DEF Seeks
<1> QED BY <1>1, <1>9

LEMMA OffDiskFine ==
  ASSUME NEW w, NEW r, NEW n, NEW u, HandleFine(w, r.m, r.v, n, u)
  PROVE  HandleFine(w, OffDisk(r).m, OffDisk(r).v, n, u)
<1> DEFINE m == FreeCache(r.m, r.v.d.cache)
<1>1. OffDisk(r) = [m |-> m, ok |-> TRUE, v |-> Off(r.v)]
  BY DEF OffDisk, Off
<1>2. /\ r.v.d.cache \in w.entries \cup {None} /\ n \in [w.entries -> Nat]
      /\ Fine(w, r.m, With(n, r.v.d.cache), u \cup {r.v.d.root})
  BY DEF HandleFine, DirFine, IsDir
<1>3. Fine(w, m, n, u \cup {r.v.d.root})
  BY <1>2, FreeCacheFine
<1> HIDE DEF m
<1>4. /\ DirFine(w, m, DirectoryOpenRoot, n, (u \cup {r.v.d.root}) \cup {0})
      /\ u \in SUBSET ((u \cup {r.v.d.root}) \cup {0})
      /\ DirectoryOpenRoot.root = 0 /\ DirectoryOpenRoot.cache = None
  BY <1>3, RootFine
<1>5. HandleRecord(Off(r.v)) /\ Off(r.v).d = DirectoryOpenRoot
  BY OffFields DEF HandleFine
<1>6. HandleFine(w, m, Off(r.v), n, u)
  BY <1>4, <1>5, DirOnly DEF HandleFine
<1>7. OffDisk(r).m = m /\ OffDisk(r).v = Off(r.v)
  <2> HIDE DEF OffDisk
  <2> QED BY <1>1
<1> QED BY <1>6, <1>7

LEMMA DirectoryChangeFine ==
  ASSUME NEW w, NEW m, NEW v, NEW n, NEW u, HandleFine(w, m, v, n, u), NEW name
  PROVE  LET r == DirectoryChange(m, v, name) IN HandleFine(w, r.m, r.v, n, u)
<1> DEFINE start == DirectoryRewind(m, v.d)
           r == Search(start.m, In(v, start.d), name)
<1>1. CASE v.fs
  <2>1. DirectoryChange(m, v, name) = Changed(r, name)
    BY <1>1 DEF DirectoryChange, OnDisk, In
  <2>2. DirFine(w, start.m, start.d, n, u \cup {v.d.root}) /\ u \in SUBSET (u \cup {v.d.root})
    BY DirectoryRewindFine DEF HandleFine
  <2> HIDE DEF start
  <2>3. HandleFine(w, start.m, In(v, start.d), n, u) /\ In(v, start.d).fs
    BY <1>1, <2>2, HandleIn DEF HandleFine
  <2>4. HandleFine(w, r.m, r.v, n, u)
    BY <2>3, SearchFine DEF Seeks
  <2> HIDE DEF r
  <2>5. HandleFine(w, OffDisk(r).m, OffDisk(r).v, n, u)
    BY <2>4, OffDiskFine
  <2> QED BY <2>1, <2>4, <2>5 DEF Changed
<1>2. CASE ~v.fs
  BY <1>2, AtMountsFine DEF DirectoryChange
<1> QED BY <1>1, <1>2

-----------------------------------------------------------------------------
(* Files.                                                                    *)

\* A file that was opened, and the directory beside it.
FoundFine(w, o, n, u) ==
  /\ HandleRecord(o.v) /\ o.v.fs /\ IsDir(w, o.v.d) /\ n \in [w.entries -> Nat]
  /\ \E x : u \cup {o.v.d.root} \subseteq x /\ FileFine(w, o.m, o.f, With(n, o.v.d.cache), x)
  /\ Fresh(o.f) /\ o.f.cache = None /\ o.f.offset = 0 /\ o.ok = TRUE
  /\ o = [m |-> o.m, v |-> o.v, ok |-> o.ok, f |-> o.f, file |-> o.file]

LEMMA OpenFoundFine ==
  ASSUME NEW w, NEW v, HandleRecord(v), v.fs, NEW r, NEW n, NEW x, DirFine(w, r.m, r.d, n, x),
         r.d.cache # None, NEW update, NEW u \in SUBSET x
  PROVE  FoundFine(w, OpenFound(r, v, update), n, u)
<1> DEFINE f == FileOpen(r.m, r.d, update)
           file == ~Entry(r.m, r.d).dir
           o == OpenFound(r, v, update)
<1>1. o = [m |-> r.m, v |-> In(v, r.d), ok |-> TRUE, f |-> f, file |-> file]
  BY DEF OpenFound, In
<1>2. FileFine(w, r.m, f, With(n, r.d.cache), x \cup {f.root, f.parent}) /\ f.cache = None /\ f.offset = 0
  BY FileOpenFine
<1>3. HandleRecord(In(v, r.d)) /\ In(v, r.d).d = r.d /\ In(v, r.d).fs
  BY InFields
<1>4. IsDir(w, r.d) /\ r.d.root \in x /\ n \in [w.entries -> Nat]
  BY DEF DirFine
<1> HIDE DEF f, o, file
<1>5. o.m = r.m /\ o.v = In(v, r.d) /\ o.ok = TRUE /\ o.f = f
      /\ o = [m |-> o.m, v |-> o.v, ok |-> o.ok, f |-> o.f, file |-> o.file]
  BY <1>1
<1>6. Fresh(f)
  BY <1>2 DEF Fresh
<1>7. FoundFine(w, o, n, u)
  BY <1>2, <1>3, <1>4, <1>5, <1>6 DEF FoundFine
<1> QED BY <1>7 DEF o

LEMMA VFSFileOpenFine ==
  ASSUME NEW w, NEW m, NEW v, NEW n, NEW u, HandleFine(w, m, v, n, u), NEW name, NEW update
  PROVE  LET o == VFSFileOpen(m, v, name, update)
         IN IF v.fs THEN FoundFine(w, o, n, u) ELSE o = [m |-> m, v |-> v, ok |-> FALSE]
<1> DEFINE start == DirectoryRewind(m, v.d)
           r == ReadOn(start.m, start.d, Named(name))
<1>1. CASE v.fs
  <2>1. VFSFileOpen(m, v, name, update) = OpenFound(r, v, update)
    BY <1>1 DEF VFSFileOpen
  <2>2. DirFine(w, start.m, start.d, n, u \cup {v.d.root}) /\ u \in SUBSET (u \cup {v.d.root})
    BY DirectoryRewindFine DEF HandleFine
  <2> HIDE DEF start
  <2>3. DirFine(w, r.m, r.d, n, u \cup {v.d.root}) /\ r.d.cache # None /\ u \in SUBSET (u \cup {v.d.root})
    BY <2>2, ReadOnFine DEF AtCell
  <2> HIDE DEF r
  <2>4. FoundFine(w, OpenFound(r, v, update), n, u)
    BY <1>1, <2>3, OpenFoundFine DEF HandleFine
  <2> QED BY <1>1, <2>1, <2>4
<1>2. CASE ~v.fs
  BY <1>2 DEF VFSFileOpen
<1> QED BY <1>1, <1>2

LEMMA VFSFileCloseFine ==
  ASSUME NEW w, NEW r, NEW n, NEW v, AtFile(w, r, n, v)
  PROVE  Fine(w, VFSFileClose(r), n, v) /\ n \in [w.entries -> Nat]
<1>1. r.f.cache \in w.entries \cup {None} /\ n \in [w.entries -> Nat] /\ Fine(w, r.m, With(n, r.f.cache), v)
  BY DEF AtFile, FileFine, IsFile
<1> QED BY <1>1, FreeCacheFine DEF VFSFileClose

\* A file that a command forgets, and the reference that it holds.
LEMMA FileForgotten ==
  ASSUME NEW w, NEW m, NEW f, NEW n, NEW v, FileFine(w, m, f, n, v)
  PROVE  Fine(w, m, n, v)
<1>1. /\ f.cache \in w.entries \cup {None} /\ n \in [w.entries -> Nat] /\ WorldOK(w)
      /\ Fine(w, m, With(n, f.cache), v)
  BY Typing DEF FileFine, IsFile
<1>2. \A b \in w.entries : n[b] <= With(n, f.cache)[b]
  BY <1>1, WithOne
<1>3. v \in SUBSET v
  OBVIOUS
<1> QED BY <1>1, <1>2, <1>3, Fewer

LEMMA DirForgotten ==
  ASSUME NEW w, NEW m, NEW d, NEW n, NEW v, IsDir(w, d), n \in [w.entries -> Nat],
         Fine(w, m, With(n, d.cache), v)
  PROVE  Fine(w, m, n, v)
<1>1. d.cache \in w.entries \cup {None} /\ WorldOK(w)
  BY Typing DEF IsDir
<1>2. \A b \in w.entries : n[b] <= With(n, d.cache)[b]
  BY <1>1, WithOne
<1>3. v \in SUBSET v
  OBVIOUS
<1> QED BY <1>1, <1>2, <1>3, Fewer

LEMMA ReadOftenFine ==
  ASSUME NEW w, NEW at, NEW n, NEW v, AtFile(w, at, n, v), NEW count \in Nat, NEW times \in Nat
  PROVE  AtFile(w, ReadOften(at, count, times), n, v)
<1> DEFINE Next(r) == IF Continues(r) THEN FileRead(r.m, r.f, count) ELSE r
           first == at
           Is(f, k) == f = [i \in 0..k |-> IF i = 0 THEN first ELSE Next(f[i - 1])]
           Good(r) == AtFile(w, r, n, v)
           f == CHOOSE f : Is(f, times)
<1>1. ReadOften(at, count, times) = f[times]
  BY DEF ReadOften
<1>2. Good(first)
  OBVIOUS
<1>3. ASSUME NEW r, Good(r) PROVE Good(Next(r))
  <2>1. CASE Continues(r)
    <3>1. FileFine(w, r.m, r.f, n, v) /\ Fresh(r.f)
      BY <1>3, <2>1 DEF AtFile, FileFine, Continues
    <3>2. AtFile(w, FileRead(r.m, r.f, count), n, v)
      BY <3>1, FileReadFine
    <3> QED BY <2>1, <3>2
  <2>2. CASE ~Continues(r)
    BY <1>3, <2>2
  <2> QED BY <2>1, <2>2
<1>c. times \in Nat
  OBVIOUS
<1> HIDE DEF Next, first, Good
<1>4. \A k \in Nat : \E g : Is(g, k)
  <2> DEFINE S == {k \in Nat : \E g : Is(g, k)}
  <2>1. 0 \in S
    <3>1. Is([i \in 0..0 |-> first], 0)
      OBVIOUS
    <3> QED BY <3>1
  <2>2. ASSUME NEW k \in Nat, k \in S PROVE k + 1 \in S
    <3>1. PICK g : Is(g, k)
      BY <2>2
    <3> DEFINE h == [i \in 0..(k + 1) |-> IF i = k + 1 THEN Next(g[k]) ELSE g[i]]
    <3>2. \A i \in 0..k : h[i] = g[i] /\ g[i] = IF i = 0 THEN first ELSE Next(g[i - 1])
      BY <3>1
    <3>3. ASSUME NEW i \in 0..(k + 1) PROVE h[i] = IF i = 0 THEN first ELSE Next(h[i - 1])
      <4>1. CASE i = k + 1
        <5>1. h[k] = g[k] /\ i - 1 = k /\ i # 0
          BY <3>2, <4>1
        <5> QED BY <4>1, <5>1
      <4>2. CASE i # k + 1 /\ i # 0
        <5>1. i \in 0..k /\ i - 1 \in 0..k
          BY <4>2
        <5> QED BY <3>2, <4>2, <5>1
      <4>3. CASE i = 0
        <5>1. i \in 0..k
          BY <4>3
        <5> QED BY <3>2, <4>3, <5>1
      <4> QED BY <4>1, <4>2, <4>3
    <3>4. h = [i \in 0..(k + 1) |-> h[i]]
      OBVIOUS
    <3> HIDE DEF h
    <3>5. Is(h, k + 1)
      BY <3>3, <3>4
    <3> HIDE DEF Is
    <3> QED BY <3>5
  <2> HIDE DEF S
  <2>3. Nat \subseteq S
    BY <2>1, <2>2, Numbers
  <2> QED BY <2>3 DEF S
<1>5. Is(f, times) /\ times \in Nat
  <2>1. times \in Nat
    BY <1>c
  <2>2. \E g : Is(g, times)
    BY <1>4, <2>1
  <2> HIDE DEF Is
  <2> QED BY <2>1, <2>2
<1> HIDE DEF f
<1>6. f[0] = first /\ \A i \in 1..times : f[i] = Next(f[i - 1])
  <2>1. 0 \in 0..times /\ \A i \in 1..times : i \in 0..times /\ i # 0
    BY <1>5
  <2> QED BY <1>5, <2>1
<1> HIDE DEF Is
<1>7. Good(f[times])
  <2> DEFINE S == {k \in Nat : k \in 0..times => Good(f[k])}
  <2>1. 0 \in S
    BY <1>2, <1>6
  <2>2. ASSUME NEW k \in Nat, k \in S PROVE k + 1 \in S
    <3>1. SUFFICES ASSUME k + 1 \in 0..times PROVE Good(f[k + 1])
      OBVIOUS
    <3>2. k \in 0..times /\ k + 1 \in 1..times /\ (k + 1) - 1 = k
      BY <1>5, <3>1
    <3>3. f[k + 1] = Next(f[k]) /\ Good(f[k])
      BY <1>6, <2>2, <3>2
    <3> QED BY <1>3, <3>3
  <2> HIDE DEF S
  <2>3. Nat \subseteq S
    BY <2>1, <2>2, Numbers
  <2>4. times \in 0..times
    BY <1>5
  <2> QED BY <1>5, <2>3, <2>4 DEF S
<1> QED BY <1>1, <1>7 DEF Good

-----------------------------------------------------------------------------
(* The commands.                                                             *)

LEMMA ListFine ==
  ASSUME NEW w, NEW m, NEW v, NEW n, NEW u, HandleFine(w, m, v, n, u)
  PROVE  HandleFine(w, List(m, v).m, List(m, v).v, n, u)
<1> DEFINE start == VFSDirectoryRewind(m, v)
           r == VFSDirectoryRead(start.m, start.v, {})
<1>1. List(m, v) = VFSDirectoryRewind(r.m, r.v)
  BY DEF List
<1>2. HandleFine(w, start.m, start.v, n, u)
  BY VFSRewindFine
<1> HIDE DEF start
<1>3. HandleFine(w, r.m, r.v, n, u)
  BY <1>2, VFSReadFine
<1> HIDE DEF r
<1> QED BY <1>1, <1>3, VFSRewindFine

LEMMA ShownFine ==
  ASSUME NEW w, NEW o, NEW n, NEW u, FoundFine(w, o, n, u)
  PROVE  HandleFine(w, Shown(o).m, Shown(o).v, n, u)
<1> DEFINE k == With(n, o.v.d.cache)
           at == [m |-> o.m, f |-> o.f, ok |-> TRUE]
           r == ReadOften(at, Cells, o.f.size + 1)
           m == VFSFileClose(r)
<1>1. PICK x : u \cup {o.v.d.root} \subseteq x /\ FileFine(w, o.m, o.f, k, x)
  BY DEF FoundFine
<1>2. Shown(o) = [m |-> m, v |-> o.v]
  BY DEF Shown
<1>3. AtFile(w, at, k, x) /\ at.f = o.f
  BY <1>1, FileResults DEF AtFile
<1>4. Cells \in Nat /\ o.f.size + 1 \in Nat
  BY <1>1, FATAssumption DEF FileFine, IsFile
<1> HIDE DEF at, k
<1>5. AtFile(w, r, k, x)
  BY <1>3, <1>4, ReadOftenFine
<1> HIDE DEF r
<1>6. Fine(w, m, k, x)
  BY <1>5, VFSFileCloseFine
<1> HIDE DEF m
<1>7. DirFine(w, m, o.v.d, n, x)
  BY <1>1, <1>6 DEF FoundFine, DirFine, k
<1>8. DirFine(w, m, o.v.d, n, u \cup {o.v.d.root})
  BY <1>1, <1>7, DirOnly
<1>9. HandleFine(w, m, o.v, n, u)
  BY <1>8 DEF FoundFine, HandleFine
<1> QED BY <1>2, <1>9

LEMMA CatFine ==
  ASSUME NEW w, NEW m, NEW v, NEW n, NEW u, HandleFine(w, m, v, n, u), NEW name
  PROVE  HandleFine(w, Cat(m, v, name).m, Cat(m, v, name).v, n, u)
<1> DEFINE start == VFSDirectoryRewind(m, v)
           r == VFSDirectoryRead(start.m, start.v, {cell \in Named(name) : ~cell.dir})
           o == VFSFileOpen(r.m, r.v, name, FALSE)
<1>1. Cat(m, v, name) = IF Continues(r) THEN Shown(o) ELSE r
  BY DEF Cat
<1>2. HandleFine(w, start.m, start.v, n, u)
  BY VFSRewindFine
<1> HIDE DEF start
<1>3. HandleFine(w, r.m, r.v, n, u) /\ (r.ok => r.v.fs)
  BY <1>2, VFSReadFine
<1> HIDE DEF r
<1>4. CASE Continues(r)
  <2>1. FoundFine(w, o, n, u)
    BY <1>3, <1>4, VFSFileOpenFine DEF Continues
  <2> HIDE DEF o
  <2> QED BY <1>1, <1>4, <2>1, ShownFine
<1>5. CASE ~Continues(r)
  BY <1>1, <1>3, <1>5
<1> QED BY <1>4, <1>5

\* A machine that is fine for the others, whatever it has learnt.
Leaves(w, m, n, u) == \E x : u \subseteq x /\ Fine(w, m, n, x)

LEMMA RootOfFine ==
  ASSUME NEW w, NEW m, NEW n, NEW u, Fine(w, m, n, u)
  PROVE  HandleFine(w, m, RootOf(m), n, u) /\ RootOf(m).fs
<1> DEFINE h == VFSDirectoryOpenRoot
<1>1. HandleFine(w, m, h, n, u) /\ ~h.fs
  BY MountsFine
<1> HIDE DEF h
<1> QED BY <1>1, AtMountsFine DEF RootOf, h

LEMMA WriteFoundFine ==
  ASSUME NEW w, NEW o, NEW n, NEW u, FoundFine(w, o, n, u)
  PROVE  Leaves(w, WriteFound(o), n, u)
<1> DEFINE k == With(n, o.v.d.cache)
           b == CHOOSE b \in Bytes : TRUE
           r == FilePutByte(o.m, o.f, b)
<1>1. PICK x : u \cup {o.v.d.root} \subseteq x /\ FileFine(w, o.m, o.f, k, x)
  BY DEF FoundFine
<1>2. IsDir(w, o.v.d) /\ n \in [w.entries -> Nat]
  BY DEF FoundFine
<1>3. CASE o.file
  <2>1. WriteFound(o) = VFSFileClose(r)
    BY <1>3 DEF WriteFound, FileWrite
  <2>2. b \in Bytes
    BY ShellAssumption
  <2>a. o.f.offset < MaxSize
    BY Constant DEF FoundFine
  <2> HIDE DEF b, k
  <2>3. AtFile(w, r, k, x \cup {r.f.root})
    BY <1>1, <2>2, <2>a, FilePutByteFine DEF FoundFine
  <2> HIDE DEF r
  <2>4. Fine(w, VFSFileClose(r), k, x \cup {r.f.root})
    BY <2>3, VFSFileCloseFine
  <2>5. Fine(w, WriteFound(o), n, x \cup {r.f.root})
    BY <1>2, <2>1, <2>4, DirForgotten DEF k
  <2> QED BY <1>1, <2>5 DEF Leaves
<1>4. CASE ~o.file
  <2>1. WriteFound(o) = StoppedAt(o.m, "spoiled")
    BY <1>4 DEF WriteFound, StoppedAt
  <2> HIDE DEF k
  <2>2. Fine(w, o.m, k, x)
    BY <1>1, FileForgotten
  <2>3. Fine(w, o.m, n, x)
    BY <1>2, <2>2, DirForgotten DEF k
  <2>4. Fine(w, StoppedAt(o.m, "spoiled"), n, x)
    BY <2>3, Stops
  <2> QED BY <1>1, <2>1, <2>4 DEF Leaves
<1> QED BY <1>3, <1>4

LEMMA TestFine ==
  ASSUME NEW w, NEW m, NEW n, NEW u, Fine(w, m, n, u), NEW update
  PROVE  Leaves(w, Test(m, update), n, u)
<1> DEFINE v == RootOf(m)
           q == FileCreate(m, v.d, Yolo)
           o == VFSFileOpen(q.m, In(v, q.d), Yolo, update)
<1>1. Test(m, update) = WriteFound(o)
  BY DEF Test, In
<1>2. HandleFine(w, m, v, n, u) /\ v.fs /\ v.d.root = 0
  BY RootOfFine DEF RootOf, AtMounts, VFSDirectoryOpenRoot, DirectoryOpenRoot
<1> HIDE DEF v
<1>3. DirFine(w, q.m, q.d, n, u \cup {0}) /\ u \in SUBSET (u \cup {0})
  <2>1. DirFine(w, m, v.d, n, u \cup {0}) /\ 0 \in u \cup {0} /\ Yolo \in Names
    BY <1>2, ShellAssumption DEF HandleFine
  <2> QED BY <2>1, FileCreateFine DEF AtCell
<1> HIDE DEF q
<1>4. HandleFine(w, q.m, In(v, q.d), n, u) /\ In(v, q.d).fs
  BY <1>2, <1>3, HandleIn DEF HandleFine
<1>5. FoundFine(w, o, n, u)
  BY <1>4, VFSFileOpenFine
<1> HIDE DEF o
<1> QED BY <1>1, <1>5, WriteFoundFine

LEMMA ShowSplashFine ==
  ASSUME NEW w, NEW m, NEW n, NEW u, Fine(w, m, n, u)
  PROVE  Leaves(w, ShowSplash(m), n, u)
<1> DEFINE o == VFSFileOpen(m, RootOf(m), Splash, FALSE)
           k == With(n, o.v.d.cache)
           r == FileRead(o.m, o.f, MaxSize)
<1>1. ShowSplash(m) = r.m
  BY DEF ShowSplash
<1>2. FoundFine(w, o, n, u)
  BY RootOfFine, VFSFileOpenFine
<1> HIDE DEF o
<1>3. PICK x : u \cup {o.v.d.root} \subseteq x /\ FileFine(w, o.m, o.f, k, x)
  BY <1>2 DEF FoundFine
<1>4. IsDir(w, o.v.d) /\ n \in [w.entries -> Nat] /\ Fresh(o.f) /\ MaxSize \in Nat
  BY <1>2, Constant DEF FoundFine
<1> HIDE DEF k
<1>5. FileFine(w, r.m, r.f, k, x)
  BY <1>3, <1>4, FileReadFine DEF AtFile
<1> HIDE DEF r
<1>6. Fine(w, r.m, k, x)
  BY <1>5, FileForgotten
<1>7. Fine(w, r.m, n, x)
  BY <1>4, <1>6, DirForgotten DEF k
<1> QED BY <1>1, <1>3, <1>7 DEF Leaves

LEMMA FileOpenPathFine ==
  ASSUME NEW w, NEW m, NEW n, NEW u, Fine(w, m, n, u), NEW text
  PROVE  LET o == FileOpenPath(m, text)
         IN IF o.ok THEN Fresh(o.f) /\ \E x : u \subseteq x /\ FileFine(w, o.m, o.f, n, x)
            ELSE Leaves(w, o.m, n, u)
<1> DEFINE h == VFSDirectoryOpenRoot
           at == AtMounts(m, h, Head(PathOf(text)))
           o == VFSFileOpen(m, at.v, Last(PathOf(text)), FALSE)
           q == FileOpenPath(m, text)
<1>1. q = [o EXCEPT !.m = VFSDirectoryClose(o.m, o.v)]
  BY DEF FileOpenPath
<1>2. HandleFine(w, m, h, n, u) /\ ~h.fs
  BY MountsFine
<1> HIDE DEF h, q
<1>3. HandleFine(w, m, at.v, n, u)
  BY <1>2, AtMountsFine
<1> HIDE DEF at
<1>4. IF at.v.fs THEN FoundFine(w, o, n, u) ELSE o = [m |-> m, v |-> at.v, ok |-> FALSE]
  BY <1>3, VFSFileOpenFine
<1> HIDE DEF o
<1>5. CASE at.v.fs
  <2> DEFINE c == FreeCache(o.m, o.v.d.cache)
  <2>1. FoundFine(w, o, n, u) /\ o.v.fs /\ o.ok = TRUE
    BY <1>4, <1>5 DEF FoundFine
  <2>2. PICK x : u \cup {o.v.d.root} \subseteq x /\ FileFine(w, o.m, o.f, With(n, o.v.d.cache), x)
    BY <2>1 DEF FoundFine
  <2>3. /\ IsFile(w, o.f) /\ {o.f.root, o.f.parent} \subseteq x /\ Fresh(o.f) /\ o.f.cache = None
        /\ IsDir(w, o.v.d) /\ n \in [w.entries -> Nat]
        /\ o = [m |-> o.m, v |-> o.v, ok |-> o.ok, f |-> o.f, file |-> o.file]
    BY <2>1, <2>2 DEF FoundFine, FileFine
  <2>4. Fine(w, o.m, With(n, o.v.d.cache), x)
    BY <2>2, <2>3 DEF FileFine, With
  <2>5. Fine(w, c, n, x)
    BY <2>3, <2>4, FreeCacheFine DEF IsDir
  <2>6. q = [o EXCEPT !.m = c]
    BY <1>1, <2>1 DEF VFSDirectoryClose
  <2> HIDE DEF c
  <2>7. q.m = c /\ q.f = o.f /\ q.ok = TRUE
    BY <2>1, <2>3, <2>6
  <2>8. FileFine(w, q.m, q.f, n, x)
    BY <2>3, <2>5, <2>7 DEF FileFine, With
  <2> QED BY <2>2, <2>3, <2>7, <2>8 DEF q
<1>6. CASE ~at.v.fs
  <2>1. o.m = m /\ o.v = at.v /\ ~o.ok /\ VFSDirectoryClose(o.m, o.v) = m /\ DOMAIN o = {"m", "v", "ok"}
    BY <1>4, <1>6 DEF VFSDirectoryClose
  <2>2. q.m = m /\ ~q.ok
    BY <1>1, <2>1
  <2>3. u \subseteq u
    OBVIOUS
  <2> QED BY <2>2, <2>3 DEF Leaves, q
<1> QED BY <1>5, <1>6

LEMMA SkipHeaderFine ==
  ASSUME NEW w, NEW r, NEW n, NEW v, AtFile(w, r, n, v), NEW offset \in Nat
  PROVE  AtFile(w, SkipHeader(r, offset), n, v)
<1> DEFINE at == FileSetPointer(r.m, r.f, offset)
<1>1. FileFine(w, at.m, at.f, n, v)
  BY FileSetPointerFine DEF AtFile
<1> HIDE DEF at
<1>2. AtFile(w, [m |-> at.m, f |-> at.f, ok |-> TRUE], n, v)
  BY <1>1, FileResults DEF AtFile
<1>3. SkipHeader(r, offset) = IF Continues(r) THEN [m |-> at.m, f |-> at.f, ok |-> TRUE] ELSE r
  BY DEF SkipHeader, at
<1> QED BY <1>2, <1>3

LEMMA ReadPixelsFine ==
  ASSUME NEW w, NEW at, NEW n, NEW v, AtFile(w, at, n, v), NEW pixels \in Nat
  PROVE  Fine(w, ReadPixels(at, pixels), n, v)
<1> DEFINE r == ReadOften(at, 1, pixels)
<1>1. ReadPixels(at, pixels) = IF Continues(r) THEN VFSFileClose(r) ELSE r.m
  BY DEF ReadPixels
<1>2. AtFile(w, r, n, v)
  BY ReadOftenFine
<1> HIDE DEF r
<1>3. Fine(w, VFSFileClose(r), n, v)
  BY <1>2, VFSFileCloseFine
<1>4. Fine(w, r.m, n, v)
  BY <1>2, FileForgotten DEF AtFile
<1> QED BY <1>1, <1>3, <1>4

LEMMA LoadBitmapFine ==
  ASSUME NEW w, NEW m, NEW n, NEW u, Fine(w, m, n, u), NEW text, NEW offset \in Nat, NEW pixels \in Nat
  PROVE  Leaves(w, LoadBitmap(m, text, offset, pixels), n, u)
<1> DEFINE o == FileOpenPath(m, text)
           r == FileRead(o.m, o.f, 1)
           s == SkipHeader(r, offset)
<1>1. LoadBitmap(m, text, offset, pixels) = IF ~o.ok THEN o.m ELSE ReadPixels(s, pixels)
  BY DEF LoadBitmap
<1>2. IF o.ok THEN Fresh(o.f) /\ \E x : u \subseteq x /\ FileFine(w, o.m, o.f, n, x)
      ELSE Leaves(w, o.m, n, u)
  BY FileOpenPathFine
<1> HIDE DEF o
<1>3. CASE o.ok
  <2>1. PICK x : u \subseteq x /\ FileFine(w, o.m, o.f, n, x)
    BY <1>2, <1>3
  <2>2. AtFile(w, r, n, x)
    BY <1>2, <1>3, <2>1, FileReadFine
  <2> HIDE DEF r
  <2>3. AtFile(w, s, n, x)
    BY <2>2, SkipHeaderFine
  <2> HIDE DEF s
  <2>4. Fine(w, ReadPixels(s, pixels), n, x)
    BY <2>3, ReadPixelsFine
  <2> QED BY <1>1, <1>3, <2>1, <2>4 DEF Leaves
<1>4. CASE ~o.ok
  BY <1>1, <1>2, <1>4
<1> QED BY <1>3, <1>4

\* What a command does beside the shell's handle, which stays where it was.
LEMMA Beside ==
  ASSUME NEW w, NEW m, NEW v, NEW n, NEW u, HandleFine(w, m, v, n, u),
         NEW k, Leaves(w, k, With(n, v.d.cache), u \cup {v.d.root})
  PROVE  HandleFine(w, k, v, n, u)
<1>1. PICK x : u \cup {v.d.root} \subseteq x /\ Fine(w, k, With(n, v.d.cache), x)
  BY DEF Leaves
<1>2. DirFine(w, k, v.d, n, x) /\ u \in SUBSET x
  BY <1>1 DEF HandleFine, DirFine
<1>3. DirFine(w, k, v.d, n, u \cup {v.d.root})
  BY <1>2, DirOnly
<1> QED BY <1>3 DEF HandleFine

-----------------------------------------------------------------------------
(* The invariant.                                                            *)

Clean(cache) == \A c \in Cached(cache) : ~cache[c].dirty

\* The disk e is the one that the writes that wait lead to.
ShellInv ==
  /\ \E e : HandleFine(World, Machine(fat, cacheObjects, e, pending, status, unsaved), dir, Nobody(World), {})
  /\ status = "ready" => Clean(cacheObjects)

LEMMA PromptFine ==
  ASSUME NEW w, NEW m, NEW v, NEW n, NEW u, HandleFine(w, m, v, n, u), NEW text
  PROVE  /\ HandleFine(w, Prompt(m, text), v, n, u)
         /\ Prompt(m, text).at = "ready" => Clean(Prompt(m, text).cache)
<1> DEFINE f == Flush(m)
           k == With(n, v.d.cache)
           x == u \cup {v.d.root}
           p == Prompt(m, text)
<1>1. Fine(w, m, k, x)
  BY DEF HandleFine, DirFine
<1> HIDE DEF k, x
<1>2. Fine(w, f, k, x) /\ \A c \in Cached(f.cache) : ~f.cache[c].dirty
  BY <1>1, FlushFine
<1> HIDE DEF f
<1>3. Fine(w, StoppedAt(f, "spoiled"), k, x) /\ StoppedAt(f, "spoiled").at = "spoiled"
  BY <1>2, Stops
<1>4. p = IF m.at # "ready" THEN m ELSE IF text.over THEN StoppedAt(f, "spoiled") ELSE f
  BY DEF Prompt, VFSFlush, StoppedAt, f
<1> HIDE DEF p
<1>5. Fine(w, p, k, x)
  BY <1>1, <1>2, <1>3, <1>4
<1>6. p.at = "ready" => p = f
  BY <1>3, <1>4
<1>7. HandleFine(w, p, v, n, u)
  BY <1>5 DEF HandleFine, DirFine, k, x
<1>8. p.at = "ready" => Clean(p.cache)
  BY <1>2, <1>6 DEF Clean
<1> QED BY <1>7, <1>8 DEF p

LEMMA Performed ==
  ASSUME NEW r, HandleFine(World, r.m, r.v, Nobody(World), {}), Perform(r)
  PROVE  ShellInv'
<1> DEFINE m == Prompt(r.m, TextOf(r.v.path))
<1>1. Commit(m) /\ dir' = r.v
  BY DEF Perform
<1>2. HandleFine(World, m, r.v, Nobody(World), {}) /\ (m.at = "ready" => Clean(m.cache))
  BY PromptFine
<1> HIDE DEF m
<1>3. IsMachine(m) /\ m.fat \in Tables(World)
  BY <1>2, Typing DEF HandleFine, DirFine
<1>4. /\ World' = World
      /\ Machine(fat', cacheObjects', m.disk, pending', status', unsaved') = m
  BY <1>1, <1>3, Committed
<1>5. status' = m.at /\ cacheObjects' = m.cache
  BY <1>1 DEF Commit
<1>6. HandleFine(World', Machine(fat', cacheObjects', m.disk, pending', status', unsaved'), dir', Nobody(World'), {})
  BY <1>1, <1>2, <1>4
<1>7. status' = "ready" => Clean(cacheObjects')
  BY <1>2, <1>5
<1> QED BY <1>6, <1>7 DEF ShellInv

LEMMA CommandBegins ==
  ASSUME ShellInv, Command
  PROVE  HandleFine(World, Now, dir, Nobody(World), {})
<1>1. PICK e : HandleFine(World, Machine(fat, cacheObjects, e, pending, status, unsaved), dir, Nobody(World), {})
  BY DEF ShellInv
<1>2. Now = Machine(fat, cacheObjects, e, pending, status, unsaved)
  BY <1>1, Begun DEF HandleFine, DirFine, Command
<1> QED BY <1>1, <1>2

LEMMA BesideStep ==
  ASSUME ShellInv, Command, NEW k, Perform([m |-> k, v |-> dir]),
         \A n, u : Fine(World, Now, n, u) => Leaves(World, k, n, u)
  PROVE  ShellInv'
<1> DEFINE r == [m |-> k, v |-> dir]
           n == With(Nobody(World), dir.d.cache)
           u == {} \cup {dir.d.root}
<1>1. HandleFine(World, Now, dir, Nobody(World), {})
  BY CommandBegins
<1>2. Fine(World, Now, n, u)
  BY <1>1 DEF HandleFine, DirFine
<1>3. Leaves(World, k, n, u)
  <2> HIDE DEF n, u
  <2> QED BY <1>2
<1>4. HandleFine(World, k, dir, Nobody(World), {})
  BY <1>1, <1>3, Beside
<1>5. r.m = k /\ r.v = dir /\ Perform(r)
  OBVIOUS
<1> HIDE DEF r
<1>6. HandleFine(World, r.m, r.v, Nobody(World), {})
  BY <1>4, <1>5
<1> QED BY <1>5, <1>6, Performed

LEMMA ShellDirKeeps ==
  ASSUME ShellInv, ShellDir
  PROVE  ShellInv'
<1> DEFINE r == List(Now, dir)
<1>1. Command /\ Perform(r)
  BY DEF ShellDir
<1>2. HandleFine(World, r.m, r.v, Nobody(World), {})
  BY <1>1, CommandBegins, ListFine
<1> HIDE DEF r
<1> QED BY <1>1, <1>2, Performed

LEMMA ShellCdKeeps ==
  ASSUME ShellInv, NEW name, ShellCd(name)
  PROVE  ShellInv'
<1> DEFINE r == DirectoryChange(Now, dir, name)
<1>1. Command /\ Perform(r)
  BY DEF ShellCd
<1>2. HandleFine(World, r.m, r.v, Nobody(World), {})
  BY <1>1, CommandBegins, DirectoryChangeFine
<1> HIDE DEF r
<1> QED BY <1>1, <1>2, Performed

LEMMA ShellCatKeeps ==
  ASSUME ShellInv, NEW name, ShellCat(name)
  PROVE  ShellInv'
<1> DEFINE r == Cat(Now, dir, name)
<1>1. Command /\ Perform(r)
  BY DEF ShellCat
<1>2. HandleFine(World, r.m, r.v, Nobody(World), {})
  BY <1>1, CommandBegins, CatFine
<1> HIDE DEF r
<1> QED BY <1>1, <1>2, Performed

LEMMA ShellMkdirKeeps ==
  ASSUME ShellInv, NEW name \in Names, ShellMkdir(name)
  PROVE  ShellInv'
<1> DEFINE r == VFSDirectoryCreate(Now, dir, name)
<1>1. Command /\ Perform(r)
  BY DEF ShellMkdir
<1>2. HandleFine(World, r.m, r.v, Nobody(World), {})
  BY <1>1, CommandBegins, VFSCreateFine
<1> HIDE DEF r
<1> QED BY <1>1, <1>2, Performed

LEMMA ShellTestKeeps ==
  ASSUME ShellInv, ShellTest
  PROVE  ShellInv'
<1>1. PICK update \in BOOLEAN : Perform([m |-> Test(Now, update), v |-> dir])
  BY DEF ShellTest
<1>2. \A n, u : Fine(World, Now, n, u) => Leaves(World, Test(Now, update), n, u)
  BY TestFine
<1> QED BY <1>1, <1>2, BesideStep DEF ShellTest

LEMMA ShellSplashKeeps ==
  ASSUME ShellInv, ShellSplash
  PROVE  ShellInv'
<1>1. \A n, u : Fine(World, Now, n, u) => Leaves(World, ShowSplash(Now), n, u)
  BY ShowSplashFine
<1> QED BY <1>1, BesideStep DEF ShellSplash

LEMMA LoadBitmapKeeps ==
  ASSUME ShellInv, KmainLoadBitmap
  PROVE  ShellInv'
<1> DEFINE text == <<Slash, MountPoint, Slash, Splash>>
<1>1. PICK offset \in 1..MaxSize, pixels \in {0, MaxSize - 2} :
        Perform([m |-> LoadBitmap(Now, text, offset, pixels), v |-> dir])
  BY DEF KmainLoadBitmap
<1>2. offset \in Nat /\ pixels \in Nat
  BY ShellAssumption, Constant
<1> HIDE DEF text
<1>3. \A n, u : Fine(World, Now, n, u) => Leaves(World, LoadBitmap(Now, text, offset, pixels), n, u)
  BY <1>2, LoadBitmapFine
<1> QED BY <1>1, <1>3, BesideStep DEF KmainLoadBitmap

LEMMA WritesKeep ==
  ASSUME ShellInv, DiskWrite, UNCHANGED <<dir, prompt>>
  PROVE  ShellInv'
<1>1. PICK e : HandleFine(World, Machine(fat, cacheObjects, e, pending, status, unsaved), dir, Nobody(World), {})
  BY DEF ShellInv
<1> DEFINE m == Machine(fat, cacheObjects, e, pending, status, unsaved)
           n == With(Nobody(World), dir.d.cache)
           u == {} \cup {dir.d.root}
           k == Machine(fat', cacheObjects', e, pending', status', unsaved')
<1>2. /\ m.fat = fat /\ m.cache = cacheObjects /\ m.log = pending /\ m.disk = e /\ m.at = status
      /\ m.unsaved = unsaved
  BY MachineFields
<1>3. Fine(World, m, n, u) /\ IsDir(World, dir.d) /\ HandleRecord(dir) /\ (~dir.fs => dir.d.cache = None)
      /\ dir.d.root \in u /\ Nobody(World) \in [World.entries -> Nat]
  BY <1>1 DEF HandleFine, DirFine
<1> HIDE DEF m
<1>4. /\ pending # <<>> /\ disk' = Written(disk, Head(pending)) /\ pending' = Tail(pending)
      /\ fat' = fat /\ cacheObjects' = cacheObjects /\ status' = status
      /\ unsaved' = unsaved /\ dangling' = dangling /\ dir' = dir
  BY DEF DiskWrite
<1>5. /\ World'.disk = Written(World.disk, Head(pending)) /\ World'.entries = World.entries
      /\ World'.dangling = World.dangling
  BY <1>4 DEF World
<1>6. Leads(World, pending, e)
  BY <1>2, <1>3, Typing
<1>7. Leads(World', Tail(pending), e)
  BY <1>4, <1>5, <1>6, LeadsTail
<1> HIDE DEF n, u
<1>8. Fine(World', Machine(fat, cacheObjects, e, Tail(pending), status, unsaved), n, u)
  BY <1>2, <1>3, <1>5, <1>7, FineElsewhere
<1>9. Fine(World', k, n, u)
  BY <1>4, <1>8
<1>10. Nobody(World') = Nobody(World) /\ IsDir(World', dir.d)
  BY <1>3, <1>5 DEF Nobody, IsDir
<1> HIDE DEF k
<1>11. DirFine(World', k, dir.d, Nobody(World'), u)
  BY <1>3, <1>5, <1>9, <1>10 DEF DirFine, n
<1>12. HandleFine(World', k, dir', Nobody(World'), {})
  BY <1>3, <1>4, <1>11 DEF HandleFine, u
<1>13. status' = "ready" => Clean(cacheObjects')
  BY <1>4 DEF ShellInv
<1> QED BY <1>12, <1>13 DEF ShellInv, k

\* A disk that was just mounted, and the shell at the mount points.
LEMMA MountedClean ==
  ASSUME NEW w, WorldOK(w), DiskOK(w, w.disk), Links(w, w.disk.fats[1])
  PROVE  HandleFine(w, Fresher(w), VFSDirectoryOpenRoot, Nobody(w), {}) /\ Clean(Fresher(w).cache)
<1>1. Fine(w, Fresher(w), Nobody(w), {0}) /\ Cached(Fresher(w).cache) = {}
  BY MountedFine, MachineFields DEF Fresher
<1>2. Nobody(w) \in [w.entries -> Nat] /\ \A b \in w.entries : Nobody(w)[b] <= Nobody(w)[b]
  BY DEF Nobody
<1>3. Fine(w, Fresher(w), Nobody(w), {})
  BY <1>1, <1>2, Fewer
<1> QED BY <1>1, <1>3, MountsFine DEF Clean

LEMMA RestartKeeps ==
  ASSUME ShellInv, Restart
  PROVE  ShellInv'
<1>1. WorldOK(World) /\ DiskOK(World, disk)
  BY DiskNow DEF ShellInv, HandleFine, DirFine
<1>2. /\ WorldOK(World') /\ DiskOK(World', World'.disk) /\ Links(World', World'.disk.fats[1])
      /\ Fresher(World') = Machine(fat', cacheObjects', disk', pending', status', unsaved')
  BY <1>1, Crashed DEF Restart
<1>3. HandleFine(World', Fresher(World'), VFSDirectoryOpenRoot, Nobody(World'), {}) /\ Clean(Fresher(World').cache)
  BY <1>2, MountedClean
<1>4. dir' = VFSDirectoryOpenRoot /\ Fresher(World').cache = cacheObjects'
  BY <1>2, MachineFields DEF Restart
<1>5. HandleFine(World', Machine(fat', cacheObjects', disk', pending', status', unsaved'), dir', Nobody(World'), {})
  BY <1>2, <1>3, <1>4
<1> QED BY <1>3, <1>4, <1>5 DEF ShellInv

LEMMA ShellStart ==
  ASSUME ShellInit
  PROVE  ShellInv
<1>1. /\ WorldOK(World) /\ DiskOK(World, World.disk) /\ Links(World, World.disk.fats[1])
      /\ Fresher(World) = Machine(fat, cacheObjects, disk, pending, status, unsaved)
  BY Started DEF ShellInit
<1>2. HandleFine(World, Fresher(World), VFSDirectoryOpenRoot, Nobody(World), {}) /\ Clean(Fresher(World).cache)
  BY <1>1, MountedClean
<1>3. dir = VFSDirectoryOpenRoot /\ Fresher(World).cache = cacheObjects
  BY <1>1, MachineFields DEF ShellInit
<1>4. HandleFine(World, Machine(fat, cacheObjects, disk, pending, status, unsaved), dir, Nobody(World), {})
  BY <1>1, <1>2, <1>3
<1> QED BY <1>2, <1>3, <1>4 DEF ShellInv

LEMMA ShellKeeps ==
  ASSUME ShellInv, [ShellNext]_shellVars
  PROVE  ShellInv'
<1>1. ASSUME NEW name \in Typed, ShellCd(name) PROVE ShellInv'
  BY <1>1, ShellCdKeeps
<1>2. ASSUME NEW name \in Typed, ShellCat(name) PROVE ShellInv'
  BY <1>2, ShellCatKeeps
<1>3. ASSUME NEW name \in Typed \cap Names, ShellMkdir(name) PROVE ShellInv'
  BY <1>3, ShellMkdirKeeps
<1>4. CASE ShellDir
  BY <1>4, ShellDirKeeps
<1>5. CASE ShellTest
  BY <1>5, ShellTestKeeps
<1>6. CASE ShellSplash
  BY <1>6, ShellSplashKeeps
<1>7. CASE KmainLoadBitmap
  BY <1>7, LoadBitmapKeeps
<1>8. CASE DiskWrite /\ UNCHANGED <<dir, prompt>>
  BY <1>8, WritesKeep
<1>9. CASE Restart
  BY <1>9, RestartKeeps
<1>10. CASE UNCHANGED shellVars
  BY <1>10 DEF shellVars, fatVars, ShellInv, World
<1> QED BY <1>1, <1>2, <1>3, <1>4, <1>5, <1>6, <1>7, <1>8, <1>9, <1>10 DEF ShellNext

LEMMA InvSaves ==
  ASSUME ShellInv
  PROVE  PromptSaves
<1>1. SUFFICES ASSUME status = "ready", pending = <<>>
               PROVE  /\ fat = disk.fats[1]
                      /\ \A c \in Cached(cacheObjects) :
                           cacheObjects[c].cells = disk.data[c] \/ c \in unsaved \cup dangling
  BY DEF PromptSaves
<1>2. PICK e : HandleFine(World, Machine(fat, cacheObjects, e, pending, status, unsaved), dir, Nobody(World), {})
  BY DEF ShellInv
<1> DEFINE n == With(Nobody(World), dir.d.cache)
           u == {} \cup {dir.d.root}
<1>3. Now = Machine(fat, cacheObjects, e, pending, status, unsaved)
  BY <1>1, <1>2, Begun DEF HandleFine, DirFine, Ready
<1>4. Fine(World, Now, n, u)
  BY <1>2, <1>3 DEF HandleFine, DirFine
<1>5. Now.fat = fat /\ Now.cache = cacheObjects /\ Now.disk = disk /\ Now.unsaved = unsaved /\ Now.at = "ready"
  BY <1>1 DEF Now
<1> HIDE DEF n, u
<1>6. AllKept(World, fat, cacheObjects, disk, unsaved)
  BY <1>4, <1>5 DEF Fine
<1>7. World.dangling = dangling /\ Clean(cacheObjects)
  BY <1>1 DEF World, ShellInv
<1> QED BY <1>6, <1>7 DEF AllKept, Kept, Clean

\* After the prompt of every command the table in memory is on the disk, and so is every
\* cluster in memory, whichever handle has changed it and whether that one was closed,
\* kept or forgotten: except for the data of files, and what was dangling when the
\* power failed.
THEOREM EverythingSaved == ShellSpec => []PromptSaves
<1>1. ShellInit => ShellInv
  BY ShellStart
<1>2. ShellInv /\ [ShellNext]_shellVars => ShellInv'
  BY ShellKeeps
<1>3. ShellInv => PromptSaves
  BY InvSaves
<1> QED BY <1>1, <1>2, <1>3, PTL DEF ShellSpec

=============================================================================
