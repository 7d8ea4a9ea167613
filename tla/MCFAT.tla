-------------------------------- MODULE MCFAT --------------------------------
(* Clusters of two cells. *)
EXTENDS FAT

MCShort(name) == IF name = "A" THEN "a" ELSE name

File(name, c, size) == [Zero EXCEPT !.name = name, !.cluster = c, !.size = size]
Blank(entries, rest) ==
  [fats |-> [k \in 1..Copies |-> [c \in 0..(entries - 1) |-> rest]],
   data |-> [c \in Clusters |-> [i \in 0..(Size(c) - 1) |-> Data("old")]]]

Used(chain, first, cells(_, _)) ==
  [fats |-> [k \in 1..Copies |-> chain],
   data |-> [c \in Clusters |-> [i \in 0..(Size(c) - 1) |->
               IF <<c, i>> = <<0, 0>> THEN first ELSE IF c \in {2, 3} THEN cells(c, i) ELSE Zero]]]

TwoClusters == [c \in 0..LastCluster |->
                  CASE c = 2 -> 3 [] c \in {0, 1, 3} -> ClusterLast [] OTHER -> 0]

\* A disk just formatted, whose old second copy is full, with an entry in the
\* table for one cluster too many; one with a directory that goes over two
\* clusters, and one with a file that does, whose tables have no entry to spare.
MCDisks ==
  { Format(Blank(LastCluster + 2, ClusterLast)),
    Used(TwoClusters, DirCell("a", 2),
         LAMBDA c, i : CASE <<c, i>> = <<2, 0>> -> DirCell(".", 2)
                         [] <<c, i>> = <<2, 1>> -> DirCell("..", 0)
                         [] OTHER -> Zero),
    Used(TwoClusters, File("a", 2, 3), LAMBDA c, i : Data("x")) }
=============================================================================
