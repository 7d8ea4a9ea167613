------------------------------- MODULE MCShell -------------------------------
(* Clusters of three cells. *)
EXTENDS Shell

MCShort(name) == IF name = "A" THEN "a" ELSE name

MCWidth(piece) ==
  CASE piece = "a" -> 12 [] piece = MountPoint -> 3 [] piece = ".." -> 2 [] OTHER -> 1

Blank == [fats |-> [k \in 1..Copies |-> [c \in 0..LastCluster |-> 0]],
          data |-> [c \in Clusters |-> ZeroCells(c)]]

\* A disk just formatted, and one with a directory and with a file over two clusters.
MCDisks ==
  LET used == [c \in 0..LastCluster |->
                 CASE c = 3 -> 4 [] c \in {0, 1, 2, 4} -> ClusterLast [] OTHER -> 0]
  IN { Format(Blank),
       [fats |-> [k \in 1..Copies |-> used],
        data |-> [c \in Clusters |-> [i \in 0..(Size(c) - 1) |->
          CASE <<c, i>> = <<0, 0>> -> DirCell("a", 2)
            [] <<c, i>> = <<0, 1>> -> [Zero EXCEPT !.name = "s", !.cluster = 3, !.size = 4]
            [] <<c, i>> = <<2, 0>> -> DirCell(".", 2)
            [] <<c, i>> = <<2, 1>> -> DirCell("..", 0)
            [] c \in {3, 4} -> Data("x")
            [] OTHER -> Zero]]] }
=============================================================================
