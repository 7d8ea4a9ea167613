------------------------------- MODULE MCFloppy -------------------------------
(* A sector that describes partitions, and one that does not. *)
EXTENDS Floppy, TLC

MCTables == ("b" :> {[offset |-> 1, count |-> 2], [offset |-> 0, count |-> Total]})
            @@ ("x" :> {})

\* A disk with partitions and one without.
MCMedia == {[place \in Places |-> IF place = <<0, 0, 1>> THEN value ELSE "x"] : value \in Values}
=============================================================================
