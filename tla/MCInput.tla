------------------------------- MODULE MCInput -------------------------------
(* A mouse with one button. *)
EXTENDS Input

MCButtons == <<"Left">>
MCPackets == {[down |-> {}, moves |-> FALSE], [down |-> {"Left"}, moves |-> TRUE]}
=============================================================================
