----------------------------- MODULE RoundRobin -----------------------------
(***************************************************************************)
(* What the scheduler of kernel/Core/Thread.cpp promises: one processor,   *)
(* which a first-in first-out queue of ready threads takes in turn.  The   *)
(* running thread goes to the back of the queue or leaves it; a thread     *)
(* enters the queue once, when it is created; nobody is overtaken.         *)
(***************************************************************************)
EXTENDS Sequences

CONSTANTS Threads, First, Second

VARIABLES running, ready

Init == running = First /\ ready = <<Second>>

Spawn(t) ==
  /\ t # running
  /\ \A i \in DOMAIN ready : ready[i] # t
  /\ ready' = Append(ready, t)
  /\ UNCHANGED running

\* The running thread stays ready and waits its turn.
Rotate ==
  /\ ready # <<>>
  /\ running' = Head(ready)
  /\ ready' = Append(Tail(ready), running)

\* The running thread is not ready any more.
Leave ==
  /\ ready # <<>>
  /\ running' = Head(ready)
  /\ ready' = Tail(ready)

Next == Rotate \/ Leave \/ \E t \in Threads : Spawn(t)

Spec == Init /\ [][Next]_<<running, ready>>
=============================================================================
