------------------------------- MODULE Signal -------------------------------
(***************************************************************************)
(* Signals (kernel/Core/Signal.cpp): a thread waits for one, an interrupt  *)
(* handler or another thread raises it.  The handlers are those of the     *)
(* floppy controller (kernel/Block/Floppy.cpp) and the keyboard            *)
(* (kernel/Input/PS2.cpp, Keyboard.cpp): each device has a signal, which   *)
(* its handler raises before it acknowledges the interrupt to the first    *)
(* interrupt controller.                                                   *)
(***************************************************************************)
EXTENDS Thread

CONSTANTS Signals,      \* the signals, one for each device
          Irq,          \* the interrupt request line of each device
          Quiet         \* the devices whose handler may have nothing to raise

ASSUME SignalAssumption == Irq \in [Signals -> 1..7] /\ Quiet \subseteq Signals

VARIABLES raised, waitingThreads,
          inService,    \* the requests the controller takes as being handled
          unacked       \* the devices whose handler a thread is in, innermost first

signalVars == <<raised, waitingThreads>>
handlerVars == <<inService, unacked>>
allVars == <<vars, signalVars, handlerVars>>
-----------------------------------------------------------------------------
SignalInit ==
  /\ Init
  /\ raised = [s \in Signals |-> FALSE]
  /\ waitingThreads = [s \in Signals |-> <<>>]
  /\ inService = {}
  /\ unacked = [t \in Threads |-> <<>>]

\* A signal raised before is consumed at once ...
WaitRaised(s) ==
  /\ At("Body")
  /\ raised[s]
  /\ raised' = [raised EXCEPT ![s] = FALSE]
  /\ Protected
  /\ UNCHANGED <<currentThread, threads, threadsQueue, state, interruptDisabled,
                 stack, target, waitingThreads, handlerVars>>

MutantPark(s) ==
  /\ waitingThreads' = [waitingThreads EXCEPT ![s] = Append(@, currentThread)]
  /\ UNCHANGED <<state, threadsQueue>>

Park(s) ==
  /\ waitingThreads' = [waitingThreads EXCEPT ![s] = Append(@, currentThread)]
  /\ SetState(currentThread, "Waiting")

\* ... else the thread queues up; interrupts are on again before NextThread.
WaitBlocks(s) ==
  /\ At("Body")
  /\ ~raised[s]
  /\ Park(s)
  /\ Protected
  /\ Call(<<"NextThread">>)
  /\ UNCHANGED <<currentThread, threads, interruptDisabled, target, raised, handlerVars>>

MutantWake(s) ==
  /\ raised' = [raised EXCEPT ![s] = TRUE]
  /\ waitingThreads' = [waitingThreads EXCEPT ![s] = Tail(@)]
  /\ SetState(Head(waitingThreads[s]), "Running")

Wake(s) ==
  /\ raised' = [raised EXCEPT ![s] = FALSE]
  /\ waitingThreads' = [waitingThreads EXCEPT ![s] = Tail(@)]
  /\ SetState(Head(waitingThreads[s]), "Running")

\* The first waiter consumes the signal; without one it stays raised.
Raised(s) ==
  \/ waitingThreads[s] # <<>> /\ Wake(s)
  \/ /\ waitingThreads[s] = <<>>
     /\ raised' = [raised EXCEPT ![s] = TRUE]
     /\ UNCHANGED <<waitingThreads, state, threadsQueue>>

Raise(s) ==
  /\ At("Body")
  /\ Raised(s)
  /\ Protected
  /\ UNCHANGED <<currentThread, threads, interruptDisabled, stack, target, handlerVars>>

Reset(s) ==
  /\ At("Body")
  /\ raised' = [raised EXCEPT ![s] = FALSE]
  /\ Protected
  /\ UNCHANGED <<currentThread, threads, threadsQueue, state, interruptDisabled,
                 stack, target, waitingThreads, handlerVars>>

MutantEndOfInterrupt == {}

\* The controller lets a request in if it handles none of the same or a higher
\* priority, and keeps it in service until it is told of an end ...
Admits(s) == \A irq \in inService : Irq[s] < irq
Admit(s) == inService' = inService \cup {Irq[s]}

\* ... which names no request: it is the one of highest priority that ends.
EndOfInterrupt == {irq \in inService : \E other \in inService : other < irq}

\* A device interrupts; its handler raises its signal, or has not got all the
\* bytes of a key event yet and goes on with the flag off.
DeviceISR(s) ==
  /\ eflag
  /\ Len(stack[currentThread]) < MaxNest
  /\ Admits(s)
  /\ Admit(s)
  /\ unacked' = [unacked EXCEPT ![currentThread] = <<s>> \o @]
  /\ \/ Raised(s) /\ Protected
     \/ s \in Quiet /\ eflag' = FALSE /\ UNCHANGED <<signalVars, state, threadsQueue>>
  /\ Call(<<"Ack", "iret">>)
  /\ UNCHANGED <<currentThread, threads, interruptDisabled, target>>

AckIRQ ==
  /\ At("Ack")
  /\ inService' = EndOfInterrupt
  /\ unacked' = [unacked EXCEPT ![currentThread] = Tail(@)]
  /\ Return
  /\ UNCHANGED <<currentThread, threads, threadsQueue, state, interruptDisabled,
                 eflag, target, signalVars>>

-----------------------------------------------------------------------------
SignalCalls == \E s \in Signals : WaitRaised(s) \/ WaitBlocks(s) \/ Raise(s) \/ Reset(s)

Devices == \E s \in Signals : DeviceISR(s)

SignalNext ==
  \/ Next /\ UNCHANGED <<signalVars, handlerVars>>
  \/ SignalCalls
  \/ Devices
  \/ AckIRQ

SignalSpec == SignalInit /\ [][SignalNext]_allVars

-----------------------------------------------------------------------------
WaitingFor(t) == {s \in Signals : Contains(waitingThreads[s], t)}

\* No wake-up is lost: a signal is never both raised and waited for
\* (Signal.cpp:17 tests what Signal.cpp:34 sets).
NoWakeUpLost == \A s \in Signals : raised[s] => waitingThreads[s] = <<>>

\* A thread waits for one signal at a time, in one place of its queue, and does
\* not get the processor back before that signal is raised, whoever preempts it
\* on its way out of Wait (Signal.cpp:24-28) and whoever calls Start on it late.
WaitersParked ==
  /\ \A s \in Signals : \A i, j \in 1..Len(waitingThreads[s]) :
       waitingThreads[s][i] = waitingThreads[s][j] => i = j
  /\ \A t \in Threads : /\ Cardinality(WaitingFor(t)) <= 1
                        /\ WaitingFor(t) # {} => ~Contains(threads, t)

\* The handlers that have not acknowledged yet, numbered in each thread.
Handlers == {h \in Threads \X (1..MaxNest) : h[2] <= Len(unacked[h[1]])}

\* With several devices an end of interrupt may be taken for another request
\* than the handler's own, but there are as many requests in service as
\* handlers that have not acknowledged: no acknowledgement is one too many, and
\* none is missing when all of them are through (Interrupt.hpp:106).
ServiceCounted == Cardinality(inService) = Cardinality(Handlers)

\* A woken thread is where the scheduler finds it.
RunnableScheduled ==
  \A t \in Threads : state[t] = "Running" => t = currentThread \/ Contains(threads, t)
=============================================================================
