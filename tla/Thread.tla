------------------------------- MODULE Thread -------------------------------
(***************************************************************************)
(* The kernel's threads and its preemptive scheduler                       *)
(* (kernel/Core/Thread.cpp), with the interrupt flag, the nesting counter  *)
(* of Interrupt::Disable and Enable (kernel/Core/Interrupt.cpp) and the    *)
(* timer interrupt that preempts (kernel/Core/Timer.cpp).                  *)
(*                                                                         *)
(* There is one processor.  Code that runs with the interrupt flag off is  *)
(* interrupted by nothing and is one step; every point at which the code   *)
(* runs with the flag on is a state of its own, where the timer may come   *)
(* in.  What a thread still has to do is the stack of program points       *)
(* stack[t], innermost first.                                              *)
(***************************************************************************)
EXTENDS Integers, FiniteSets, Sequences, SequencesExt

CONSTANTS Threads,      \* control blocks: the created and the still absent threads
          InitThread,   \* the thread that runs kmain
          idleThread,   \* the thread that runs Idle
          Calls,        \* the operations that the bodies of threads call
          MaxNest,      \* bound: points on one stack when an interrupt is taken
          MaxDisable    \* bound: nested Disable sections of one body

AllCalls == {"Create", "Start", "Pause", "Kill", "Lock",
             "NextThread", "Disable", "Delay", "Exit"}

ASSUME ThreadAssumption ==
  /\ InitThread \in Threads
  /\ idleThread \in Threads
  /\ InitThread # idleThread
  /\ Calls \subseteq AllCalls
  /\ MaxNest \in Nat
  /\ MaxDisable \in Nat

VARIABLES currentThread,
          threads,            \* Array: the threads _NextThread chooses from
          threadsQueue,       \* List: kept by SetState, read by Idle
          state,
          interruptDisabled,  \* the Disable nesting counter of each thread
          eflag,              \* the interrupt flag of the processor
          stack,
          target              \* the thread a suspended SetState is about

vars == <<currentThread, threads, threadsQueue, state, interruptDisabled,
          eflag, stack, target>>

States == {"Running", "Waiting", "Zombie", "Unstoppable"}

(***************************************************************************)
(* The points at which a thread can be found:                              *)
(*   ThreadStart         created, never run                                *)
(*   Body, Idle          in its entry function, in the idle loop           *)
(*   Exit, Spin          the entry has returned, the endless loop after it *)
(*   NextThread          about to call NextThread                          *)
(*   Enable              in NextThread, past its int $255                  *)
(*   Ack, iret           in an interrupt handler, before AckIRQ (a device  *)
(*                       handler: module Signal), before its return        *)
(*   Enqueue, PushBack,  in SetState, before it looks for the thread in    *)
(*   Dequeue             threadsQueue, appends it, removes it              *)
(*   DelayOn, DelayOff   in Delay, called with the flag on, with it off    *)
(***************************************************************************)
Points == {"ThreadStart", "Body", "Idle", "Exit", "Spin", "NextThread",
           "Enable", "Ack", "iret", "Enqueue", "PushBack", "Dequeue",
           "DelayOn", "DelayOff"}

TypeOK ==
  /\ currentThread \in Threads
  /\ threads \in Seq(Threads)
  /\ threadsQueue \in Seq(Threads)
  /\ state \in [Threads -> States \cup {"Absent"}]
  /\ interruptDisabled \in [Threads -> Int]
  /\ eflag \in BOOLEAN
  /\ stack \in [Threads -> Seq(Points)]
  /\ target \in [Threads -> Threads]

-----------------------------------------------------------------------------
OnTop(t, p) == stack[t] # <<>> /\ Head(stack[t]) = p
At(p) == OnTop(currentThread, p)
AtCall(c) == At("Body") /\ c \in Calls

Under(t, ps) == stack' = [stack EXCEPT ![t] = ps \o Tail(@)]  \* replace the top
Call(ps) == stack' = [stack EXCEPT ![currentThread] = ps \o @]
Return == stack' = [stack EXCEPT ![currentThread] = Tail(@)]

Created == {t \in Threads : state[t] # "Absent"}
Others == Created \ {idleThread}   \* idleThread is private to Thread.cpp

\* Disable and Enable around code that leaves the counter as it found it: the
\* flag ends on if that Enable brings the counter back to zero, else off.
Protected == eflag' = (interruptDisabled[currentThread] = 0)

DisableInterrupts ==
  /\ eflag' = FALSE
  /\ interruptDisabled' = [interruptDisabled EXCEPT ![currentThread] = @ + 1]

MutantEnableInterrupts ==
  /\ interruptDisabled' = [interruptDisabled EXCEPT ![currentThread] = @ - 1]
  /\ eflag' = TRUE

EnableInterrupts ==
  /\ interruptDisabled' = [interruptDisabled EXCEPT ![currentThread] = @ - 1]
  /\ eflag' = (eflag \/ interruptDisabled[currentThread] = 1)

\* The operations of SetState on threadsQueue: List::PushBack unless the list
\* contains the thread, and List::Remove, which takes out every occurrence.
PushBack(t) == threadsQueue' = Append(threadsQueue, t)

Enqueue(t) ==
  \/ Contains(threadsQueue, t) /\ UNCHANGED threadsQueue
  \/ ~Contains(threadsQueue, t) /\ PushBack(t)

Dequeue(t) ==
  LET kept == {i \in 1..Len(threadsQueue) : threadsQueue[i] # t}
  IN \E pick \in [1..Cardinality(kept) -> kept] :
       /\ \A i, j \in DOMAIN pick : i < j => pick[i] < pick[j]
       /\ threadsQueue' = [k \in DOMAIN pick |-> threadsQueue[pick[k]]]

Ready(s) == s \in {"Running", "Unstoppable"}

\* SetState where interrupts are off.
SetState(t, s) ==
  /\ state' = [state EXCEPT ![t] = s]
  /\ \/ state[t] = s /\ UNCHANGED threadsQueue
     \/ state[t] # s /\ Ready(s) /\ Enqueue(t)
     \/ state[t] # s /\ ~Ready(s) /\ Dequeue(t)

\* SetState where interrupts may be on: the state first, threadsQueue later.
BeginSetState(t, s) ==
  /\ state[t] # s
  /\ state' = [state EXCEPT ![t] = s]
  /\ target' = [target EXCEPT ![currentThread] = t]
  /\ Call(<<IF Ready(s) THEN "Enqueue" ELSE "Dequeue">>)
  /\ UNCHANGED <<currentThread, threads, threadsQueue, interruptDisabled, eflag>>

-----------------------------------------------------------------------------
\* The state Thread::Init leaves behind: kmain runs, Idle has been created.
Init ==
  /\ currentThread = InitThread
  /\ threads = <<idleThread>>
  /\ threadsQueue = <<>>
  /\ state = [t \in Threads |->
                IF t \in {InitThread, idleThread} THEN "Running" ELSE "Absent"]
  /\ interruptDisabled = [t \in Threads |-> 0]
  /\ eflag = TRUE
  /\ stack = [t \in Threads |-> CASE t = InitThread -> <<"Body">>
                                  [] t = idleThread -> <<"ThreadStart">>
                                  [] OTHER -> <<>>]
  /\ target = [t \in Threads |-> t]

MutantKeeps == threads = <<>>
MutantRequeue == Append(threads, currentThread)
MutantRequeueFirst ==
  IF state[currentThread] = "Running" THEN <<currentThread>> \o threads ELSE threads
MutantRequeueNext ==
  IF state[currentThread] = "Running"
  THEN <<Head(threads), currentThread>> \o Tail(threads) ELSE threads

\* _NextThread returns to the thread that called it ...
KeepsProcessor == state[currentThread] = "Unstoppable" \/ threads = <<>>

\* ... or puts it back, if it is Running still, before it chooses the next.
Requeued ==
  IF state[currentThread] = "Running" THEN Append(threads, currentThread) ELSE threads

\* NextThread up to its int $255, and _NextThread, which that raises.  The
\* flags of a new thread have the interrupt flag on, those saved by int $255 off.
NextThread ==
  LET next == IF Requeued = <<>> THEN idleThread ELSE Head(Requeued)
  IN /\ At("NextThread")
     /\ interruptDisabled' = [interruptDisabled EXCEPT ![currentThread] = @ + 1]
     /\ Under(currentThread, <<"Enable">>)
     /\ IF KeepsProcessor
        THEN /\ eflag' = FALSE
             /\ UNCHANGED <<currentThread, threads, state>>
        ELSE /\ threads' = IF Requeued = <<>> THEN Requeued ELSE Tail(Requeued)
             /\ currentThread' = next
             /\ state' = [state EXCEPT ![next] = "Running"]
             /\ eflag' = OnTop(next, "ThreadStart")
     /\ UNCHANGED <<threadsQueue, target>>

\* NextThread after int $255: its Enable.
NextThreadReturn ==
  /\ At("Enable")
  /\ EnableInterrupts
  /\ Return
  /\ UNCHANGED <<currentThread, threads, threadsQueue, state, target>>

ThreadStart ==
  /\ At("ThreadStart")
  /\ state' = [state EXCEPT ![currentThread] = "Running"]
  /\ Under(currentThread, <<IF currentThread = idleThread THEN "Idle" ELSE "Body">>)
  /\ UNCHANGED <<currentThread, threads, threadsQueue, interruptDisabled, eflag, target>>

\* The entry function returns; ThreadStart reports it as an Unstoppable thread ...
Exit ==
  /\ AtCall("Exit")
  /\ currentThread # InitThread
  /\ interruptDisabled[currentThread] = 0
  /\ state' = [state EXCEPT ![currentThread] = "Unstoppable"]
  /\ Under(currentThread, <<"Exit">>)
  /\ UNCHANGED <<currentThread, threads, threadsQueue, interruptDisabled, eflag, target>>

\* ... then becomes a Zombie and gives the processor away.
Terminate ==
  /\ At("Exit")
  /\ state' = [state EXCEPT ![currentThread] = "Zombie"]
  /\ Under(currentThread, <<"NextThread", "Spin">>)
  /\ UNCHANGED <<currentThread, threads, threadsQueue, interruptDisabled, eflag, target>>

\* One turn of the idle loop that does not end in hlt.
IdleLoop ==
  /\ At("Idle")
  /\ threadsQueue # <<>>
  /\ Protected
  /\ Call(<<"NextThread">>)
  /\ UNCHANGED <<currentThread, threads, threadsQueue, state, interruptDisabled, target>>

Yield ==
  /\ AtCall("NextThread")
  /\ Call(<<"NextThread">>)
  /\ UNCHANGED <<currentThread, threads, threadsQueue, state, interruptDisabled, eflag, target>>

Create(t) ==
  /\ AtCall("Create")
  /\ state[t] = "Absent"
  /\ threads' = Append(threads, t)
  /\ state' = [state EXCEPT ![t] = "Running"]
  /\ interruptDisabled' = [interruptDisabled EXCEPT ![t] = 0]
  /\ stack' = [stack EXCEPT ![t] = <<"ThreadStart">>]
  /\ Protected
  /\ UNCHANGED <<currentThread, threadsQueue, target>>

MutantStart(t) ==
  /\ AtCall("Start")
  /\ SetState(t, "Running")
  /\ threads' = IF state[t] = "Running" THEN threads ELSE Append(threads, t)
  /\ Protected
  /\ UNCHANGED <<currentThread, interruptDisabled, stack, target>>

Start(t) ==
  /\ AtCall("Start")
  /\ SetState(t, "Running")
  /\ Protected
  /\ UNCHANGED <<currentThread, threads, interruptDisabled, stack, target>>

Pause(t) == AtCall("Pause") /\ BeginSetState(t, "Waiting")
MutantKill(t) == AtCall("Kill") /\ BeginSetState(t, "Created")
Kill(t) == AtCall("Kill") /\ BeginSetState(t, "Zombie")
Lock == AtCall("Lock") /\ BeginSetState(currentThread, "Unstoppable")
Unlock == AtCall("Lock") /\ BeginSetState(currentThread, "Running")

\* What is left of a SetState: the thread may be preempted between the search
\* and the append.
MoveInQueue ==
  LET t == target[currentThread]
  IN /\ \/ /\ At("Enqueue")
           /\ ~Contains(threadsQueue, t)
           /\ Under(currentThread, <<"PushBack">>)
           /\ UNCHANGED <<threadsQueue, target>>
        \/ /\ \/ At("Enqueue") /\ Contains(threadsQueue, t) /\ UNCHANGED threadsQueue
              \/ At("PushBack") /\ PushBack(t)
              \/ At("Dequeue") /\ Dequeue(t)
           /\ Return
           /\ target' = [target EXCEPT ![currentThread] = currentThread]
     /\ UNCHANGED <<currentThread, threads, state, interruptDisabled, eflag>>

-----------------------------------------------------------------------------
Disable ==
  /\ AtCall("Disable")
  /\ interruptDisabled[currentThread] < MaxDisable
  /\ DisableInterrupts
  /\ UNCHANGED <<currentThread, threads, threadsQueue, state, stack, target>>

\* A body closes its own section; Enable asserts that there is one.
Enable ==
  /\ AtCall("Disable")
  /\ interruptDisabled[currentThread] > 0
  /\ EnableInterrupts
  /\ UNCHANGED <<currentThread, threads, threadsQueue, state, stack, target>>

\* Delay turns the flag on whatever it was and restores it when time is up.
Delay ==
  /\ AtCall("Delay")
  /\ Call(<<IF eflag THEN "DelayOn" ELSE "DelayOff">>)
  /\ eflag' = TRUE
  /\ UNCHANGED <<currentThread, threads, threadsQueue, state, interruptDisabled, target>>

DelayReturn ==
  /\ At("DelayOn") \/ At("DelayOff")
  /\ eflag' = At("DelayOn")
  /\ Return
  /\ UNCHANGED <<currentThread, threads, threadsQueue, state, interruptDisabled, target>>

\* IRQ 0: the handler acknowledges and calls NextThread.
TimerISR ==
  /\ eflag
  /\ Len(stack[currentThread]) < MaxNest
  /\ eflag' = FALSE
  /\ Call(<<"NextThread", "iret">>)
  /\ UNCHANGED <<currentThread, threads, threadsQueue, state, interruptDisabled, target>>

\* A handler returns: it was entered with the flag on.
InterruptReturn ==
  /\ At("iret")
  /\ eflag' = TRUE
  /\ Return
  /\ UNCHANGED <<currentThread, threads, threadsQueue, state, interruptDisabled, target>>

-----------------------------------------------------------------------------
Body ==
  \/ Exit \/ Yield \/ Lock \/ Unlock \/ Disable \/ Enable \/ Delay
  \/ \E t \in Threads : Create(t)
  \/ \E t \in Others : Start(t) \/ Pause(t) \/ Kill(t)

\* The steps the processor takes by itself inside the kernel's routines.
Kernel ==
  \/ NextThread \/ NextThreadReturn \/ ThreadStart \/ Terminate \/ IdleLoop
  \/ MoveInQueue \/ DelayReturn \/ InterruptReturn

Next == Body \/ Kernel \/ TimerISR

Spec == Init /\ [][Next]_vars

\* The processor does not stop inside the kernel; ticks are further apart than
\* the handler is long, so that the code they interrupt gets ahead; a body
\* leaves every section it enters; a tick that the interrupt controller holds
\* back while the flag is off is delivered later.
LeaveHandlers ==
  InterruptReturn /\ ~Contains(Tail(stack[currentThread]), "iret")
LeaveSection == Enable /\ interruptDisabled[currentThread] = 1
Fairness ==
  /\ WF_vars(Kernel)
  /\ SF_vars(LeaveHandlers) /\ SF_vars(Terminate)
  /\ SF_vars(LeaveSection)
  /\ SF_vars(TimerISR)
FairSpec == Spec /\ Fairness

-----------------------------------------------------------------------------
InDelay(t) == Contains(stack[t], "DelayOn") \/ Contains(stack[t], "DelayOff")

\* Idle never leaves the set of runnable threads: it calls nothing but
\* NextThread, and no other thread can name it.
IdlePoints == {"ThreadStart", "Idle", "NextThread", "Enable", "Ack", "iret"}

IdleOK ==
  /\ state[idleThread] = "Running"
  /\ stack[idleThread] \in Seq(IdlePoints)

\* Every ready thread waits in one place: threads holds no thread twice and
\* never the one that runs, and Idle is always there to be chosen, so that
\* _NextThread (Thread.cpp:248) never has to fall back on it.
ReadyQueueOK ==
  /\ \A i, j \in 1..Len(threads) : threads[i] = threads[j] => i = j
  /\ ~Contains(threads, currentThread)
  /\ idleThread = currentThread \/ Contains(threads, idleThread)

\* Interrupts stay off until the running thread has closed every Disable
\* section it is in, whichever threads ran since it opened them (Delay alone
\* opens them early, Timer.cpp:78), and the assertion of Interrupt::Enable
\* (Interrupt.cpp:377) holds where NextThread comes back.
SectionsHold ==
  /\ eflag /\ ~InDelay(currentThread) => interruptDisabled[currentThread] = 0
  /\ \A t \in Threads : OnTop(t, "Enable") => interruptDisabled[t] > 0

\* Lock excludes every other thread: at most one thread is Unstoppable and it
\* is the one that runs (Thread.cpp:221, 399).
UnstoppableRuns ==
  \A t \in Threads : state[t] = "Unstoppable" => t = currentThread

\* A thread whose entry function has returned is never chosen again once it
\* has given the processor away, whatever the others do to its state
\* (Thread.cpp:283).
TerminatedNeverReady ==
  \A t \in Threads \ {currentThread} :
    stack[t] # <<>> /\ Last(stack[t]) = "Spin" => ~Contains(threads, t)

\* The scheduler is a round robin: behind the interrupts, counters and states
\* it only rotates, shortens or extends one first-in first-out queue
\* (Thread.cpp:217 _NextThread, Thread.cpp:288 Create).
Abstract == INSTANCE RoundRobin WITH
  First <- InitThread, Second <- idleThread, running <- currentThread, ready <- threads
ImplementsRoundRobin == Abstract!Spec

\* No ready thread starves: preemption reaches every thread in threads, from
\* inside nested handlers, sections and delays too (Timer.cpp:38).
ReadyRuns == \A t \in Threads : Contains(threads, t) ~> currentThread = t
=============================================================================
