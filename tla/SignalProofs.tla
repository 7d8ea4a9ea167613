----------------------------- MODULE SignalProofs -----------------------------
(***************************************************************************)
(* Proofs about the scheduler and the stacks of its threads (module        *)
(* Thread), for any number of threads, any set of calls and any depth of   *)
(* nesting; and about signals and interrupt handlers (module Signal):      *)
(* sections hold with devices that interrupt, no wake-up is lost, a        *)
(* waiting thread does not get the processor, and requests and             *)
(* acknowledgements match.  For any threads, any signals, any request      *)
(* lines and any depth of nesting.                                         *)
(***************************************************************************)
EXTENDS Signal, SequenceTheorems, FiniteSetTheorems, WellFoundedInduction, TLAPS

-----------------------------------------------------------------------------
(* Pushing on and popping from a sequence.                                 *)

LEMMA PushType ==
  ASSUME NEW S, NEW s \in Seq(S), NEW ps \in Seq(S)
  PROVE  /\ ps \o s \in Seq(S)
         /\ s # <<>> => ps \o Tail(s) \in Seq(S)
BY ConcatProperties, HeadTailProperties

LEMMA PopType ==
  ASSUME NEW S, NEW s \in Seq(S), s # <<>>
  PROVE  Head(s) \in S /\ Tail(s) \in Seq(S)
BY HeadTailProperties

LEMMA PointSeqs ==
  /\ \A p \in Points : <<p>> \in Seq(Points)
  /\ \A p, q \in Points : <<p, q>> \in Seq(Points)
  /\ {"Enable", "Idle", "Body", "Exit", "NextThread", "Spin", "ThreadStart", "Dequeue",
      "Enqueue", "PushBack", "DelayOn", "DelayOff", "iret"} \subseteq Points
BY DEF Points

-----------------------------------------------------------------------------
(* What the operations on stacks and on threadsQueue preserve.             *)

LEMMA CallType ==
  ASSUME TypeOK, NEW ps \in Seq(Points), Call(ps)
  PROVE  stack' \in [Threads -> Seq(Points)]
<1>1. ps \o stack[currentThread] \in Seq(Points)
  BY PushType DEF TypeOK
<1>2. QED
  BY <1>1 DEF TypeOK, Call

LEMMA ReturnType ==
  ASSUME TypeOK, stack[currentThread] # <<>>, Return
  PROVE  stack' \in [Threads -> Seq(Points)]
<1>1. Tail(stack[currentThread]) \in Seq(Points)
  BY PopType DEF TypeOK
<1>2. QED
  BY <1>1 DEF TypeOK, Return

LEMMA UnderType ==
  ASSUME TypeOK, stack[currentThread] # <<>>,
         NEW ps \in Seq(Points), Under(currentThread, ps)
  PROVE  stack' \in [Threads -> Seq(Points)]
<1>1. ps \o Tail(stack[currentThread]) \in Seq(Points)
  BY PushType DEF TypeOK
<1>2. QED
  BY <1>1 DEF TypeOK, Under

LEMMA CounterType ==
  ASSUME TypeOK
  PROVE  /\ [interruptDisabled EXCEPT ![currentThread] = @ + 1] \in [Threads -> Int]
         /\ [interruptDisabled EXCEPT ![currentThread] = @ - 1] \in [Threads -> Int]
<1>1. interruptDisabled[currentThread] + 1 \in Int /\ interruptDisabled[currentThread] - 1 \in Int
  BY DEF TypeOK
<1>2. QED
  BY <1>1 DEF TypeOK

LEMMA PushBackType ==
  ASSUME TypeOK, NEW t \in Threads, PushBack(t)
  PROVE  threadsQueue' \in Seq(Threads)
BY AppendProperties DEF TypeOK, PushBack

LEMMA DequeueType ==
  ASSUME TypeOK, NEW t, Dequeue(t)
  PROVE  threadsQueue' \in Seq(Threads)
<1> DEFINE kept == {i \in 1..Len(threadsQueue) : threadsQueue[i] # t}
<1>1. Cardinality(kept) \in Nat
  <2>1. Len(threadsQueue) \in Nat
    BY LenProperties DEF TypeOK
  <2>2. IsFiniteSet(1..Len(threadsQueue))
    BY <2>1, FS_Interval
  <2>3. IsFiniteSet(kept)
    BY <2>2, FS_Subset
  <2>4. QED
    BY <2>3, FS_CardinalityType
<1>2. PICK pick \in [1..Cardinality(kept) -> kept] :
        threadsQueue' = [k \in DOMAIN pick |-> threadsQueue[pick[k]]]
  BY DEF Dequeue
<1>3. \A k \in 1..Cardinality(kept) : threadsQueue[pick[k]] \in Threads
  BY <1>2, ElementOfSeq DEF TypeOK
<1> HIDE DEF kept
<1>4. threadsQueue' \in [1..Cardinality(kept) -> Threads]
  BY <1>2, <1>3
<1>5. QED
  BY <1>1, <1>4

LEMMA QueueType ==
  ASSUME TypeOK, NEW t \in Threads, Enqueue(t) \/ Dequeue(t)
  PROVE  threadsQueue' \in Seq(Threads)
BY PushBackType, DequeueType DEF TypeOK, Enqueue

LEMMA SetStateType ==
  ASSUME TypeOK, NEW t \in Threads, NEW s \in States, SetState(t, s)
  PROVE  /\ state' \in [Threads -> States \cup {"Absent"}]
         /\ threadsQueue' \in Seq(Threads)
BY QueueType DEF TypeOK, SetState

LEMMA BeginSetStateType ==
  ASSUME TypeOK, NEW t \in Threads, NEW s \in States, BeginSetState(t, s)
  PROVE  TypeOK'
<1>1. stack' \in [Threads -> Seq(Points)]
  <2>1. <<"Enqueue">> \in Seq(Points) /\ <<"Dequeue">> \in Seq(Points)
    BY PointSeqs
  <2>2. QED
    BY <2>1, CallType DEF BeginSetState
<1>2. QED
  BY <1>1 DEF TypeOK, BeginSetState

-----------------------------------------------------------------------------
LEMMA TypeInit == Init => TypeOK
<1> SUFFICES ASSUME Init PROVE TypeOK
  OBVIOUS
<1>1. \A t \in Threads : stack[t] \in Seq(Points)
  BY PointSeqs DEF Init
<1>2. <<idleThread>> \in Seq(Threads) /\ <<>> \in Seq(Threads)
  BY ThreadAssumption
<1>3. QED
  BY <1>1, <1>2, ThreadAssumption DEF Init, TypeOK, States

LEMMA NextThreadType ==
  ASSUME TypeOK, NextThread
  PROVE  TypeOK'
<1>1. Requeued \in Seq(Threads)
  BY AppendProperties DEF TypeOK, Requeued
<1>2. stack' \in [Threads -> Seq(Points)]
  BY UnderType, PointSeqs DEF NextThread, At, OnTop
<1>3. /\ threads' \in Seq(Threads)
      /\ currentThread' \in Threads
      /\ state' \in [Threads -> States \cup {"Absent"}]
      /\ eflag' \in BOOLEAN
  <2>1. CASE KeepsProcessor
    BY <2>1 DEF NextThread, TypeOK
  <2>2. CASE ~KeepsProcessor
    <3> DEFINE next == IF Requeued = <<>> THEN idleThread ELSE Head(Requeued)
    <3>1. next \in Threads
      BY <1>1, PopType, ThreadAssumption
    <3>2. (IF Requeued = <<>> THEN Requeued ELSE Tail(Requeued)) \in Seq(Threads)
      BY <1>1, PopType
    <3>3. /\ threads' = IF Requeued = <<>> THEN Requeued ELSE Tail(Requeued)
          /\ currentThread' = next
          /\ state' = [state EXCEPT ![next] = "Running"]
          /\ eflag' = OnTop(next, "ThreadStart")
      BY <2>2 DEF NextThread
    <3> HIDE DEF next
    <3>4. QED
      BY <3>1, <3>2, <3>3 DEF TypeOK, States, OnTop
  <2>3. QED
    BY <2>1, <2>2
<1>4. QED
  BY <1>2, <1>3, CounterType DEF TypeOK, NextThread

LEMMA TypeNext ==
  ASSUME TypeOK, [Next]_vars
  PROVE  TypeOK'
<1> USE DEF At, OnTop, AtCall
<1>1. CASE NextThread
  BY <1>1, NextThreadType
<1>2. CASE NextThreadReturn
  BY <1>2, ReturnType DEF NextThreadReturn, EnableInterrupts, TypeOK
<1>3. CASE ThreadStart
  <2>1. stack' \in [Threads -> Seq(Points)]
    BY <1>3, UnderType, PointSeqs DEF ThreadStart
  <2>2. QED
    BY <1>3, <2>1 DEF ThreadStart, TypeOK, States
<1>4. CASE Exit
  <2>1. stack' \in [Threads -> Seq(Points)]
    BY <1>4, UnderType, PointSeqs DEF Exit
  <2>2. QED
    BY <1>4, <2>1 DEF Exit, TypeOK, States
<1>5. CASE Terminate
  <2>1. stack' \in [Threads -> Seq(Points)]
    BY <1>5, UnderType, PointSeqs DEF Terminate
  <2>2. QED
    BY <1>5, <2>1 DEF Terminate, TypeOK, States
<1>6. CASE IdleLoop
  <2>1. stack' \in [Threads -> Seq(Points)]
    BY <1>6, CallType, PointSeqs DEF IdleLoop
  <2>2. QED
    BY <1>6, <2>1 DEF IdleLoop, Protected, TypeOK
<1>7. CASE Yield
  <2>1. stack' \in [Threads -> Seq(Points)]
    BY <1>7, CallType, PointSeqs DEF Yield
  <2>2. QED
    BY <1>7, <2>1 DEF Yield, TypeOK
<1>8. ASSUME NEW t \in Threads, Create(t) PROVE TypeOK'
  <2>1. stack' \in [Threads -> Seq(Points)]
    BY <1>8, PointSeqs DEF Create, TypeOK
  <2>2. threads' \in Seq(Threads)
    BY <1>8, AppendProperties DEF Create, TypeOK
  <2>3. QED
    BY <1>8, <2>1, <2>2 DEF Create, Protected, TypeOK, States
<1>9. ASSUME NEW t \in Others, Start(t) PROVE TypeOK'
  BY <1>9, SetStateType DEF Start, Protected, TypeOK, States, Others, Created
<1>10. ASSUME NEW t \in Others, Pause(t) PROVE TypeOK'
  BY <1>10, BeginSetStateType DEF Pause, States, Others, Created
<1>11. ASSUME NEW t \in Others, Kill(t) PROVE TypeOK'
  BY <1>11, BeginSetStateType DEF Kill, States, Others, Created
<1>12. CASE Lock \/ Unlock
  BY <1>12, BeginSetStateType DEF Lock, Unlock, States, TypeOK
<1>13. CASE MoveInQueue
  <2> DEFINE t == target[currentThread]
  <2>1. t \in Threads
    BY DEF TypeOK
  <2>2. threadsQueue' \in Seq(Threads)
    BY <1>13, <2>1, PushBackType, DequeueType DEF MoveInQueue, TypeOK
  <2>3. stack' \in [Threads -> Seq(Points)]
    BY <1>13, ReturnType, UnderType, PointSeqs DEF MoveInQueue
  <2>4. target' \in [Threads -> Threads]
    BY <1>13 DEF MoveInQueue, TypeOK
  <2>5. QED
    BY <1>13, <2>2, <2>3, <2>4 DEF MoveInQueue, TypeOK
<1>14. CASE Disable
  BY <1>14, CounterType DEF Disable, DisableInterrupts, TypeOK
<1>15. CASE Enable
  BY <1>15 DEF Enable, EnableInterrupts, TypeOK
<1>16. CASE Delay
  <2>1. stack' \in [Threads -> Seq(Points)]
    BY <1>16, CallType, PointSeqs DEF Delay
  <2>2. QED
    BY <1>16, <2>1 DEF Delay, TypeOK
<1>17. CASE DelayReturn
  BY <1>17, ReturnType DEF DelayReturn, TypeOK
<1>18. CASE TimerISR
  <2>1. stack' \in [Threads -> Seq(Points)]
    BY <1>18, CallType, PointSeqs DEF TimerISR
  <2>2. QED
    BY <1>18, <2>1 DEF TimerISR, TypeOK
<1>19. CASE InterruptReturn
  BY <1>19, ReturnType DEF InterruptReturn, TypeOK
<1>20. CASE UNCHANGED vars
  BY <1>20 DEF vars, TypeOK
<1>21. QED
  BY <1>1, <1>2, <1>3, <1>4, <1>5, <1>6, <1>7, <1>8, <1>9, <1>10, <1>11,
     <1>12, <1>13, <1>14, <1>15, <1>16, <1>17, <1>18, <1>19, <1>20
  DEF Next, Body, Kernel

\* The variables keep their types.
THEOREM TypeCorrect == Spec => []TypeOK
<1>1. QED
  BY TypeInit, TypeNext, PTL DEF Spec

-----------------------------------------------------------------------------
(* The ready queue.                                                        *)

\* The threads that run or are ready have been created.
Existing ==
  /\ state[currentThread] # "Absent"
  /\ \A i \in 1..Len(threads) : state[threads[i]] # "Absent"

\* The inductive invariant: ReadyQueueOK needs IdleOK where Idle gives the
\* processor away, and Existing where a new thread joins the queue.
QueueInv == TypeOK /\ IdleOK /\ Existing /\ ReadyQueueOK

Distinct(s) == \A i, j \in 1..Len(s) : s[i] = s[j] => i = j

LEMMA AppendDistinct ==
  ASSUME NEW S, NEW s \in Seq(S), NEW e \in S, Distinct(s), ~Contains(s, e)
  PROVE  /\ Distinct(Append(s, e))
         /\ \A x : Contains(Append(s, e), x) <=> Contains(s, x) \/ x = e
BY AppendProperties, LenProperties DEF Distinct, Contains

LEMMA TailDistinct ==
  ASSUME NEW S, NEW s \in Seq(S), s # <<>>, Distinct(s)
  PROVE  /\ Distinct(Tail(s))
         /\ ~Contains(Tail(s), Head(s))
         /\ \A x : Contains(s, x) <=> x = Head(s) \/ Contains(Tail(s), x)
<1>1. /\ Tail(s) \in Seq(S)
      /\ Len(Tail(s)) = Len(s) - 1
      /\ \A i \in 1..Len(Tail(s)) : Tail(s)[i] = s[i + 1]
      /\ Len(s) \in Nat \ {0}
      /\ Head(s) = s[1]
  BY HeadTailProperties, EmptySeq
<1>2. Distinct(Tail(s)) /\ ~Contains(Tail(s), Head(s))
  BY <1>1 DEF Distinct, Contains
<1>3. ASSUME NEW x, Contains(s, x) PROVE x = Head(s) \/ Contains(Tail(s), x)
  <2>1. PICK i \in 1..Len(s) : s[i] = x
    BY <1>3 DEF Contains
  <2>2. i # 1 => i - 1 \in 1..Len(Tail(s)) /\ Tail(s)[i - 1] = x
    BY <1>1, <2>1
  <2>3. QED
    BY <1>1, <2>1, <2>2 DEF Contains
<1>4. ASSUME NEW x, x = Head(s) \/ Contains(Tail(s), x) PROVE Contains(s, x)
  BY <1>1, <1>4 DEF Contains
<1>5. QED
  BY <1>2, <1>3, <1>4

LEMMA NextThreadQueue ==
  ASSUME QueueInv, NextThread
  PROVE  Existing' /\ ReadyQueueOK'
<1>1. CASE KeepsProcessor
  BY <1>1 DEF NextThread, QueueInv, Existing, ReadyQueueOK
<1>2. CASE ~KeepsProcessor
  <2>1. /\ Requeued \in Seq(Threads)
        /\ Requeued # <<>>
        /\ Distinct(Requeued)
        /\ \A t : Contains(Requeued, t) => t = currentThread \/ Contains(threads, t)
        /\ Contains(Requeued, idleThread)
    <3>1. /\ threads \in Seq(Threads) /\ currentThread \in Threads
          /\ Distinct(threads) /\ ~Contains(threads, currentThread)
      BY DEF QueueInv, TypeOK, ReadyQueueOK, Distinct
    <3>2. CASE state[currentThread] = "Running"
      BY <3>1, <3>2, AppendDistinct, AppendProperties DEF Requeued, QueueInv, ReadyQueueOK
    <3>3. CASE state[currentThread] # "Running"
      BY <1>2, <3>1, <3>3 DEF Requeued, KeepsProcessor, QueueInv, ReadyQueueOK, IdleOK
    <3>4. QED
      BY <3>2, <3>3
  <2>2. /\ threads' = Tail(Requeued)
        /\ currentThread' = Head(Requeued)
        /\ state' = [state EXCEPT ![Head(Requeued)] = "Running"]
    BY <1>2, <2>1 DEF NextThread
  <2>3. /\ Distinct(Tail(Requeued))
        /\ ~Contains(Tail(Requeued), Head(Requeued))
        /\ \A t : Contains(Requeued, t) <=> t = Head(Requeued) \/ Contains(Tail(Requeued), t)
    BY <2>1, TailDistinct
  <2>4. ReadyQueueOK'
    BY <2>1, <2>2, <2>3 DEF ReadyQueueOK, Distinct
  <2>5. \A t : Contains(Requeued, t) => state[t] # "Absent"
    BY <2>1 DEF QueueInv, Existing, Contains
  <2>6. Existing'
    <3>1. /\ Head(Requeued) \in Threads
          /\ \A i \in 1..Len(Tail(Requeued)) : Tail(Requeued)[i] \in Threads
      BY <2>1, PopType, ElementOfSeq
    <3>2. \A i \in 1..Len(Tail(Requeued)) : Contains(Requeued, Tail(Requeued)[i])
      BY <2>3 DEF Contains
    <3>3. QED
      BY <2>2, <2>5, <3>1, <3>2 DEF Existing, QueueInv, TypeOK
  <2>7. QED
    BY <2>4, <2>6
<1>3. QED
  BY <1>1, <1>2

LEMMA QueueInit == Init => QueueInv
<1> SUFFICES ASSUME Init PROVE QueueInv
  OBVIOUS
<1>1. TypeOK
  BY TypeInit
<1>2. stack[idleThread] \in Seq(IdlePoints)
  BY ThreadAssumption DEF Init, IdlePoints
<1>3. QED
  BY <1>1, <1>2, ThreadAssumption DEF Init, QueueInv, IdleOK, Existing, ReadyQueueOK, Contains

LEMMA IdlePointSeqs ==
  /\ \A p \in IdlePoints : <<p>> \in Seq(IdlePoints)
  /\ \A p, q \in IdlePoints : <<p, q>> \in Seq(IdlePoints)
  /\ {"Idle", "NextThread", "Enable", "iret"} \subseteq IdlePoints
  /\ \A p \in {"Body", "Exit", "Enqueue", "PushBack", "Dequeue", "DelayOn", "DelayOff"} :
       p \notin IdlePoints
BY DEF IdlePoints

\* The points of Idle's own stack.
LEMMA IdleAt ==
  ASSUME IdleOK, currentThread = idleThread, NEW p, At(p)
  PROVE  p \in IdlePoints
<1>1. stack[idleThread] \in Seq(IdlePoints) /\ stack[idleThread] # <<>>
  BY DEF IdleOK, At, OnTop
<1>2. Head(stack[idleThread]) \in IdlePoints
  BY <1>1, PopType
<1>3. QED
  BY <1>2 DEF At, OnTop

LEMMA IdleNext ==
  ASSUME TypeOK, IdleOK, [Next]_vars
  PROVE  IdleOK'
<1> USE ThreadAssumption
<1>1. ASSUME NEW p \in {"Body", "Exit", "Enqueue", "PushBack", "Dequeue", "DelayOn", "DelayOff"},
             At(p)
      PROVE  currentThread # idleThread
  BY <1>1, IdleAt, IdlePointSeqs
<1>2. ASSUME NEW ps \in Seq(IdlePoints), Call(ps)
      PROVE  stack'[idleThread] \in Seq(IdlePoints)
  BY <1>2, PushType DEF Call, TypeOK, IdleOK
<1>3. ASSUME NEW ps \in Seq(IdlePoints), Under(currentThread, ps), stack[currentThread] # <<>>
      PROVE  stack'[idleThread] \in Seq(IdlePoints)
  BY <1>3, PushType DEF Under, TypeOK, IdleOK
<1>4. ASSUME Return, stack[currentThread] # <<>>
      PROVE  stack'[idleThread] \in Seq(IdlePoints)
  BY <1>4, HeadTailProperties DEF Return, TypeOK, IdleOK
<1>5. CASE NextThread
  <2>1. stack'[idleThread] \in Seq(IdlePoints)
    BY <1>3, <1>5, IdlePointSeqs DEF NextThread, At, OnTop
  <2>2. state'[idleThread] = "Running"
    BY <1>5 DEF NextThread, IdleOK, TypeOK
  <2>3. QED
    BY <2>1, <2>2 DEF IdleOK
<1>6. CASE NextThreadReturn \/ InterruptReturn
  BY <1>4, <1>6 DEF NextThreadReturn, InterruptReturn, At, OnTop, IdleOK
<1>7. CASE ThreadStart
  <2>1. stack'[idleThread] \in Seq(IdlePoints)
    <3>1. CASE currentThread = idleThread
      BY <1>3, <1>7, <3>1, IdlePointSeqs DEF ThreadStart, At, OnTop
    <3>2. CASE currentThread # idleThread
      BY <1>7, <3>2 DEF ThreadStart, Under, TypeOK, IdleOK
    <3>3. QED
      BY <3>1, <3>2
  <2>2. QED
    BY <1>7, <2>1 DEF ThreadStart, IdleOK, TypeOK
<1>8. CASE IdleLoop \/ TimerISR
  <2>1. stack'[idleThread] \in Seq(IdlePoints)
    BY <1>2, <1>8, IdlePointSeqs DEF IdleLoop, TimerISR
  <2>2. QED
    BY <1>8, <2>1 DEF IdleLoop, TimerISR, IdleOK
<1>9. CASE Exit \/ Terminate
  <2>1. currentThread # idleThread
    BY <1>1, <1>9 DEF Exit, Terminate, AtCall
  <2>2. QED
    BY <1>9, <2>1 DEF Exit, Terminate, Under, IdleOK, TypeOK
<1>10. CASE Yield \/ Delay \/ Disable \/ Enable
  <2>1. currentThread # idleThread
    BY <1>1, <1>10 DEF Yield, Delay, Disable, Enable, AtCall
  <2>2. QED
    BY <1>10, <2>1 DEF Yield, Delay, Disable, Enable, Call, IdleOK, TypeOK
<1>11. CASE Lock \/ Unlock
  <2>1. currentThread # idleThread
    BY <1>1, <1>11 DEF Lock, Unlock, AtCall
  <2>2. QED
    BY <1>11, <2>1 DEF Lock, Unlock, BeginSetState, Call, IdleOK, TypeOK
<1>12. CASE MoveInQueue \/ DelayReturn
  <2>1. currentThread # idleThread
    BY <1>1, <1>12 DEF MoveInQueue, DelayReturn
  <2>2. QED
    BY <1>12, <2>1 DEF MoveInQueue, DelayReturn, Return, Under, IdleOK, TypeOK
<1>13. ASSUME NEW t \in Threads, Create(t) PROVE IdleOK'
  <2>1. t # idleThread
    BY <1>13 DEF Create, IdleOK
  <2>2. QED
    BY <1>13, <2>1 DEF Create, IdleOK, TypeOK
<1>14. ASSUME NEW t \in Others, Start(t) \/ Pause(t) \/ Kill(t) PROVE IdleOK'
  <2>1. t # idleThread /\ currentThread # idleThread
    BY <1>1, <1>14 DEF Others, Start, Pause, Kill, AtCall
  <2>2. QED
    BY <1>14, <2>1
    DEF Start, Pause, Kill, SetState, BeginSetState, Call, IdleOK, TypeOK
<1>15. CASE UNCHANGED vars
  BY <1>15 DEF vars, IdleOK
<1>16. QED
  BY <1>5, <1>6, <1>7, <1>8, <1>9, <1>10, <1>11, <1>12, <1>13, <1>14, <1>15
  DEF Next, Body, Kernel

\* What every step but NextThread and Create leaves alone.
LEMMA QueueFrame ==
  ASSUME TypeOK, [Next]_vars, ~NextThread, \A t \in Threads : ~Create(t)
  PROVE  /\ UNCHANGED <<currentThread, threads>>
         /\ \A t \in Threads : state[t] # "Absent" => state'[t] # "Absent"
<1>1. ASSUME NEW t \in Others, Start(t) \/ Pause(t) \/ Kill(t)
      PROVE  /\ UNCHANGED <<currentThread, threads>>
             /\ \A u \in Threads : state[u] # "Absent" => state'[u] # "Absent"
  BY <1>1 DEF Start, Pause, Kill, SetState, BeginSetState, TypeOK
<1>2. CASE Exit \/ Yield \/ Lock \/ Unlock \/ Disable \/ Enable \/ Delay
  BY <1>2 DEF Exit, Yield, Lock, Unlock, BeginSetState, Disable, Enable, Delay, TypeOK
<1>3. CASE Kernel \/ TimerISR
  BY <1>3 DEF Kernel, NextThreadReturn, ThreadStart, Terminate, IdleLoop, MoveInQueue,
              DelayReturn, InterruptReturn, TimerISR, TypeOK
<1>4. QED
  BY <1>1, <1>2, <1>3 DEF Next, Body, vars

LEMMA QueueNext ==
  ASSUME QueueInv, [Next]_vars
  PROVE  QueueInv'
<1>1. TypeOK' /\ IdleOK'
  BY TypeNext, IdleNext DEF QueueInv
<1>2. CASE NextThread
  BY <1>1, <1>2, NextThreadQueue DEF QueueInv
<1>3. ASSUME NEW t \in Threads, Create(t)
      PROVE  Existing' /\ ReadyQueueOK'
  <2>1. t # currentThread /\ ~Contains(threads, t)
    BY <1>3 DEF Create, QueueInv, Existing, Contains
  <2>2. /\ Distinct(Append(threads, t))
        /\ \A u : Contains(Append(threads, t), u) <=> Contains(threads, u) \/ u = t
    BY <2>1, AppendDistinct DEF QueueInv, TypeOK, ReadyQueueOK, Distinct
  <2>3. ReadyQueueOK'
    BY <1>3, <2>1, <2>2 DEF Create, QueueInv, ReadyQueueOK, Distinct
  <2>4. Existing'
    <3>1. \A u \in Threads : state'[u] = IF u = t THEN "Running" ELSE state[u]
      BY <1>3 DEF Create, QueueInv, TypeOK
    <3>2. \A i \in 1..Len(Append(threads, t)) :
            LET u == Append(threads, t)[i] IN u \in Threads /\ (u = t \/ Contains(threads, u))
      BY <2>2, AppendProperties, ElementOfSeq DEF QueueInv, TypeOK, Contains
    <3>3. currentThread' = currentThread /\ currentThread \in Threads
      BY <1>3 DEF Create, QueueInv, TypeOK
    <3>4. \A u : Contains(threads, u) => state[u] # "Absent"
      BY DEF QueueInv, Existing, Contains
    <3>5. \A i \in 1..Len(threads') : state'[threads'[i]] # "Absent"
      BY <1>3, <3>1, <3>2, <3>4 DEF Create
    <3>6. state'[currentThread'] # "Absent"
      BY <3>1, <3>3 DEF QueueInv, Existing
    <3>7. QED
      BY <3>5, <3>6 DEF Existing
  <2>5. QED
    BY <2>3, <2>4
<1>4. CASE ~NextThread /\ \A t \in Threads : ~Create(t)
  <2>1. /\ UNCHANGED <<currentThread, threads>>
        /\ \A t \in Threads : state[t] # "Absent" => state'[t] # "Absent"
    BY <1>4, QueueFrame DEF QueueInv
  <2>2. ReadyQueueOK'
    BY <2>1 DEF QueueInv, ReadyQueueOK
  <2>3. Existing'
    BY <2>1, ElementOfSeq DEF QueueInv, Existing, TypeOK
  <2>4. QED
    BY <1>1, <2>2, <2>3 DEF QueueInv
<1>5. QED
  BY <1>1, <1>2, <1>3, <1>4 DEF QueueInv

\* Every ready thread waits in one place, and Idle can always be chosen.
THEOREM ReadyQueue == Spec => []ReadyQueueOK
<1>1. QueueInv => ReadyQueueOK
  BY DEF QueueInv
<1>2. QED
  BY <1>1, QueueInit, QueueNext, PTL DEF Spec

-----------------------------------------------------------------------------
(* Lock.                                                                   *)

LEMMA UnstoppableNext ==
  ASSUME TypeOK, UnstoppableRuns, [Next]_vars
  PROVE  UnstoppableRuns'
<1>1. CASE NextThread
  <2>1. CASE KeepsProcessor
    BY <1>1, <2>1 DEF NextThread, UnstoppableRuns
  <2>2. CASE ~KeepsProcessor
    <3>1. \A t \in Threads : state[t] # "Unstoppable"
      BY <2>2 DEF KeepsProcessor, UnstoppableRuns
    <3>2. \A t \in Threads : state'[t] \in {state[t], "Running"}
      BY <1>1, <2>2 DEF NextThread, TypeOK
    <3>3. QED
      BY <3>1, <3>2 DEF UnstoppableRuns
  <2>3. QED
    BY <2>1, <2>2
<1>2. ASSUME NEW t \in Others, Start(t) \/ Pause(t) \/ Kill(t)
      PROVE  UnstoppableRuns'
  BY <1>2 DEF Start, Pause, Kill, SetState, BeginSetState, TypeOK, UnstoppableRuns
<1>3. ASSUME NEW t \in Threads, Create(t)
      PROVE  UnstoppableRuns'
  BY <1>3 DEF Create, TypeOK, UnstoppableRuns
<1>4. CASE Exit \/ Yield \/ Lock \/ Unlock \/ Disable \/ Enable \/ Delay
  BY <1>4 DEF Exit, Yield, Lock, Unlock, BeginSetState, Disable, Enable, Delay, TypeOK,
              UnstoppableRuns
<1>5. CASE NextThreadReturn \/ ThreadStart \/ Terminate \/ IdleLoop \/ MoveInQueue
           \/ DelayReturn \/ InterruptReturn \/ TimerISR
  BY <1>5 DEF NextThreadReturn, ThreadStart, Terminate, IdleLoop, MoveInQueue,
              DelayReturn, InterruptReturn, TimerISR, TypeOK, UnstoppableRuns
<1>6. CASE UNCHANGED vars
  BY <1>6 DEF vars, UnstoppableRuns
<1>7. QED
  BY <1>1, <1>2, <1>3, <1>4, <1>5, <1>6 DEF Next, Body, Kernel

\* A thread that has called Lock keeps the processor until it unlocks: no
\* other thread is Unstoppable, none runs.
THEOREM LockExcludes == Spec => []UnstoppableRuns
<1>1. Init => UnstoppableRuns
  BY DEF Init, UnstoppableRuns
<1>2. QED
  BY <1>1, TypeInit, TypeNext, UnstoppableNext, PTL DEF Spec

-----------------------------------------------------------------------------
(* The round robin.                                                        *)

LEMMA NextThreadRotates ==
  ASSUME QueueInv, NextThread
  PROVE  [Abstract!Next]_<<currentThread, threads>>
<1> DEFINE self == currentThread
<1>1. threads \in Seq(Threads) /\ self \in Threads
  BY DEF QueueInv, TypeOK
<1>2. CASE KeepsProcessor
  BY <1>2 DEF NextThread
<1>3. CASE threads # <<>> /\ state[self] = "Running"
  <2>1. /\ Append(threads, self) # <<>>
        /\ Head(Append(threads, self)) = Head(threads)
        /\ Tail(Append(threads, self)) = Append(Tail(threads), self)
    BY <1>1, <1>3
  <2>2. /\ currentThread' = Head(threads)
        /\ threads' = Append(Tail(threads), self)
    BY <1>3, <2>1 DEF NextThread, KeepsProcessor, Requeued
  <2>3. QED
    BY <1>3, <2>2 DEF Abstract!Next, Abstract!Rotate
<1>4. CASE threads # <<>> /\ state[self] \notin {"Running", "Unstoppable"}
  <2>1. currentThread' = Head(threads) /\ threads' = Tail(threads)
    BY <1>4 DEF NextThread, KeepsProcessor, Requeued
  <2>2. QED
    BY <1>4, <2>1 DEF Abstract!Next, Abstract!Leave
<1>5. QED
  BY <1>2, <1>3, <1>4 DEF KeepsProcessor

LEMMA StepRotates ==
  ASSUME QueueInv, [Next]_vars
  PROVE  [Abstract!Next]_<<currentThread, threads>>
<1>1. CASE NextThread
  BY <1>1, NextThreadRotates
<1>2. ASSUME NEW t \in Threads, Create(t)
      PROVE  Abstract!Next
  <2>1. t # currentThread /\ \A i \in DOMAIN threads : threads[i] # t
    BY <1>2, LenProperties DEF Create, QueueInv, Existing, TypeOK
  <2>2. Abstract!Spawn(t)
    BY <1>2, <2>1 DEF Create, Abstract!Spawn
  <2>3. QED
    BY <2>2 DEF Abstract!Next
<1>3. CASE ~NextThread /\ \A t \in Threads : ~Create(t)
  BY <1>3, QueueFrame DEF QueueInv
<1>4. QED
  BY <1>1, <1>2, <1>3

\* The scheduler implements the round robin: its steps rotate, shorten or
\* extend one queue, or leave it alone.
THEOREM RoundRobinImplemented == Spec => ImplementsRoundRobin
<1>1. Init => Abstract!Init
  BY DEF Init, Abstract!Init
<1>2. QueueInv /\ [Next]_vars => [Abstract!Next]_<<currentThread, threads>>
  BY StepRotates
<1>3. QED
  BY <1>1, <1>2, QueueInit, QueueNext, PTL DEF Spec, ImplementsRoundRobin, Abstract!Spec

-----------------------------------------------------------------------------
(* The stacks: the Disable sections hold, so that interrupts stay off      *)
(* until the running thread has closed every section it is in, and a       *)
(* thread that has ended is never chosen again.                            *)

BottomPoints == {"Body", "ThreadStart"}
DelayPoints == {"DelayOn", "DelayOff"}
Delayed(s) == Contains(s, "DelayOn") \/ Contains(s, "DelayOff")

\* Where the points of a stack can be: Enable on top, an entry point at the
\* bottom, a delay right above the body that called it.
Frames(s) ==
  \A i \in 1..Len(s) :
    /\ s[i] = "Enable" => i = 1
    /\ s[i] \in BottomPoints => i = Len(s)
    /\ s[i] \in DelayPoints => i + 1 = Len(s) /\ s[i + 1] = "Body"

Starts(s, p) == s # <<>> /\ Head(s) = p

\* Of the n sections that are open, those of the code under NextThread.
Open(s, n) == IF Starts(s, "Enable") THEN n - 1 ELSE n

\* The stack shows that interrupts were on, so that no section was open.
Outside(s) ==
  \/ Contains(s, "ThreadStart")
  \/ Contains(s, "DelayOn")
  \/ Contains(s, "iret") /\ ~Delayed(s)

Sections(s, n) ==
  /\ Frames(s)
  /\ Open(s, n) >= 0
  /\ Outside(s) => Open(s, n) = 0

FlagOK ==
  eflag => /\ ~Starts(stack[currentThread], "Enable")
           /\ Delayed(stack[currentThread]) \/ interruptDisabled[currentThread] = 0

\* The inductive invariant.
SectionInv ==
  /\ TypeOK
  /\ \A t \in Threads : Sections(stack[t], interruptDisabled[t])
  /\ FlagOK

-----------------------------------------------------------------------------
(* Stacks.                                                                 *)

LEMMA PushProperties ==
  ASSUME NEW s \in Seq(Points), NEW p \in Points
  PROVE  /\ <<p>> \o s \in Seq(Points)
         /\ <<p>> \o s # <<>>
         /\ Head(<<p>> \o s) = p
         /\ Len(<<p>> \o s) = Len(s) + 1
         /\ (<<p>> \o s)[1] = p
         /\ \A i \in 1..Len(s) : (<<p>> \o s)[i + 1] = s[i]
         /\ \A x : Contains(<<p>> \o s, x) <=> x = p \/ Contains(s, x)
<1>1. <<p>> \in Seq(Points) /\ Len(<<p>>) = 1 /\ <<p>>[1] = p
  OBVIOUS
<1>2. Len(s) \in Nat
  BY LenProperties
<1> DEFINE r == <<p>> \o s
<1>3. /\ r \in Seq(Points)
      /\ Len(r) = Len(s) + 1
      /\ \A i \in 1..(Len(s) + 1) : r[i] = IF i <= 1 THEN <<p>>[i] ELSE s[i - 1]
  BY <1>1, ConcatProperties
<1> HIDE DEF r
<1>4. r # <<>> /\ r[1] = p /\ Head(r) = p
  BY <1>1, <1>2, <1>3
<1>5. \A i \in 1..Len(s) : r[i + 1] = s[i]
  BY <1>2, <1>3
<1>6. \A x : Contains(r, x) <=> x = p \/ Contains(s, x)
  <2>1. ASSUME NEW x, Contains(r, x) PROVE x = p \/ Contains(s, x)
    <3>1. PICK i \in 1..Len(r) : r[i] = x
      BY <2>1 DEF Contains
    <3>2. i # 1 => i - 1 \in 1..Len(s) /\ s[i - 1] = x
      BY <1>2, <1>3, <3>1
    <3>3. QED
      BY <1>4, <3>1, <3>2 DEF Contains
  <2>2. ASSUME NEW x, x = p \/ Contains(s, x) PROVE Contains(r, x)
    BY <1>2, <1>3, <1>4, <1>5, <2>2 DEF Contains
  <2>3. QED
    BY <2>1, <2>2
<1>7. QED
  BY <1>3, <1>4, <1>5, <1>6 DEF r

LEMMA PopProperties ==
  ASSUME NEW s \in Seq(Points), s # <<>>
  PROVE  /\ Tail(s) \in Seq(Points)
         /\ Len(s) \in Nat \ {0}
         /\ Len(Tail(s)) = Len(s) - 1
         /\ Head(s) = s[1]
         /\ \A i \in 1..Len(Tail(s)) : Tail(s)[i] = s[i + 1]
         /\ \A x : Contains(s, x) <=> x = Head(s) \/ Contains(Tail(s), x)
<1>1. /\ Tail(s) \in Seq(Points)
      /\ Len(Tail(s)) = Len(s) - 1
      /\ \A i \in 1..Len(Tail(s)) : Tail(s)[i] = s[i + 1]
      /\ Len(s) \in Nat \ {0}
      /\ Head(s) = s[1]
  BY HeadTailProperties, EmptySeq
<1>2. ASSUME NEW x, Contains(s, x) PROVE x = Head(s) \/ Contains(Tail(s), x)
  <2>1. PICK i \in 1..Len(s) : s[i] = x
    BY <1>2 DEF Contains
  <2>2. i # 1 => i - 1 \in 1..Len(Tail(s)) /\ Tail(s)[i - 1] = x
    BY <1>1, <2>1
  <2>3. QED
    BY <1>1, <2>1, <2>2 DEF Contains
<1>3. ASSUME NEW x, x = Head(s) \/ Contains(Tail(s), x) PROVE Contains(s, x)
  BY <1>1, <1>3 DEF Contains
<1>4. QED
  BY <1>1, <1>2, <1>3

LEMMA PairConcat ==
  ASSUME NEW s \in Seq(Points), NEW p \in Points, NEW q \in Points
  PROVE  /\ <<p>> \o <<q>> = <<p, q>>
         /\ <<p, q>> \o s = <<p>> \o (<<q>> \o s)
<1>1. /\ <<p>> \in Seq(Points) /\ Len(<<p>>) = 1 /\ <<p>>[1] = p
      /\ <<q>> \in Seq(Points) /\ Len(<<q>>) = 1 /\ <<q>>[1] = q
      /\ <<p, q>> \in Seq(Points) /\ Len(<<p, q>>) = 2 /\ <<p, q>>[1] = p /\ <<p, q>>[2] = q
  OBVIOUS
<1> DEFINE u == <<p>>
           v == <<q>>
           w == <<p, q>>
<1> HIDE DEF u, v, w
<1>2. /\ u \o v \in Seq(Points) /\ Len(u \o v) = 2
      /\ (u \o v)[1] = p /\ (u \o v)[2] = q
  BY <1>1, ConcatProperties DEF u, v
<1>3. u \o v = w
  <2>1. /\ w \in Seq(Points) /\ Len(w) = 2
        /\ w[1] = p /\ w[2] = q
    BY <1>1 DEF w
  <2>2. \A i \in 1..Len(u \o v) : (u \o v)[i] = w[i]
    BY <1>2, <2>1
  <2>3. QED
    BY <1>2, <2>1, <2>2, SeqEqual
<1>4. (u \o v) \o s = u \o (v \o s)
  BY <1>1, ConcatAssociative DEF u, v
<1>5. QED
  BY <1>3, <1>4 DEF u, v, w

-----------------------------------------------------------------------------
(* Sections along the moves of a stack.                                    *)

LEMMA PushFrames ==
  ASSUME NEW s \in Seq(Points), NEW p \in Points \ (BottomPoints \cup DelayPoints),
         Frames(s), ~Starts(s, "Enable")
  PROVE  Frames(<<p>> \o s)
<1> DEFINE r == <<p>> \o s
<1>1. /\ Len(r) = Len(s) + 1 /\ Len(s) \in Nat
      /\ r[1] = p
      /\ \A i \in 1..Len(s) : r[i + 1] = s[i]
      /\ s # <<>> => Head(s) = s[1]
  BY PushProperties, PopProperties, LenProperties
<1>2. \A i \in 1..Len(s) : s[i] # "Enable"
  <2>1. s = <<>> => Len(s) = 0
    OBVIOUS
  <2>2. QED
    BY <1>1, <2>1 DEF Frames, Starts
<1> HIDE DEF r
<1>3. ASSUME NEW i \in 1..Len(r)
      PROVE  /\ r[i] = "Enable" => i = 1
             /\ r[i] \in BottomPoints => i = Len(r)
             /\ r[i] \in DelayPoints => i + 1 = Len(r) /\ r[i + 1] = "Body"
  <2>1. CASE i = 1
    BY <1>1, <2>1
  <2>2. CASE i # 1
    <3> DEFINE j == i - 1
    <3>1. j \in 1..Len(s) /\ r[i] = s[j] /\ i = j + 1
      BY <1>1, <2>2
    <3>2. /\ s[j] # "Enable"
          /\ s[j] \in BottomPoints => j = Len(s)
          /\ s[j] \in DelayPoints => j + 1 = Len(s) /\ s[j + 1] = "Body"
      BY <1>2, <3>1 DEF Frames
    <3>3. j + 1 = Len(s) => r[i + 1] = s[j + 1]
      BY <1>1, <3>1
    <3> HIDE DEF j
    <3>4. QED
      BY <1>1, <3>1, <3>2, <3>3
  <2>3. QED
    BY <2>1, <2>2
<1>4. QED
  BY <1>3 DEF Frames, r

LEMMA PushSections ==
  ASSUME NEW s \in Seq(Points), NEW n \in Int,
         NEW p \in Points \ (BottomPoints \cup DelayPoints \cup {"Enable"}),
         Sections(s, n), ~Starts(s, "Enable"),
         p = "iret" => Delayed(s) \/ n = 0
  PROVE  /\ Sections(<<p>> \o s, n)
         /\ Starts(<<p>> \o s, p)
         /\ Delayed(<<p>> \o s) <=> Delayed(s)
<1>1. Frames(<<p>> \o s)
  BY PushFrames DEF Sections
<1>2. Starts(<<p>> \o s, p) /\ \A x : Contains(<<p>> \o s, x) <=> x = p \/ Contains(s, x)
  BY PushProperties DEF Starts
<1>3. Delayed(<<p>> \o s) <=> Delayed(s)
  BY <1>2 DEF Delayed, DelayPoints
<1>4. Outside(<<p>> \o s) => Outside(s) \/ n = 0
  BY <1>2, <1>3 DEF Outside, DelayPoints, BottomPoints
<1>5. Open(<<p>> \o s, n) = n /\ Open(s, n) = n
  BY <1>2 DEF Open, Starts
<1>6. QED
  BY <1>1, <1>2, <1>3, <1>4, <1>5 DEF Sections

LEMMA PopSections ==
  ASSUME NEW s \in Seq(Points), NEW n \in Int, s # <<>>, Sections(s, n)
  PROVE  /\ Sections(Tail(s), Open(s, n))
         /\ ~Starts(Tail(s), "Enable")
         /\ Head(s) \notin DelayPoints => (Delayed(Tail(s)) <=> Delayed(s))
         /\ Head(s) \in BottomPoints => Tail(s) = <<>>
<1> DEFINE r == Tail(s)
<1>1. /\ r \in Seq(Points)
      /\ Len(s) \in Nat \ {0}
      /\ Len(r) = Len(s) - 1
      /\ Head(s) = s[1]
      /\ \A i \in 1..Len(r) : r[i] = s[i + 1]
      /\ \A x : Contains(s, x) <=> x = Head(s) \/ Contains(r, x)
  BY PopProperties
<1>2. r # <<>> => Head(r) = r[1] /\ Len(r) \in Nat \ {0}
  BY <1>1, PopProperties
<1> HIDE DEF r
<1>3. ASSUME NEW i \in 1..Len(r)
      PROVE  /\ r[i] # "Enable"
             /\ r[i] \in BottomPoints => i = Len(r)
             /\ r[i] \in DelayPoints => i + 1 = Len(r) /\ r[i + 1] = "Body"
  <2>1. i + 1 \in 1..Len(s) /\ r[i] = s[i + 1]
    BY <1>1
  <2>2. /\ s[i + 1] = "Enable" => i + 1 = 1
        /\ s[i + 1] \in BottomPoints => i + 1 = Len(s)
        /\ s[i + 1] \in DelayPoints => i + 1 + 1 = Len(s) /\ s[i + 1 + 1] = "Body"
    BY <2>1 DEF Sections, Frames
  <2>3. i + 1 = Len(r) => r[i + 1] = s[i + 1 + 1]
    BY <1>1
  <2>4. QED
    BY <1>1, <2>1, <2>2, <2>3
<1>4. Frames(r)
  BY <1>3 DEF Frames
<1>5. ~Starts(r, "Enable")
  BY <1>2, <1>3 DEF Starts
<1>6. Head(s) \notin DelayPoints => (Delayed(r) <=> Delayed(s))
  BY <1>1 DEF Delayed, DelayPoints
<1>7. Head(s) \in BottomPoints => r = <<>>
  <2>1. Head(s) \in BottomPoints => Len(r) = 0
    BY <1>1 DEF Sections, Frames
  <2>2. QED
    BY <1>1, <1>2, <2>1
<1>8. Outside(r) => Outside(s)
  <2>1. CASE Head(s) \in DelayPoints
    <3>1. Len(r) = 1 /\ r[1] = "Body"
      BY <1>1, <2>1 DEF Sections, Frames
    <3>2. ~Outside(r)
      BY <3>1 DEF Outside, Contains
    <3>3. QED
      BY <3>2
  <2>2. CASE Head(s) \notin DelayPoints
    BY <1>1, <1>6, <2>2 DEF Outside
  <2>3. QED
    BY <2>1, <2>2
<1>9. Open(r, Open(s, n)) = Open(s, n)
  BY <1>5 DEF Open
<1>10. QED
  BY <1>4, <1>5, <1>6, <1>7, <1>8, <1>9 DEF Sections, r

LEMMA NextThreadSections ==
  ASSUME NEW s \in Seq(Points), NEW n \in Int, Starts(s, "NextThread"), Sections(s, n)
  PROVE  Sections(<<"Enable">> \o Tail(s), n + 1)
<1> DEFINE r == <<"Enable">> \o Tail(s)
<1>1. /\ Tail(s) \in Seq(Points)
      /\ Sections(Tail(s), n) /\ ~Starts(Tail(s), "Enable")
  BY PopSections, PopType DEF Starts, Open
<1>2. "Enable" \in Points \ (BottomPoints \cup DelayPoints)
  BY DEF Points, BottomPoints, DelayPoints
<1>3. Frames(r)
  BY <1>1, <1>2, PushFrames DEF Sections
<1>4. /\ Starts(r, "Enable")
      /\ \A x : Contains(r, x) <=> x = "Enable" \/ Contains(Tail(s), x)
  BY <1>1, <1>2, PushProperties DEF Starts
<1>5. Outside(r) => Outside(Tail(s))
  BY <1>4 DEF Outside, Delayed
<1>6. Open(r, n + 1) = n /\ Open(Tail(s), n) = n
  BY <1>1, <1>4 DEF Open
<1>7. QED
  BY <1>1, <1>3, <1>5, <1>6 DEF Sections

LEMMA BodySections ==
  ASSUME NEW n \in Int
  PROVE  /\ Sections(<<"Body">>, n) <=> n >= 0
         /\ ~Delayed(<<"Body">>)
         /\ Sections(<<"DelayOff", "Body">>, n) <=> n >= 0
         /\ Sections(<<"DelayOn", "Body">>, 0)
         /\ Sections(<<"ThreadStart">>, 0)
         /\ Sections(<<"Exit">>, 0) /\ Sections(<<"Idle">>, 0)
BY DEF Sections, Frames, Open, Outside, Delayed, Starts, Contains, BottomPoints, DelayPoints

LEMMA AtBottom ==
  ASSUME NEW s \in Seq(Points), NEW n \in Int, NEW p \in BottomPoints,
         Sections(s, n), Starts(s, p)
  PROVE  s = <<p>> /\ Tail(s) = <<>>
<1> DEFINE r == Tail(s)
<1>1. /\ r = <<>>
      /\ Len(r) = Len(s) - 1
      /\ s[1] = p
      /\ Len(s) \in Nat
  BY PopSections, PopProperties DEF Starts
<1> HIDE DEF r
<1>2. Len(s) = 1
  <2>1. Len(r) = 0
    BY <1>1
  <2>2. QED
    BY <1>1, <2>1
<1>3. <<p>> \in Seq(Points) /\ Len(<<p>>) = 1 /\ <<p>>[1] = p
  BY DEF BottomPoints, Points
<1>4. \A i \in 1..Len(s) : s[i] = <<p>>[i]
  BY <1>1, <1>2, <1>3
<1>5. s = <<p>>
  BY <1>2, <1>3, <1>4, SeqEqual
<1>6. QED
  BY <1>1, <1>5 DEF r

-----------------------------------------------------------------------------
(* The steps.                                                              *)

\* A step of the running thread on its own stack and counter.
LEMMA OwnStep ==
  ASSUME SectionInv, TypeOK', UNCHANGED currentThread,
         NEW s, NEW n,
         stack' = [stack EXCEPT ![currentThread] = s],
         interruptDisabled' = [interruptDisabled EXCEPT ![currentThread] = n],
         Sections(s, n),
         eflag' => ~Starts(s, "Enable") /\ (Delayed(s) \/ n = 0)
  PROVE  SectionInv'
<1>1. currentThread \in Threads /\ stack'[currentThread] = s /\ interruptDisabled'[currentThread] = n
  BY DEF SectionInv, TypeOK
<1>2. FlagOK'
  BY <1>1 DEF FlagOK
<1>3. \A t \in Threads : Sections(stack[t], interruptDisabled[t])'
  BY <1>1 DEF SectionInv, TypeOK
<1>4. QED
  BY <1>2, <1>3 DEF SectionInv

\* A routine is called; the flag stays as it is, or goes off, or on outside
\* every section.
LEMMA CallStep ==
  ASSUME SectionInv, TypeOK', NEW p \in Points \ (BottomPoints \cup DelayPoints \cup {"Enable", "iret"}),
         ~Starts(stack[currentThread], "Enable"),
         Call(<<p>>),
         UNCHANGED <<currentThread, interruptDisabled>>,
         eflag' => eflag \/ interruptDisabled[currentThread] = 0
  PROVE  SectionInv'
<1> DEFINE s == stack[currentThread]
           n == interruptDisabled[currentThread]
<1>1. s \in Seq(Points) /\ n \in Int /\ Sections(s, n)
  BY DEF SectionInv, TypeOK
<1>2. Sections(<<p>> \o s, n) /\ Starts(<<p>> \o s, p) /\ (Delayed(<<p>> \o s) <=> Delayed(s))
  BY <1>1, PushSections
<1>3. eflag' => Delayed(s) \/ n = 0
  BY DEF SectionInv, FlagOK
<1>4. ~Starts(<<p>> \o s, "Enable")
  BY <1>2 DEF Starts
<1>5. /\ stack' = [stack EXCEPT ![currentThread] = <<p>> \o s]
      /\ interruptDisabled' = [interruptDisabled EXCEPT ![currentThread] = n]
  BY DEF Call, SectionInv, TypeOK
<1> HIDE DEF s, n
<1>6. QED
  BY <1>2, <1>3, <1>4, <1>5, OwnStep

\* A routine returns that leaves the counter alone.
LEMMA ReturnStep ==
  ASSUME SectionInv, TypeOK',
         stack[currentThread] # <<>>,
         Head(stack[currentThread]) \notin DelayPoints \cup {"Enable"},
         Return,
         UNCHANGED <<currentThread, interruptDisabled>>,
         eflag' => eflag \/ Head(stack[currentThread]) = "iret"
  PROVE  SectionInv'
<1> DEFINE s == stack[currentThread]
           n == interruptDisabled[currentThread]
<1>1. s \in Seq(Points) /\ n \in Int /\ Sections(s, n)
  BY DEF SectionInv, TypeOK
<1>2. Open(s, n) = n
  BY DEF Open, Starts
<1>3. /\ Sections(Tail(s), n)
      /\ ~Starts(Tail(s), "Enable")
      /\ Delayed(Tail(s)) <=> Delayed(s)
  BY <1>1, <1>2, PopSections
<1>4. eflag' => Delayed(s) \/ n = 0
  <2>1. Head(s) = "iret" => Contains(s, "iret")
    BY <1>1, PopProperties
  <2>2. Head(s) = "iret" => Delayed(s) \/ n = 0
    BY <1>1, <1>2, <2>1 DEF Sections, Outside
  <2>3. QED
    BY <2>2 DEF SectionInv, FlagOK
<1>5. /\ stack' = [stack EXCEPT ![currentThread] = Tail(s)]
      /\ interruptDisabled' = [interruptDisabled EXCEPT ![currentThread] = n]
  BY DEF Return, SectionInv, TypeOK
<1> HIDE DEF s, n
<1>6. QED
  BY <1>3, <1>4, <1>5, OwnStep

\* A body opens or closes a section, or is replaced on its stack.
LEMMA BodyStep ==
  ASSUME SectionInv, TypeOK',
         Starts(stack[currentThread], "Body") \/ Starts(stack[currentThread], "ThreadStart"),
         UNCHANGED currentThread,
         NEW s, NEW n \in Int,
         stack' = [stack EXCEPT ![currentThread] = s],
         interruptDisabled' = [interruptDisabled EXCEPT ![currentThread] = n],
         \/ s = <<"Body">> /\ n >= 0
         \/ s \in {<<"Exit">>, <<"Idle">>} /\ n = 0,
         eflag' => n = 0
  PROVE  SectionInv'
<1>1. Sections(s, n) /\ ~Starts(s, "Enable")
  BY BodySections DEF Starts
<1>2. QED
  BY <1>1, OwnStep

LEMMA NextThreadSection ==
  ASSUME SectionInv, TypeOK', NextThread
  PROVE  SectionInv'
<1> DEFINE c == currentThread
           s == <<"Enable">> \o Tail(stack[c])
<1>1. /\ c \in Threads /\ currentThread' \in Threads
      /\ stack[c] \in Seq(Points) /\ interruptDisabled[c] \in Int
      /\ Starts(stack[c], "NextThread")
      /\ Sections(stack[c], interruptDisabled[c])
  BY DEF SectionInv, TypeOK, NextThread, At, OnTop, Starts
<1>2. Sections(s, interruptDisabled[c] + 1) /\ Starts(s, "Enable")
  <2>1. Tail(stack[c]) \in Seq(Points) /\ "Enable" \in Points
    BY <1>1, PopType DEF Starts, Points
  <2>2. QED
    BY <1>1, <2>1, NextThreadSections, PushProperties DEF Starts
<1>3. /\ stack' = [stack EXCEPT ![c] = s]
      /\ interruptDisabled' = [interruptDisabled EXCEPT ![c] = interruptDisabled[c] + 1]
  BY DEF NextThread, Under, SectionInv, TypeOK
<1> HIDE DEF s
<1>4. \A t \in Threads :
        /\ Sections(stack'[t], interruptDisabled'[t])
        /\ t # c => stack'[t] = stack[t] /\ interruptDisabled'[t] = interruptDisabled[t]
  BY <1>1, <1>2, <1>3 DEF SectionInv, TypeOK
<1>5. FlagOK'
  <2> DEFINE d == currentThread'
  <2>1. eflag' => OnTop(d, "ThreadStart")
    BY DEF NextThread
  <2>2. CASE d = c
    BY <1>1, <2>1, <2>2 DEF FlagOK, OnTop, Starts
  <2>3. CASE d # c /\ eflag'
    <3>1. stack'[d] = stack[d] /\ stack[d] \in Seq(Points) /\ interruptDisabled'[d] \in Int
      BY <1>1, <1>4, <2>3 DEF SectionInv, TypeOK
    <3>2. Starts(stack'[d], "ThreadStart")
      BY <2>1, <2>3, <3>1 DEF OnTop, Starts
    <3>3. Contains(stack'[d], "ThreadStart") /\ ~Starts(stack'[d], "Enable")
      BY <3>1, <3>2, PopProperties DEF Starts
    <3>4. interruptDisabled'[d] = 0
      BY <1>1, <1>4, <3>1, <3>3 DEF Sections, Outside, Open
    <3>5. QED
      BY <3>3, <3>4 DEF FlagOK
  <2>4. QED
    BY <2>2, <2>3 DEF FlagOK
<1>6. QED
  BY <1>4, <1>5 DEF SectionInv

LEMMA CreateSection ==
  ASSUME SectionInv, TypeOK', NEW t \in Threads, Create(t)
  PROVE  SectionInv'
<1>1. \A u \in Threads :
        /\ stack'[u] = IF u = t THEN <<"ThreadStart">> ELSE stack[u]
        /\ interruptDisabled'[u] = IF u = t THEN 0 ELSE interruptDisabled[u]
  BY DEF Create, SectionInv, TypeOK
<1>2. \A u \in Threads : Sections(stack'[u], interruptDisabled'[u])
  BY <1>1, BodySections DEF SectionInv
<1>3. FlagOK'
  <2> DEFINE c == currentThread
  <2>1. c \in Threads /\ currentThread' = c /\ Starts(stack[c], "Body")
    BY DEF Create, AtCall, At, OnTop, Starts, SectionInv, TypeOK
  <2>2. ~Starts(stack'[c], "Enable")
    BY <1>1, <2>1 DEF Starts
  <2>3. eflag' => interruptDisabled'[c] = 0
    BY <1>1, <2>1 DEF Create, Protected
  <2>4. QED
    BY <2>1, <2>2, <2>3 DEF FlagOK
<1>4. QED
  BY <1>2, <1>3 DEF SectionInv

LEMMA SectionNext ==
  ASSUME SectionInv, [Next]_vars
  PROVE  SectionInv'
<1> DEFINE c == currentThread
           s == stack[c]
           n == interruptDisabled[c]
<1>1. /\ TypeOK'
      /\ c \in Threads /\ s \in Seq(Points) /\ n \in Int /\ Sections(s, n)
  BY TypeNext DEF SectionInv, TypeOK
<1>2. {"NextThread", "Spin", "Enqueue", "PushBack", "Dequeue"}
        \subseteq Points \ (BottomPoints \cup DelayPoints \cup {"Enable", "iret"})
  BY DEF Points, BottomPoints, DelayPoints
<1>3. ASSUME NEW p, At(p)
      PROVE  Starts(s, p) /\ s # <<>> /\ Head(s) = p
  BY <1>3 DEF At, OnTop, Starts
<1>4. CASE NextThread
  BY <1>1, <1>4, NextThreadSection
<1>5. CASE NextThreadReturn
  <2>1. Starts(s, "Enable")
    BY <1>3, <1>5 DEF NextThreadReturn
  <2>2. Open(s, n) = n - 1 /\ n - 1 >= 0
    BY <1>1, <2>1 DEF Open, Sections
  <2>3. Sections(Tail(s), n - 1) /\ ~Starts(Tail(s), "Enable")
    BY <1>1, <2>1, <2>2, PopSections DEF Starts
  <2>4. ~eflag
    BY <2>1 DEF SectionInv, FlagOK
  <2>5. eflag' => n - 1 = 0
    BY <1>1, <1>5, <2>4 DEF NextThreadReturn, EnableInterrupts, SectionInv, TypeOK
  <2>6. /\ stack' = [stack EXCEPT ![c] = Tail(s)]
        /\ interruptDisabled' = [interruptDisabled EXCEPT ![c] = n - 1]
        /\ UNCHANGED currentThread
    BY <1>5 DEF NextThreadReturn, EnableInterrupts, Return, SectionInv, TypeOK
  <2> HIDE DEF s, n
  <2>7. QED
    BY <1>1, <2>3, <2>5, <2>6, OwnStep
<1>6. CASE ThreadStart \/ Exit
  <2>1. Starts(s, "ThreadStart") \/ Starts(s, "Body")
    BY <1>3, <1>6 DEF ThreadStart, Exit, AtCall
  <2>2. Tail(s) = <<>>
    BY <1>1, <2>1, AtBottom DEF BottomPoints
  <2>3. n = 0
    <3>1. Starts(s, "ThreadStart") => Contains(s, "ThreadStart") /\ ~Starts(s, "Enable")
      BY <1>1, PopProperties DEF Starts
    <3>2. Starts(s, "ThreadStart") => n = 0
      BY <1>1, <3>1 DEF Sections, Outside, Open
    <3>3. QED
      BY <1>6, <3>2, <1>3 DEF Exit, ThreadStart
  <2>4. \A p \in Points : <<p>> \o Tail(s) = <<p>>
    BY <1>1, <2>2, PointSeqs, ConcatEmptySeq
  <2>5. PICK p \in {"Body", "Idle", "Exit"} : stack' = [stack EXCEPT ![c] = <<p>>]
    <3>1. CASE ThreadStart
      BY <2>4, <3>1, PointSeqs DEF ThreadStart, Under, SectionInv, TypeOK
    <3>2. CASE Exit
      BY <2>4, <3>2, PointSeqs DEF Exit, Under, SectionInv, TypeOK
    <3>3. QED
      BY <1>6, <3>1, <3>2
  <2>6. interruptDisabled' = [interruptDisabled EXCEPT ![c] = n] /\ UNCHANGED currentThread
    BY <1>6 DEF ThreadStart, Exit, SectionInv, TypeOK
  <2>7. Sections(<<p>>, n) /\ ~Starts(<<p>>, "Enable")
    BY <2>3, BodySections DEF Starts
  <2> HIDE DEF s, n
  <2>8. QED
    BY <1>1, <2>3, <2>5, <2>6, <2>7, OwnStep
<1>7. CASE Terminate
  <2>1. Starts(s, "Exit") /\ s # <<>>
    BY <1>3, <1>7 DEF Terminate
  <2>2. /\ Tail(s) \in Seq(Points) /\ Sections(Tail(s), n) /\ ~Starts(Tail(s), "Enable")
        /\ Delayed(Tail(s)) <=> Delayed(s)
    BY <1>1, <2>1, PopSections, PopType DEF Starts, Open, DelayPoints
  <2> DEFINE spin == <<"Spin">> \o Tail(s)
             r == <<"NextThread">> \o spin
  <2>3. /\ spin \in Seq(Points) /\ Sections(spin, n) /\ Starts(spin, "Spin")
        /\ Delayed(spin) <=> Delayed(s)
    BY <1>1, <1>2, <2>2, PushSections, PushProperties
  <2> HIDE DEF spin
  <2>4. Sections(r, n) /\ Starts(r, "NextThread") /\ (Delayed(r) <=> Delayed(s))
    BY <1>1, <1>2, <2>3, PushSections DEF Starts
  <2>5. r = <<"NextThread", "Spin">> \o Tail(s)
    BY <1>2, <2>2, PairConcat DEF spin
  <2>6. eflag' => Delayed(s) \/ n = 0
    BY <1>7 DEF Terminate, SectionInv, FlagOK
  <2>7. /\ stack' = [stack EXCEPT ![c] = r]
        /\ interruptDisabled' = [interruptDisabled EXCEPT ![c] = n]
        /\ UNCHANGED currentThread
    BY <1>7, <2>5 DEF Terminate, Under, SectionInv, TypeOK
  <2>8. ~Starts(r, "Enable")
    BY <2>4 DEF Starts
  <2> HIDE DEF s, n, r
  <2>9. QED
    BY <1>1, <2>4, <2>6, <2>7, <2>8, OwnStep
<1>8. CASE IdleLoop \/ Yield
  <2>1. ~Starts(s, "Enable")
    BY <1>3, <1>8 DEF IdleLoop, Yield, AtCall, Starts
  <2>2. /\ Call(<<"NextThread">>)
        /\ UNCHANGED <<currentThread, interruptDisabled>>
        /\ eflag' => eflag \/ n = 0
    BY <1>1, <1>8 DEF IdleLoop, Yield, Protected, SectionInv, TypeOK
  <2>3. QED
    BY <1>1, <1>2, <2>1, <2>2, CallStep
<1>9. ASSUME NEW t, NEW x, At("Body"), BeginSetState(t, x)
      PROVE  SectionInv'
  <2>1. ~Starts(s, "Enable")
    BY <1>3, <1>9 DEF Starts
  <2>2. PICK p \in {"Enqueue", "Dequeue"} : Call(<<p>>)
    BY <1>9 DEF BeginSetState
  <2>3. UNCHANGED <<currentThread, interruptDisabled, eflag>>
    BY <1>9 DEF BeginSetState
  <2>4. QED
    BY <1>1, <1>2, <2>1, <2>2, <2>3, CallStep
<1>10. CASE Lock \/ Unlock
  BY <1>9, <1>10 DEF Lock, Unlock, AtCall
<1>11. ASSUME NEW t \in Others, Start(t) \/ Pause(t) \/ Kill(t)
       PROVE  SectionInv'
  <2>1. CASE Start(t)
    <3>1. s = <<"Body">>
      BY <1>1, <1>3, <2>1, AtBottom DEF Start, AtCall, BottomPoints
    <3>2. n >= 0 /\ Starts(s, "Body")
      BY <1>1, <1>3, <2>1 DEF Start, AtCall, Sections, Open, Starts
    <3>3. /\ stack' = [stack EXCEPT ![c] = <<"Body">>]
          /\ interruptDisabled' = [interruptDisabled EXCEPT ![c] = n]
          /\ UNCHANGED currentThread
          /\ eflag' => n = 0
      BY <2>1, <3>1 DEF Start, Protected, SectionInv, TypeOK
    <3>4. QED
      BY <1>1, <3>2, <3>3, BodyStep
  <2>2. QED
    BY <1>9, <1>11, <2>1 DEF Pause, Kill, AtCall
<1>12. ASSUME NEW t \in Threads, Create(t)
       PROVE  SectionInv'
  BY <1>1, <1>12, CreateSection
<1>13. CASE MoveInQueue
  <2>1. CASE Return
    <3>1. /\ s # <<>> /\ Head(s) \notin DelayPoints \cup {"Enable"}
          /\ UNCHANGED <<currentThread, interruptDisabled, eflag>>
      BY <1>3, <1>13 DEF MoveInQueue, DelayPoints
    <3>2. QED
      BY <1>1, <2>1, <3>1, ReturnStep
  <2>2. CASE At("Enqueue") /\ Under(c, <<"PushBack">>)
    <3> DEFINE r == <<"PushBack">> \o Tail(s)
    <3>1. /\ Tail(s) \in Seq(Points) /\ Sections(Tail(s), n) /\ ~Starts(Tail(s), "Enable")
          /\ Delayed(Tail(s)) <=> Delayed(s)
      BY <1>1, <1>3, <2>2, PopSections, PopType DEF Starts, Open, DelayPoints
    <3>2. Sections(r, n) /\ Starts(r, "PushBack") /\ (Delayed(r) <=> Delayed(s))
      BY <1>1, <1>2, <3>1, PushSections
    <3>3. eflag' => Delayed(s) \/ n = 0
      BY <1>13 DEF MoveInQueue, SectionInv, FlagOK
    <3>4. /\ stack' = [stack EXCEPT ![c] = r]
          /\ interruptDisabled' = [interruptDisabled EXCEPT ![c] = n]
          /\ UNCHANGED currentThread
      BY <1>13, <2>2 DEF MoveInQueue, Under, SectionInv, TypeOK
    <3>5. ~Starts(r, "Enable")
      BY <3>2 DEF Starts
    <3> HIDE DEF s, n, r
    <3>6. QED
      BY <1>1, <3>2, <3>3, <3>4, <3>5, OwnStep
  <2>3. QED
    BY <1>13, <2>1, <2>2 DEF MoveInQueue
<1>14. CASE Disable \/ Enable
  <2>1. s = <<"Body">> /\ Starts(s, "Body")
    BY <1>1, <1>3, <1>14, AtBottom DEF Disable, Enable, AtCall, BottomPoints
  <2>2. n >= 0 /\ (eflag => n = 0)
    BY <1>1, <2>1, BodySections DEF SectionInv, FlagOK
  <2>3. PICK m \in Int : /\ interruptDisabled' = [interruptDisabled EXCEPT ![c] = m]
                         /\ m >= 0
                         /\ eflag' => m = 0
    <3>1. CASE Disable
      <4>1. n + 1 \in Int /\ n + 1 >= 0
        BY <1>1, <2>2
      <4>2. interruptDisabled' = [interruptDisabled EXCEPT ![c] = n + 1] /\ ~eflag'
        BY <3>1 DEF Disable, DisableInterrupts
      <4>3. QED
        BY <4>1, <4>2
    <3>2. CASE Enable
      <4>1. n - 1 \in Int /\ n - 1 >= 0 /\ ~eflag
        BY <1>1, <2>2, <3>2 DEF Enable
      <4>2. interruptDisabled' = [interruptDisabled EXCEPT ![c] = n - 1]
        BY <3>2 DEF Enable, EnableInterrupts
      <4>3. eflag' => n - 1 = 0
        BY <1>1, <3>2, <4>1 DEF Enable, EnableInterrupts, SectionInv, TypeOK
      <4>4. QED
        BY <4>1, <4>2, <4>3
    <3>3. QED
      BY <1>14, <3>1, <3>2
  <2>4. stack' = [stack EXCEPT ![c] = <<"Body">>] /\ UNCHANGED currentThread
    BY <1>14, <2>1 DEF Disable, Enable, SectionInv, TypeOK
  <2>5. QED
    BY <1>1, <2>1, <2>3, <2>4, BodyStep
<1>15. CASE Delay
  <2>1. s = <<"Body">> /\ Starts(s, "Body")
    BY <1>1, <1>3, <1>15, AtBottom DEF Delay, AtCall, BottomPoints
  <2>2. n >= 0 /\ (eflag => n = 0)
    BY <1>1, <2>1, BodySections DEF SectionInv, FlagOK
  <2> DEFINE p == IF eflag THEN "DelayOn" ELSE "DelayOff"
             r == <<p, "Body">>
  <2>3. Sections(r, n)
    BY <1>1, <2>2, BodySections
  <2>4. ~Starts(r, "Enable") /\ Delayed(r)
    BY DEF Starts, Delayed, Contains
  <2>5. /\ stack' = [stack EXCEPT ![c] = r]
        /\ interruptDisabled' = [interruptDisabled EXCEPT ![c] = n]
        /\ UNCHANGED currentThread
    <3>1. <<p>> \o s = r
      <4>1. p \in Points /\ "Body" \in Points
        BY DEF Points
      <4>2. <<p>> \o <<"Body">> = <<p, "Body">>
        BY <1>1, <4>1, PairConcat
      <4>3. QED
        BY <2>1, <4>2
    <3>2. QED
      BY <1>15, <3>1 DEF Delay, Call, SectionInv, TypeOK
  <2> HIDE DEF s, n, r
  <2>6. QED
    BY <1>1, <2>3, <2>4, <2>5, OwnStep
<1>16. CASE DelayReturn
  <2>1. s # <<>> /\ (Head(s) = "DelayOn" \/ Head(s) = "DelayOff") /\ ~Starts(s, "Enable")
    BY <1>3, <1>16 DEF DelayReturn, Starts
  <2>2. Sections(Tail(s), n) /\ ~Starts(Tail(s), "Enable")
    BY <1>1, <2>1, PopSections DEF Open
  <2>3. eflag' => n = 0
    <3>1. eflag' => Starts(s, "DelayOn")
      BY <1>3, <1>16 DEF DelayReturn
    <3>2. Starts(s, "DelayOn") => Contains(s, "DelayOn")
      BY <1>1, PopProperties DEF Starts
    <3>3. QED
      BY <1>1, <2>1, <3>1, <3>2 DEF Sections, Outside, Open
  <2>4. /\ stack' = [stack EXCEPT ![c] = Tail(s)]
        /\ interruptDisabled' = [interruptDisabled EXCEPT ![c] = n]
        /\ UNCHANGED currentThread
    BY <1>16 DEF DelayReturn, Return, SectionInv, TypeOK
  <2> HIDE DEF s, n
  <2>5. QED
    BY <1>1, <2>2, <2>3, <2>4, OwnStep
<1>17. CASE TimerISR
  <2>1. ~Starts(s, "Enable") /\ (Delayed(s) \/ n = 0)
    BY <1>17 DEF TimerISR, SectionInv, FlagOK
  <2> DEFINE handler == <<"iret">> \o s
             r == <<"NextThread">> \o handler
  <2>2. /\ "iret" \in Points \ (BottomPoints \cup DelayPoints \cup {"Enable"})
        /\ "NextThread" \in Points
    BY DEF Points, BottomPoints, DelayPoints
  <2>3. handler \in Seq(Points) /\ Sections(handler, n) /\ Starts(handler, "iret")
    BY <1>1, <2>1, <2>2, PushSections, PushProperties
  <2> HIDE DEF handler
  <2>4. Sections(r, n)
    BY <1>1, <1>2, <2>3, PushSections DEF Starts
  <2>5. r = <<"NextThread", "iret">> \o s
    BY <1>1, <2>2, PairConcat DEF handler
  <2>6. /\ stack' = [stack EXCEPT ![c] = r]
        /\ interruptDisabled' = [interruptDisabled EXCEPT ![c] = n]
        /\ UNCHANGED currentThread
        /\ ~eflag'
    BY <1>17, <2>5 DEF TimerISR, Call, SectionInv, TypeOK
  <2> HIDE DEF s, n, r
  <2>7. QED
    BY <1>1, <2>4, <2>6, OwnStep
<1>18. CASE InterruptReturn
  <2>1. /\ s # <<>> /\ Head(s) = "iret" /\ Head(s) \notin DelayPoints \cup {"Enable"}
        /\ Return
        /\ UNCHANGED <<currentThread, interruptDisabled>>
    BY <1>3, <1>18 DEF InterruptReturn, DelayPoints
  <2>2. QED
    BY <1>1, <2>1, ReturnStep
<1>19. CASE UNCHANGED vars
  BY <1>19 DEF vars, SectionInv, TypeOK, FlagOK
<1>20. QED
  BY <1>4, <1>5, <1>6, <1>7, <1>8, <1>10, <1>11, <1>12, <1>13, <1>14, <1>15,
     <1>16, <1>17, <1>18, <1>19
  DEF Next, Body, Kernel

LEMMA SectionInit == Init => SectionInv
<1> SUFFICES ASSUME Init PROVE SectionInv
  OBVIOUS
<1>1. TypeOK
  BY TypeInit
<1>2. \A t \in Threads : /\ stack[t] \in {<<"Body">>, <<"ThreadStart">>, <<>>}
                         /\ interruptDisabled[t] = 0
  BY DEF Init
<1>3. Sections(<<>>, 0)
  BY DEF Sections, Frames, Open, Outside, Delayed, Starts, Contains
<1>4. \A t \in Threads : Sections(stack[t], interruptDisabled[t])
  BY <1>2, <1>3, BodySections
<1>5. FlagOK
  BY ThreadAssumption DEF Init, FlagOK, Starts
<1>6. QED
  BY <1>1, <1>4, <1>5 DEF SectionInv

LEMMA SectionsFollow == SectionInv => SectionsHold
<1> SUFFICES ASSUME SectionInv PROVE SectionsHold
  OBVIOUS
<1>1. Delayed(stack[currentThread]) <=> InDelay(currentThread)
  BY DEF Delayed, InDelay
<1>2. ASSUME NEW t \in Threads, OnTop(t, "Enable") PROVE interruptDisabled[t] > 0
  <2>1. interruptDisabled[t] \in Int /\ Open(stack[t], interruptDisabled[t]) >= 0
    BY DEF SectionInv, Sections, TypeOK
  <2>2. QED
    BY <1>2, <2>1 DEF Open, OnTop, Starts
<1>3. QED
  BY <1>1, <1>2 DEF SectionInv, FlagOK, SectionsHold

\* Interrupts stay off in every Disable section, but in Delay, and the
\* assertion of Interrupt::Enable holds where NextThread comes back.
THEOREM SectionsCorrect == Spec => []SectionsHold
<1>1. QED
  BY SectionInit, SectionNext, SectionsFollow, PTL DEF Spec

-----------------------------------------------------------------------------
(* Threads that leave the processor.                                       *)

\* A stack on its way into NextThread, whichever handlers came in before.
Parked(s) ==
  \E n \in 1..Len(s) : /\ s[n] = "NextThread"
                        /\ \A i \in 1..(n - 1) : s[i] \in {"Ack", "iret"}

\* A thread that gives the processor away without being put back, or has.
Gone(t) ==
  /\ state[t] # "Absent"
  /\ IF t = currentThread THEN ~Ready(state[t]) /\ Parked(stack[t])
                           ELSE ~Contains(threads, t)

LEMMA ParkedHead ==
  ASSUME NEW s \in Seq(Points), Parked(s)
  PROVE  s # <<>> /\ Head(s) \in {"NextThread", "Ack", "iret"}
<1>1. PICK n \in 1..Len(s) : /\ s[n] = "NextThread"
                             /\ \A i \in 1..(n - 1) : s[i] \in {"Ack", "iret"}
  BY DEF Parked
<1>2. s # <<>> /\ Len(s) \in Nat
  BY <1>1, LenProperties
<1>3. Head(s) = s[1]
  BY <1>2, PopProperties
<1>4. n = 1 \/ 1 \in 1..(n - 1)
  BY <1>1, <1>2
<1>5. QED
  BY <1>1, <1>2, <1>3, <1>4

LEMMA ParkedCall ==
  ASSUME NEW s \in Seq(Points)
  PROVE  Parked(<<"NextThread">> \o s)
<1> DEFINE r == <<"NextThread">> \o s
<1>1. Len(r) = Len(s) + 1 /\ r[1] = "NextThread" /\ Len(s) \in Nat
  BY PushProperties, LenProperties DEF Points
<1> HIDE DEF r
<1>2. 1 \in 1..Len(r) /\ \A i \in 1..(1 - 1) : r[i] \in {"Ack", "iret"}
  BY <1>1
<1>3. Parked(r)
  BY <1>1, <1>2 DEF Parked
<1>4. QED
  BY <1>3 DEF r

LEMMA ParkedPush ==
  ASSUME NEW s \in Seq(Points), Parked(s), NEW p \in {"Ack", "iret"}
  PROVE  Parked(<<p>> \o s)
<1> DEFINE r == <<p>> \o s
<1>1. /\ Len(r) = Len(s) + 1 /\ r[1] = p /\ Len(s) \in Nat
      /\ \A i \in 1..Len(s) : r[i + 1] = s[i]
  BY PushProperties, LenProperties DEF Points
<1>2. PICK n \in 1..Len(s) : /\ s[n] = "NextThread"
                             /\ \A i \in 1..(n - 1) : s[i] \in {"Ack", "iret"}
  BY DEF Parked
<1> HIDE DEF r
<1>3. n + 1 \in 1..Len(r) /\ r[n + 1] = "NextThread"
  BY <1>1, <1>2
<1>4. ASSUME NEW i \in 1..n PROVE r[i] \in {"Ack", "iret"}
  <2>1. i = 1 \/ (i - 1 \in 1..(n - 1) /\ i - 1 \in 1..Len(s) /\ r[i] = s[i - 1])
    BY <1>1, <1>2
  <2>2. QED
    BY <1>1, <1>2, <2>1
<1>5. Parked(r)
  BY <1>3, <1>4 DEF Parked
<1>6. QED
  BY <1>5 DEF r

LEMMA ParkedPop ==
  ASSUME NEW s \in Seq(Points), Parked(s), Head(s) # "NextThread"
  PROVE  Parked(Tail(s))
<1> DEFINE r == Tail(s)
<1>1. /\ Len(r) = Len(s) - 1 /\ Head(s) = s[1] /\ Len(s) \in Nat \ {0}
      /\ \A i \in 1..Len(r) : r[i] = s[i + 1]
  BY PopProperties, ParkedHead
<1>2. PICK n \in 1..Len(s) : /\ s[n] = "NextThread"
                             /\ \A i \in 1..(n - 1) : s[i] \in {"Ack", "iret"}
  BY DEF Parked
<1> HIDE DEF r
<1>3. n - 1 \in 1..Len(r) /\ r[n - 1] = "NextThread"
  <2>1. n # 1
    BY <1>1, <1>2
  <2>2. n - 1 \in 1..Len(r) /\ (n - 1) + 1 = n
    BY <1>1, <1>2, <2>1
  <2>3. QED
    BY <1>1, <1>2, <2>2
<1>4. ASSUME NEW i \in 1..((n - 1) - 1) PROVE r[i] \in {"Ack", "iret"}
  <2>1. i + 1 \in 1..(n - 1) /\ i \in 1..Len(r)
    BY <1>1, <1>2
  <2>2. QED
    BY <1>1, <1>2, <2>1
<1>5. Parked(r)
  BY <1>3, <1>4 DEF Parked
<1>6. QED
  BY <1>5 DEF r

\* Where the running thread is parked, its next step is one of these.
LEMMA ParkedSteps ==
  ASSUME TypeOK, Parked(stack[currentThread]), [Next]_vars
  PROVE  \/ NextThread \/ TimerISR \/ InterruptReturn
         \/ UNCHANGED <<currentThread, threads, state, stack>>
<1>1. \A p : At(p) => p \in {"NextThread", "Ack", "iret"}
  BY ParkedHead DEF TypeOK, At, OnTop
<1>2. ~At("Body") /\ ~At("Enable") /\ ~At("ThreadStart") /\ ~At("Exit") /\ ~At("Idle")
  BY <1>1
<1>3. /\ ~At("Enqueue") /\ ~At("PushBack") /\ ~At("Dequeue")
      /\ ~At("DelayOn") /\ ~At("DelayOff")
  BY <1>1
<1>4. ~Body
  BY <1>2 DEF Body, Exit, Yield, Lock, Unlock, Disable, Enable, Delay, Create, Start, Pause,
              Kill, AtCall
<1>5. Kernel => NextThread \/ InterruptReturn
  BY <1>2, <1>3 DEF Kernel, NextThreadReturn, ThreadStart, Terminate, IdleLoop, MoveInQueue,
                    DelayReturn
<1>6. QED
  BY <1>4, <1>5 DEF Next, vars

LEMMA NextThreadGone ==
  ASSUME QueueInv, NEW t \in Threads, Gone(t), NextThread
  PROVE  Gone(t)'
<1>1. threads \in Seq(Threads) /\ currentThread \in Threads
  BY DEF QueueInv, TypeOK
<1>2. CASE t = currentThread
  <2>1. threads # <<>> /\ ~KeepsProcessor /\ Requeued = threads
    BY <1>2 DEF Gone, Ready, KeepsProcessor, Requeued, QueueInv, ReadyQueueOK, IdleOK, Contains
  <2>2. currentThread' = Head(threads) /\ threads' = Tail(threads)
    BY <2>1 DEF NextThread
  <2>3. /\ ~Contains(threads, t)
        /\ \A x : Contains(threads, x) <=> x = Head(threads) \/ Contains(Tail(threads), x)
    BY <1>1, <1>2, <2>1, TailDistinct DEF QueueInv, ReadyQueueOK, Distinct
  <2>4. state'[t] # "Absent"
    BY <2>1 DEF NextThread, Gone, QueueInv, TypeOK
  <2>5. QED
    BY <2>2, <2>3, <2>4 DEF Gone
<1>3. CASE t # currentThread /\ KeepsProcessor
  BY <1>3 DEF NextThread, Gone
<1>4. CASE t # currentThread /\ ~KeepsProcessor
  <2>1. /\ Requeued \in Seq(Threads) /\ Requeued # <<>> /\ Distinct(Requeued)
        /\ ~Contains(Requeued, t)
    <3>1. CASE state[currentThread] = "Running"
      <4>1. Requeued = Append(threads, currentThread)
        BY <3>1 DEF Requeued
      <4>2. QED
        BY <1>1, <1>4, <4>1, AppendDistinct, AppendProperties
        DEF Gone, QueueInv, ReadyQueueOK, Distinct
    <3>2. CASE state[currentThread] # "Running"
      BY <1>1, <1>4, <3>2 DEF Requeued, KeepsProcessor, Gone, QueueInv, ReadyQueueOK, Distinct
    <3>3. QED
      BY <3>1, <3>2
  <2>2. \A x : Contains(Requeued, x) <=> x = Head(Requeued) \/ Contains(Tail(Requeued), x)
    BY <2>1, TailDistinct
  <2>3. currentThread' = Head(Requeued) /\ threads' = Tail(Requeued)
    BY <1>4, <2>1 DEF NextThread
  <2>4. state'[t] # "Absent"
    BY <1>4 DEF NextThread, Gone, QueueInv, TypeOK
  <2>5. QED
    BY <2>1, <2>2, <2>3, <2>4 DEF Gone
<1>5. QED
  BY <1>2, <1>3, <1>4

\* Whatever the threads do, one that is gone stays so.
LEMMA GoneNext ==
  ASSUME QueueInv, NEW t \in Threads, Gone(t), [Next]_vars
  PROVE  Gone(t)'
<1>1. CASE NextThread
  BY <1>1, NextThreadGone
<1>2. ASSUME NEW u \in Threads, Create(u) PROVE Gone(t)'
  <2>1. t # u
    BY <1>2 DEF Create, Gone
  <2>2. \A x : Contains(Append(threads, u), x) <=> Contains(threads, x) \/ x = u
    <3>1. ~Contains(threads, u)
      BY <1>2 DEF Create, QueueInv, Existing, Contains
    <3>2. QED
      BY <3>1, AppendDistinct DEF QueueInv, TypeOK, ReadyQueueOK, Distinct
  <2>3. QED
    BY <1>2, <2>1, <2>2 DEF Create, Gone, QueueInv, TypeOK
<1>3. CASE ~NextThread /\ \A u \in Threads : ~Create(u)
  <2>1. UNCHANGED <<currentThread, threads>> /\ state'[t] # "Absent"
    BY <1>3, QueueFrame DEF QueueInv, Gone
  <2>2. CASE t # currentThread
    BY <2>1, <2>2 DEF Gone
  <2>3. CASE t = currentThread
    <3>1. Parked(stack[t]) /\ stack[t] \in Seq(Points) /\ stack[t] # <<>>
      BY <2>3, ParkedHead DEF Gone, QueueInv, TypeOK
    <3>2. TimerISR \/ InterruptReturn \/ UNCHANGED <<state, stack>>
      BY <1>3, <2>3, <3>1, ParkedSteps DEF QueueInv
    <3>3. CASE TimerISR
      <4>1. <<"NextThread", "iret">> \o stack[t] = <<"NextThread">> \o (<<"iret">> \o stack[t])
        BY <3>1, PairConcat DEF Points
      <4>2. <<"iret">> \o stack[t] \in Seq(Points)
        BY <3>1, PushProperties DEF Points
      <4>3. Parked(<<"NextThread", "iret">> \o stack[t])
        BY <4>1, <4>2, ParkedCall
      <4>4. stack'[t] = <<"NextThread", "iret">> \o stack[t] /\ state' = state
        BY <2>3, <3>3 DEF TimerISR, Call, QueueInv, TypeOK
      <4>5. QED
        BY <2>1, <2>3, <4>3, <4>4 DEF Gone
    <3>4. CASE InterruptReturn
      <4>1. Parked(Tail(stack[t]))
        BY <2>3, <3>1, <3>4, ParkedPop DEF InterruptReturn, At, OnTop
      <4>2. stack'[t] = Tail(stack[t]) /\ state' = state
        BY <2>3, <3>4 DEF InterruptReturn, Return, QueueInv, TypeOK
      <4>3. QED
        BY <2>1, <2>3, <4>1, <4>2 DEF Gone
    <3>5. CASE UNCHANGED <<state, stack>>
      BY <2>1, <2>3, <3>5 DEF Gone
    <3>6. QED
      BY <3>2, <3>3, <3>4, <3>5
  <2>4. QED
    BY <2>2, <2>3
<1>4. QED
  BY <1>1, <1>2, <1>3

\* How a step moves the stack of the running thread: only Terminate leads into
\* the endless loop, and only AckIRQ (module Signal) leaves the point Ack.
LEMMA StackMove ==
  ASSUME TypeOK, [Next]_vars
  PROVE  \/ stack' = stack
         \/ \E p \in Points \ {"Ack", "Spin"} : Call(<<p>>)
         \/ /\ stack[currentThread] # <<>> /\ Head(stack[currentThread]) # "Ack"
            /\ \/ Return
               \/ \E p \in Points \ {"Ack", "Spin"} : Under(currentThread, <<p>>)
         \/ TimerISR \/ Terminate \/ \E t \in Threads : Create(t)
<1>1. {"NextThread", "Enable", "Body", "Idle", "Exit", "Enqueue", "PushBack", "Dequeue",
       "DelayOn", "DelayOff", "iret"} \subseteq Points \ {"Ack", "Spin"}
  BY DEF Points
<1>2. ASSUME NEW p, At(p), p # "Ack"
      PROVE  stack[currentThread] # <<>> /\ Head(stack[currentThread]) # "Ack"
  BY <1>2 DEF At, OnTop
<1>3. CASE NextThread \/ NextThreadReturn \/ DelayReturn \/ InterruptReturn
  BY <1>1, <1>2, <1>3 DEF NextThread, NextThreadReturn, DelayReturn, InterruptReturn
<1>4. CASE ThreadStart \/ Exit
  BY <1>1, <1>2, <1>4 DEF ThreadStart, Exit, AtCall
<1>5. CASE IdleLoop \/ Yield \/ Delay
  BY <1>1, <1>5 DEF IdleLoop, Yield, Delay
<1>6. CASE MoveInQueue
  BY <1>1, <1>2, <1>6 DEF MoveInQueue
<1>7. CASE Lock \/ Unlock \/ \E u \in Others : Pause(u) \/ Kill(u)
  BY <1>1, <1>7 DEF Lock, Unlock, Pause, Kill, BeginSetState
<1>8. CASE Disable \/ Enable \/ (\E u \in Others : Start(u)) \/ UNCHANGED vars
  BY <1>8 DEF Disable, Enable, Start, vars
<1>9. QED
  BY <1>3, <1>4, <1>5, <1>6, <1>7, <1>8 DEF Next, Body, Kernel

LEMMA SpinKept ==
  ASSUME TypeOK, [Next]_vars, ~Terminate, NEW t \in Threads, Contains(stack'[t], "Spin")
  PROVE  Contains(stack[t], "Spin")
<1> DEFINE c == currentThread
           r == Tail(stack[c])
<1>1. c \in Threads /\ stack[c] \in Seq(Points) /\ DOMAIN stack = Threads
  BY DEF TypeOK
<1>2. stack[c] # <<>> =>
        r \in Seq(Points) /\ (Contains(r, "Spin") => Contains(stack[c], "Spin"))
  BY <1>1, PopProperties
<1> HIDE DEF r
<1>3. ASSUME NEW p \in Points \ {"Spin"}, NEW s \in Seq(Points), Contains(<<p>> \o s, "Spin")
      PROVE  Contains(s, "Spin")
  BY <1>3, PushProperties
<1>4. CASE \E p \in Points \ {"Ack", "Spin"} : Call(<<p>>)
  BY <1>1, <1>3, <1>4 DEF Call
<1>5. CASE stack[c] # <<>> /\ Return
  BY <1>1, <1>2, <1>5 DEF Return, r
<1>6. ASSUME NEW p \in Points \ {"Ack", "Spin"}, stack[c] # <<>>, Under(c, <<p>>)
      PROVE  Contains(stack[t], "Spin")
  <2>1. stack' = [stack EXCEPT ![c] = <<p>> \o r]
    BY <1>6 DEF Under, r
  <2>2. QED
    BY <1>1, <1>2, <1>3, <1>6, <2>1
<1>7. ASSUME NEW u \in Threads, Create(u) PROVE Contains(stack[t], "Spin")
  <2>1. ~Contains(<<"ThreadStart">>, "Spin")
    BY DEF Contains
  <2>2. QED
    BY <1>1, <1>7, <2>1 DEF Create
<1>8. CASE TimerISR
  <2>1. <<"iret">> \o stack[c] \in Seq(Points)
    BY <1>1, PushProperties DEF Points
  <2>2. <<"NextThread", "iret">> \o stack[c] = <<"NextThread">> \o (<<"iret">> \o stack[c])
    BY <1>1, PairConcat DEF Points
  <2>3. {"NextThread", "iret"} \subseteq Points \ {"Spin"}
    BY DEF Points
  <2>4. Contains(<<"NextThread", "iret">> \o stack[c], "Spin") => Contains(stack[c], "Spin")
    BY <1>1, <1>3, <2>1, <2>2, <2>3
  <2>5. QED
    BY <1>1, <1>8, <2>4 DEF TimerISR, Call
<1>9. QED
  BY <1>4, <1>5, <1>6, <1>7, <1>8, StackMove

\* The inductive invariant: a thread in the endless loop is gone, or gets
\* there with its next steps.
TerminatedInv ==
  /\ QueueInv
  /\ \A t \in Threads : Contains(stack[t], "Spin") => Gone(t)

LEMMA TerminateGone ==
  ASSUME TypeOK, Terminate
  PROVE  Gone(currentThread)'
<1> DEFINE c == currentThread
           s == <<"Spin">> \o Tail(stack[c])
<1>1. /\ c \in Threads /\ stack[c] # <<>> /\ stack[c] \in Seq(Points)
      /\ currentThread' = c
  BY DEF TypeOK, Terminate, At, OnTop
<1>2. Tail(stack[c]) \in Seq(Points) /\ s \in Seq(Points)
  BY <1>1, PopProperties, PushProperties DEF Points
<1>3. <<"NextThread", "Spin">> \o Tail(stack[c]) = <<"NextThread">> \o s
  BY <1>2, PairConcat DEF Points
<1> HIDE DEF s
<1>4. stack'[c] = <<"NextThread">> \o s /\ state'[c] = "Zombie"
  BY <1>1, <1>3 DEF Terminate, Under, TypeOK
<1>5. QED
  BY <1>1, <1>2, <1>4, ParkedCall DEF Gone, Ready

LEMMA TerminatedNext ==
  ASSUME TerminatedInv, [Next]_vars
  PROVE  TerminatedInv'
<1>1. QueueInv'
  BY QueueNext DEF TerminatedInv
<1>2. ASSUME NEW t \in Threads, Contains(stack'[t], "Spin") PROVE Gone(t)'
  <2>1. CASE Terminate /\ t = currentThread
    <3>1. Gone(currentThread)'
      BY <2>1, TerminateGone DEF TerminatedInv, QueueInv
    <3>2. currentThread' = currentThread
      BY <2>1 DEF Terminate
    <3>3. QED
      BY <2>1, <3>1, <3>2 DEF Gone
  <2>2. CASE Terminate /\ t # currentThread
    <3>1. stack'[t] = stack[t]
      BY <2>2 DEF Terminate, Under, TerminatedInv, QueueInv, TypeOK
    <3>2. QED
      BY <1>2, <3>1, GoneNext DEF TerminatedInv
  <2>3. CASE ~Terminate
    BY <1>2, <2>3, SpinKept, GoneNext DEF TerminatedInv, QueueInv
  <2>4. QED
    BY <2>1, <2>2, <2>3
<1>3. QED
  BY <1>1, <1>2 DEF TerminatedInv

\* A thread that has ended is never chosen again once it has given the
\* processor away, whatever the others do to its state.
THEOREM TerminatedStays == Spec => []TerminatedNeverReady
<1>1. Init => TerminatedInv
  BY QueueInit DEF Init, TerminatedInv, Contains
<1>2. TerminatedInv => TerminatedNeverReady
  <2> SUFFICES ASSUME TerminatedInv, NEW t \in Threads \ {currentThread},
                      stack[t] # <<>>, Last(stack[t]) = "Spin"
               PROVE  ~Contains(threads, t)
    BY DEF TerminatedNeverReady
  <2>1. stack[t] \in Seq(Points) /\ Len(stack[t]) \in Nat \ {0}
    BY PopProperties DEF TerminatedInv, QueueInv, TypeOK
  <2>2. Contains(stack[t], "Spin")
    BY <2>1 DEF Last, Contains
  <2>3. QED
    BY <2>2 DEF TerminatedInv, Gone
<1>3. QED
  BY <1>1, <1>2, TerminatedNext, PTL DEF Spec

-----------------------------------------------------------------------------
(* Types, and what a signal changes.                                       *)

SignalTypeOK ==
  /\ TypeOK
  /\ raised \in [Signals -> BOOLEAN]
  /\ waitingThreads \in [Signals -> Seq(Threads)]

\* The first waiter leaves the queue and runs; without one nothing but the
\* signal changes.
LEMMA RaisedEffect ==
  ASSUME SignalTypeOK, NEW s \in Signals, Raised(s)
  PROVE  /\ raised' \in [Signals -> BOOLEAN]
         /\ waitingThreads' \in [Signals -> Seq(Threads)]
         /\ state' \in [Threads -> States \cup {"Absent"}]
         /\ threadsQueue' \in Seq(Threads)
         /\ \/ waitingThreads' = waitingThreads /\ state' = state
            \/ /\ waitingThreads[s] # <<>>
               /\ Head(waitingThreads[s]) \in Threads
               /\ waitingThreads' = [waitingThreads EXCEPT ![s] = Tail(@)]
               /\ state' = [state EXCEPT ![Head(waitingThreads[s])] = "Running"]
<1> DEFINE t == Head(waitingThreads[s])
<1>1. CASE waitingThreads[s] # <<>>
  <2>1. waitingThreads[s] \in Seq(Threads)
    BY DEF SignalTypeOK
  <2>2. t \in Threads /\ Tail(waitingThreads[s]) \in Seq(Threads)
    BY <1>1, <2>1, PopType
  <2>3. Wake(s)
    BY <1>1 DEF Raised
  <2>4. SetState(t, "Running")
    BY <2>3 DEF Wake
  <2>5. /\ state' \in [Threads -> States \cup {"Absent"}]
        /\ threadsQueue' \in Seq(Threads)
    BY <2>2, <2>4, SetStateType DEF SignalTypeOK, States
  <2>6. state' = [state EXCEPT ![t] = "Running"]
    BY <2>4 DEF SetState
  <2>7. raised' \in [Signals -> BOOLEAN]
    BY <2>3 DEF Wake, SignalTypeOK
  <2>8. /\ waitingThreads' = [waitingThreads EXCEPT ![s] = Tail(@)]
        /\ waitingThreads' \in [Signals -> Seq(Threads)]
    BY <2>2, <2>3 DEF Wake, SignalTypeOK
  <2>9. QED
    BY <1>1, <2>2, <2>5, <2>6, <2>7, <2>8
<1>2. CASE waitingThreads[s] = <<>>
  BY <1>2 DEF Raised, SignalTypeOK, TypeOK
<1>3. QED
  BY <1>1, <1>2

\* Outside Thread's own steps no thread gets or loses the processor, and none
\* disappears.
LEMMA SignalFrame ==
  ASSUME SignalTypeOK, SignalCalls \/ Devices \/ AckIRQ
  PROVE  /\ UNCHANGED <<currentThread, threads, interruptDisabled, target>>
         /\ state' \in [Threads -> States \cup {"Absent"}]
         /\ threadsQueue' \in Seq(Threads)
         /\ \A t \in Threads : state[t] # "Absent" => state'[t] # "Absent"
<1>1. ASSUME NEW s \in Signals, WaitRaised(s) \/ Reset(s) 
      PROVE  UNCHANGED <<currentThread, threads, threadsQueue, state, interruptDisabled, target>>
  BY <1>1 DEF WaitRaised, Reset
<1>2. ASSUME NEW s \in Signals, Raise(s) \/ DeviceISR(s)
      PROVE  /\ UNCHANGED <<currentThread, threads, interruptDisabled, target>>
             /\ state' \in [Threads -> States \cup {"Absent"}]
             /\ threadsQueue' \in Seq(Threads)
             /\ \A t \in Threads : state[t] # "Absent" => state'[t] # "Absent"
  <2>1. UNCHANGED <<currentThread, threads, interruptDisabled, target>>
    BY <1>2 DEF Raise, DeviceISR
  <2>2. Raised(s) \/ UNCHANGED <<state, threadsQueue>>
    BY <1>2 DEF Raise, DeviceISR
  <2>3. CASE Raised(s)
    BY <2>1, <2>3, RaisedEffect DEF SignalTypeOK, TypeOK
  <2>4. QED
    BY <2>1, <2>2, <2>3 DEF SignalTypeOK, TypeOK
<1>3. ASSUME NEW s \in Signals, WaitBlocks(s)
      PROVE  /\ UNCHANGED <<currentThread, threads, interruptDisabled, target>>
             /\ state' \in [Threads -> States \cup {"Absent"}]
             /\ threadsQueue' \in Seq(Threads)
             /\ \A t \in Threads : state[t] # "Absent" => state'[t] # "Absent"
  <2>1. SetState(currentThread, "Waiting") /\ currentThread \in Threads
    BY <1>3 DEF WaitBlocks, Park, SignalTypeOK, TypeOK
  <2>2. /\ state' \in [Threads -> States \cup {"Absent"}]
        /\ threadsQueue' \in Seq(Threads)
    BY <2>1, SetStateType DEF SignalTypeOK, States
  <2>3. state' = [state EXCEPT ![currentThread] = "Waiting"]
    BY <2>1 DEF SetState
  <2>4. QED
    BY <1>3, <2>1, <2>2, <2>3 DEF WaitBlocks, SignalTypeOK, TypeOK
<1>4. CASE AckIRQ
  BY <1>4 DEF AckIRQ, SignalTypeOK, TypeOK
<1>5. QED
  BY <1>1, <1>2, <1>3, <1>4 DEF SignalCalls, Devices, SignalTypeOK, TypeOK, vars

\* How a stack moves outside Thread's own steps.
LEMMA SignalStack ==
  ASSUME SignalCalls \/ Devices \/ AckIRQ
  PROVE  \/ At("Body") /\ (stack' = stack \/ Call(<<"NextThread">>))
         \/ eflag /\ Call(<<"Ack", "iret">>)
         \/ At("Ack") /\ Return
BY DEF SignalCalls, Devices, WaitRaised, WaitBlocks, Raise, Reset, DeviceISR, AckIRQ

LEMMA SignalTypeNext ==
  ASSUME SignalTypeOK, [SignalNext]_allVars
  PROVE  SignalTypeOK'
<1>1. CASE Next /\ UNCHANGED <<signalVars, handlerVars>>
  BY <1>1, TypeNext DEF SignalTypeOK, signalVars, handlerVars
<1>2. CASE SignalCalls \/ Devices \/ AckIRQ
  <2>1. stack' \in [Threads -> Seq(Points)]
    <3>1. <<"NextThread">> \in Seq(Points) /\ <<"Ack", "iret">> \in Seq(Points)
      BY DEF Points
    <3>2. At("Ack") => stack[currentThread] # <<>>
      BY DEF At, OnTop
    <3>3. QED
      BY <1>2, <3>1, <3>2, SignalStack, CallType, ReturnType DEF SignalTypeOK, TypeOK
  <2>2. eflag' \in BOOLEAN
    BY <1>2 DEF SignalCalls, Devices, WaitRaised, WaitBlocks, Raise, Reset, DeviceISR, AckIRQ,
                Protected, SignalTypeOK, TypeOK
  <2>3. TypeOK'
    BY <1>2, <2>1, <2>2, SignalFrame DEF SignalTypeOK, TypeOK
  <2>4. raised' \in [Signals -> BOOLEAN] /\ waitingThreads' \in [Signals -> Seq(Threads)]
    <3>1. ASSUME NEW s \in Signals, WaitRaised(s) \/ Reset(s)
          PROVE  raised' \in [Signals -> BOOLEAN] /\ waitingThreads' \in [Signals -> Seq(Threads)]
      BY <3>1 DEF WaitRaised, Reset, SignalTypeOK
    <3>2. ASSUME NEW s \in Signals, WaitBlocks(s)
          PROVE  raised' \in [Signals -> BOOLEAN] /\ waitingThreads' \in [Signals -> Seq(Threads)]
      <4>1. Append(waitingThreads[s], currentThread) \in Seq(Threads)
        BY AppendProperties DEF SignalTypeOK, TypeOK
      <4>2. QED
        BY <3>2, <4>1 DEF WaitBlocks, Park, SignalTypeOK
    <3>3. ASSUME NEW s \in Signals, Raise(s) \/ DeviceISR(s)
          PROVE  raised' \in [Signals -> BOOLEAN] /\ waitingThreads' \in [Signals -> Seq(Threads)]
      <4>1. Raised(s) \/ UNCHANGED signalVars
        BY <3>3 DEF Raise, DeviceISR
      <4>2. QED
        BY <4>1, RaisedEffect DEF signalVars, SignalTypeOK
    <3>4. CASE AckIRQ
      BY <3>4 DEF AckIRQ, signalVars, SignalTypeOK
    <3>5. QED
      BY <1>2, <3>1, <3>2, <3>3, <3>4 DEF SignalCalls, Devices
  <2>5. QED
    BY <2>3, <2>4 DEF SignalTypeOK
<1>3. CASE UNCHANGED allVars
  BY <1>3, TypeNext DEF allVars, signalVars, handlerVars, SignalTypeOK
<1>4. QED
  BY <1>1, <1>2, <1>3 DEF SignalNext

LEMMA SignalTypeInit == SignalInit => SignalTypeOK
BY TypeInit DEF SignalInit, SignalTypeOK

-----------------------------------------------------------------------------
(* Sections.                                                               *)

\* A call of a signal from a body ends with Enable.
LEMMA ProtectedStep ==
  ASSUME SectionInv, TypeOK', At("Body"), Protected,
         UNCHANGED <<currentThread, interruptDisabled, stack>>
  PROVE  SectionInv'
<1> DEFINE s == stack[currentThread]
           n == interruptDisabled[currentThread]
<1>1. Sections(s, n) /\ ~Starts(s, "Enable") /\ (eflag' => n = 0)
  BY DEF SectionInv, TypeOK, At, OnTop, Starts, Protected
<1>2. /\ stack' = [stack EXCEPT ![currentThread] = s]
      /\ interruptDisabled' = [interruptDisabled EXCEPT ![currentThread] = n]
  BY DEF SectionInv, TypeOK
<1> HIDE DEF s, n
<1>3. QED
  BY <1>1, <1>2, OwnStep

LEMMA DeviceSection ==
  ASSUME SectionInv, TypeOK', NEW d \in Signals, DeviceISR(d)
  PROVE  SectionInv'
<1> DEFINE s == stack[currentThread]
           n == interruptDisabled[currentThread]
           handler == <<"iret">> \o s
           r == <<"Ack">> \o handler
<1>1. s \in Seq(Points) /\ n \in Int /\ Sections(s, n)
  BY DEF SectionInv, TypeOK
<1>2. ~Starts(s, "Enable") /\ (Delayed(s) \/ n = 0)
  BY DEF DeviceISR, SectionInv, FlagOK
<1>3. /\ "iret" \in Points \ (BottomPoints \cup DelayPoints \cup {"Enable"})
      /\ "Ack" \in Points \ (BottomPoints \cup DelayPoints \cup {"Enable"})
  BY DEF Points, BottomPoints, DelayPoints
<1>4. handler \in Seq(Points) /\ Sections(handler, n) /\ Starts(handler, "iret")
  BY <1>1, <1>2, <1>3, PushSections, PushProperties
<1> HIDE DEF handler
<1>5. Sections(r, n) /\ Starts(r, "Ack")
  BY <1>1, <1>3, <1>4, PushSections DEF Starts
<1>6. ~Starts(r, "Enable")
  BY <1>5 DEF Starts
<1>7. r = <<"Ack", "iret">> \o s
  BY <1>1, <1>3, PairConcat DEF handler
<1>8. /\ stack' = [stack EXCEPT ![currentThread] = r]
      /\ interruptDisabled' = [interruptDisabled EXCEPT ![currentThread] = n]
      /\ UNCHANGED currentThread
      /\ eflag' => n = 0
  BY <1>7 DEF DeviceISR, Call, Protected, SectionInv, TypeOK
<1> HIDE DEF s, n, r
<1>9. QED
  BY <1>5, <1>6, <1>8, OwnStep

LEMMA SignalSectionNext ==
  ASSUME SignalTypeOK, SectionInv, [SignalNext]_allVars
  PROVE  SectionInv'
<1>1. TypeOK'
  BY SignalTypeNext DEF SignalTypeOK
<1>2. CASE Next \/ UNCHANGED allVars
  BY <1>2, SectionNext DEF allVars, vars
<1>3. ASSUME NEW s \in Signals, WaitRaised(s) \/ Raise(s) \/ Reset(s) PROVE SectionInv'
  BY <1>1, <1>3, ProtectedStep DEF WaitRaised, Raise, Reset
<1>4. ASSUME NEW s \in Signals, WaitBlocks(s) PROVE SectionInv'
  <2>1. "NextThread" \in Points \ (BottomPoints \cup DelayPoints \cup {"Enable", "iret"})
    BY DEF Points, BottomPoints, DelayPoints
  <2>2. ~Starts(stack[currentThread], "Enable")
    BY <1>4 DEF WaitBlocks, At, OnTop, Starts
  <2>3. /\ Call(<<"NextThread">>)
        /\ UNCHANGED <<currentThread, interruptDisabled>>
        /\ eflag' => interruptDisabled[currentThread] = 0
    BY <1>4 DEF WaitBlocks, Protected
  <2>4. QED
    BY <1>1, <2>1, <2>2, <2>3, CallStep
<1>5. ASSUME NEW s \in Signals, DeviceISR(s) PROVE SectionInv'
  BY <1>1, <1>5, DeviceSection
<1>6. CASE AckIRQ
  <2>1. /\ stack[currentThread] # <<>>
        /\ Head(stack[currentThread]) = "Ack"
        /\ Return
        /\ UNCHANGED <<currentThread, interruptDisabled, eflag>>
    BY <1>6 DEF AckIRQ, At, OnTop
  <2>2. "Ack" \notin DelayPoints \cup {"Enable"}
    BY DEF DelayPoints
  <2>3. QED
    BY <1>1, <2>1, <2>2, ReturnStep
<1>7. QED
  BY <1>2, <1>3, <1>4, <1>5, <1>6 DEF SignalNext, SignalCalls, Devices

\* Handlers that interrupt and call Raise, bodies that call Wait: the sections
\* of the threads hold with them too.
THEOREM SignalSections == SignalSpec => []SectionsHold
<1>1. SignalInit => SignalTypeOK /\ SectionInv
  BY SignalTypeInit, SectionInit DEF SignalInit
<1>2. SignalTypeOK /\ SectionInv /\ [SignalNext]_allVars => (SignalTypeOK /\ SectionInv)'
  BY SignalTypeNext, SignalSectionNext
<1>3. QED
  BY <1>1, <1>2, SectionsFollow, PTL DEF SignalSpec

-----------------------------------------------------------------------------
(* Wake-ups.                                                               *)

LEMMA WakeUpNext ==
  ASSUME SignalTypeOK, NoWakeUpLost, [SignalNext]_allVars
  PROVE  NoWakeUpLost'
<1>1. ASSUME NEW s \in Signals, Raised(s)
      PROVE  NoWakeUpLost'
  <2>1. CASE waitingThreads[s] # <<>>
    BY <1>1, <2>1 DEF Raised, Wake, SignalTypeOK, NoWakeUpLost
  <2>2. CASE waitingThreads[s] = <<>>
    BY <1>1, <2>2 DEF Raised, SignalTypeOK, NoWakeUpLost
  <2>3. QED
    BY <2>1, <2>2
<1>2. ASSUME NEW s \in Signals, Raise(s) \/ DeviceISR(s)
      PROVE  NoWakeUpLost'
  <2>1. Raised(s) \/ UNCHANGED signalVars
    BY <1>2 DEF Raise, DeviceISR
  <2>2. QED
    BY <1>1, <2>1 DEF signalVars, NoWakeUpLost
<1>3. ASSUME NEW s \in Signals, WaitRaised(s) \/ WaitBlocks(s) \/ Reset(s)
      PROVE  NoWakeUpLost'
  BY <1>3 DEF WaitRaised, WaitBlocks, Park, Reset, SignalTypeOK, NoWakeUpLost
<1>4. CASE UNCHANGED signalVars
  BY <1>4 DEF signalVars, NoWakeUpLost
<1>5. QED
  BY <1>2, <1>3, <1>4 DEF SignalNext, SignalCalls, Devices, AckIRQ, allVars

\* A signal is never both raised and waited for.
THEOREM WakeUps == SignalSpec => []NoWakeUpLost
<1>1. SignalInit => SignalTypeOK /\ NoWakeUpLost
  BY SignalTypeInit DEF SignalInit, NoWakeUpLost
<1>2. SignalTypeOK /\ NoWakeUpLost /\ [SignalNext]_allVars => (SignalTypeOK /\ NoWakeUpLost)'
  BY SignalTypeNext, WakeUpNext
<1>3. QED
  BY <1>1, <1>2, PTL DEF SignalSpec

-----------------------------------------------------------------------------
(* The ready queue, with signals.                                          *)

LEMMA SignalIdle ==
  ASSUME SignalTypeOK, IdleOK, SignalCalls \/ Devices \/ AckIRQ
  PROVE  IdleOK'
<1> USE ThreadAssumption
<1>1. currentThread \in Threads
  BY DEF SignalTypeOK, TypeOK
<1>2. At("Body") => currentThread # idleThread
  BY IdleAt, IdlePointSeqs
<1>3. stack'[idleThread] \in Seq(IdlePoints)
  <2>1. CASE currentThread # idleThread
    BY <2>1, SignalStack DEF Call, Return, IdleOK, SignalTypeOK, TypeOK
  <2>2. CASE currentThread = idleThread /\ Call(<<"Ack", "iret">>)
    <3>1. <<"Ack", "iret">> \in Seq(IdlePoints)
      BY DEF IdlePoints
    <3>2. QED
      BY <2>2, <3>1, PushType DEF Call, IdleOK, SignalTypeOK, TypeOK
  <2>3. CASE currentThread = idleThread /\ At("Ack") /\ Return
    BY <2>3, PopType DEF At, OnTop, Return, IdleOK, SignalTypeOK, TypeOK
  <2>4. QED
    BY <1>2, <2>1, <2>2, <2>3, SignalStack
<1>4. state'[idleThread] = "Running"
  <2>1. ASSUME NEW s \in Signals, Raised(s) PROVE state'[idleThread] = "Running"
    BY <2>1, RaisedEffect DEF IdleOK, SignalTypeOK, TypeOK
  <2>2. ASSUME NEW s \in Signals, WaitBlocks(s) PROVE state'[idleThread] = "Running"
    BY <1>1, <1>2, <2>2 DEF WaitBlocks, Park, SetState, IdleOK, SignalTypeOK, TypeOK
  <2>3. QED
    BY <2>1, <2>2 DEF SignalCalls, Devices, WaitRaised, Raise, Reset, DeviceISR, AckIRQ, IdleOK
<1>5. QED
  BY <1>3, <1>4 DEF IdleOK

LEMMA SignalQueueNext ==
  ASSUME SignalTypeOK, QueueInv, [SignalNext]_allVars
  PROVE  QueueInv'
<1>1. CASE Next \/ UNCHANGED allVars
  BY <1>1, QueueNext DEF allVars
<1>2. CASE SignalCalls \/ Devices \/ AckIRQ
  <2>1. TypeOK' /\ IdleOK'
    BY <1>2, SignalTypeNext, SignalIdle DEF SignalTypeOK, SignalNext, QueueInv
  <2>2. /\ UNCHANGED <<currentThread, threads>>
        /\ \A t \in Threads : state[t] # "Absent" => state'[t] # "Absent"
    BY <1>2, SignalFrame
  <2>3. Existing' /\ ReadyQueueOK'
    BY <2>2, ElementOfSeq DEF QueueInv, Existing, ReadyQueueOK, TypeOK
  <2>4. QED
    BY <2>1, <2>3 DEF QueueInv
<1>3. QED
  BY <1>1, <1>2 DEF SignalNext

-----------------------------------------------------------------------------
(* Waiting threads.                                                        *)

Waits(s, t) == Contains(waitingThreads[s], t)

\* The inductive invariant: a waiting thread has left the processor, or is on
\* its way from Wait to NextThread, so that it cannot call Wait again.
WaitInv ==
  /\ \A s \in Signals : Distinct(waitingThreads[s])
  /\ \A s, r \in Signals, t \in Threads : Waits(s, t) /\ Waits(r, t) => s = r
  /\ \A s \in Signals, t \in Threads : Waits(s, t) => Gone(t)

\* A thread that stays in its queue is gone after the step, if its state is kept
\* and it was not the running thread that called.
LEMMA GoneFrame ==
  ASSUME SignalTypeOK, SignalCalls \/ Devices \/ AckIRQ,
         NEW t \in Threads, Gone(t), state'[t] = state[t]
  PROVE  Gone(t)'
<1>1. UNCHANGED <<currentThread, threads>>
  BY SignalFrame
<1>2. CASE t # currentThread
  BY <1>1, <1>2 DEF Gone
<1>3. CASE t = currentThread
  <2>1. Parked(stack[t]) /\ stack[t] \in Seq(Points) /\ ~At("Body")
    BY <1>3, ParkedHead DEF Gone, SignalTypeOK, TypeOK, At, OnTop
  <2>2. CASE Call(<<"Ack", "iret">>)
    <3>1. /\ <<"Ack", "iret">> \o stack[t] = <<"Ack">> \o (<<"iret">> \o stack[t])
          /\ <<"iret">> \o stack[t] \in Seq(Points)
      <4>1. "iret" \in Points /\ "Ack" \in Points
        BY DEF Points
      <4>2. <<"iret">> \o stack[t] \in Seq(Points)
        BY <2>1, <4>1, PushProperties
      <4>3. <<"Ack", "iret">> \o stack[t] = <<"Ack">> \o (<<"iret">> \o stack[t])
        BY <2>1, <4>1, PairConcat
      <4>4. QED
        BY <4>2, <4>3
    <3>2. Parked(<<"iret">> \o stack[t])
      BY <2>1, ParkedPush
    <3>3. Parked(<<"Ack", "iret">> \o stack[t])
      BY <3>1, <3>2, ParkedPush
    <3>4. stack'[t] = <<"Ack", "iret">> \o stack[t]
      BY <1>3, <2>2 DEF Call, SignalTypeOK, TypeOK
    <3>5. QED
      BY <1>1, <1>3, <3>3, <3>4 DEF Gone
  <2>3. CASE At("Ack") /\ Return
    <3>1. Parked(Tail(stack[t]))
      BY <1>3, <2>1, <2>3, ParkedPop DEF At, OnTop
    <3>2. stack'[t] = Tail(stack[t])
      BY <1>3, <2>3 DEF Return, SignalTypeOK, TypeOK
    <3>3. QED
      BY <1>1, <1>3, <3>1, <3>2 DEF Gone
  <2>4. QED
    BY <2>1, <2>2, <2>3, SignalStack
<1>4. QED
  BY <1>2, <1>3

LEMMA RaisedWaits ==
  ASSUME SignalTypeOK, WaitInv, NEW s \in Signals, Raised(s)
  PROVE  /\ \A r \in Signals : Distinct(waitingThreads'[r])
         /\ \A r \in Signals, t \in Threads :
              Waits(r, t)' => Waits(r, t) /\ state'[t] = state[t]
<1> DEFINE w == waitingThreads[s]
<1>1. CASE waitingThreads' = waitingThreads /\ state' = state
  BY <1>1 DEF WaitInv, Waits
<1>2. CASE /\ w # <<>>
           /\ waitingThreads' = [waitingThreads EXCEPT ![s] = Tail(@)]
           /\ state' = [state EXCEPT ![Head(w)] = "Running"]
  <2>1. w \in Seq(Threads) /\ Distinct(w)
    BY DEF SignalTypeOK, WaitInv
  <2>2. /\ Distinct(Tail(w))
        /\ ~Contains(Tail(w), Head(w))
        /\ \A x : Contains(w, x) <=> x = Head(w) \/ Contains(Tail(w), x)
        /\ Head(w) \in Threads
    BY <1>2, <2>1, TailDistinct, PopType
  <2>3. \A r \in Signals : waitingThreads'[r] = IF r = s THEN Tail(w) ELSE waitingThreads[r]
    BY <1>2 DEF SignalTypeOK
  <2>4. \A t \in Threads : state'[t] = IF t = Head(w) THEN "Running" ELSE state[t]
    BY <1>2 DEF SignalTypeOK, TypeOK
  <2> HIDE DEF w
  <2>5. Waits(s, Head(w))
    BY <2>2 DEF Waits, w
  <2>6. ASSUME NEW r \in Signals, NEW t \in Threads, Contains(waitingThreads'[r], t)
        PROVE  Waits(r, t) /\ t # Head(w)
    BY <2>2, <2>3, <2>5, <2>6 DEF WaitInv, Waits, w
  <2>7. QED
    BY <2>2, <2>3, <2>4, <2>6 DEF Waits, WaitInv
<1>3. QED
  BY <1>1, <1>2, RaisedEffect

LEMMA WaitBlocksWaits ==
  ASSUME SignalTypeOK, WaitInv, NEW s \in Signals, WaitBlocks(s)
  PROVE  WaitInv'
<1> DEFINE c == currentThread
           w == waitingThreads[s]
<1>1. /\ c \in Threads /\ stack[c] \in Seq(Points) /\ w \in Seq(Threads)
      /\ UNCHANGED <<currentThread, threads>>
  BY DEF SignalTypeOK, TypeOK, WaitBlocks
<1>2. \A r \in Signals : ~Waits(r, c)
  <2>1. ~Parked(stack[c])
    BY <1>1, ParkedHead DEF WaitBlocks, At, OnTop
  <2>2. QED
    BY <1>1, <2>1 DEF WaitInv, Gone
<1>3. /\ Distinct(Append(w, c))
      /\ \A x : Contains(Append(w, c), x) <=> Contains(w, x) \/ x = c
  BY <1>1, <1>2, AppendDistinct DEF Waits, WaitInv
<1>4. \A r \in Signals :
        waitingThreads'[r] = IF r = s THEN Append(w, c) ELSE waitingThreads[r]
  BY DEF WaitBlocks, Park, SignalTypeOK
<1>5. \A r \in Signals, t \in Threads : Waits(r, t)' <=> Waits(r, t) \/ (r = s /\ t = c)
  BY <1>3, <1>4 DEF Waits
<1>6. \A t \in Threads : state'[t] = IF t = c THEN "Waiting" ELSE state[t]
  BY DEF WaitBlocks, Park, SetState, SignalTypeOK, TypeOK
<1>7. Gone(c)'
  <2>1. stack'[c] = <<"NextThread">> \o stack[c]
    BY <1>1 DEF WaitBlocks, Call, SignalTypeOK, TypeOK
  <2>2. Parked(stack'[c])
    BY <1>1, <2>1, ParkedCall
  <2>3. QED
    BY <1>1, <1>6, <2>2 DEF Gone, Ready
<1>8. ASSUME NEW t \in Threads, t # c, Gone(t) PROVE Gone(t)'
  BY <1>6, <1>8, GoneFrame DEF SignalCalls
<1>9. \A r \in Signals : Distinct(waitingThreads'[r])
  BY <1>3, <1>4 DEF WaitInv
<1>10. ASSUME NEW r \in Signals, NEW t \in Threads, Waits(r, t)' PROVE Gone(t)'
  <2>1. t # c => Waits(r, t) /\ Gone(t)
    BY <1>5, <1>10 DEF WaitInv
  <2>2. CASE t = c
    BY <1>1, <1>7, <2>2 DEF Gone
  <2>3. QED
    BY <1>8, <2>1, <2>2
<1>11. ASSUME NEW q \in Signals, NEW r \in Signals, NEW t \in Threads,
              Waits(q, t)', Waits(r, t)'
       PROVE  q = r
  BY <1>2, <1>5, <1>11 DEF WaitInv
<1>12. QED
  BY <1>9, <1>10, <1>11 DEF WaitInv

LEMMA WaitNext ==
  ASSUME SignalTypeOK, QueueInv, WaitInv, [SignalNext]_allVars
  PROVE  WaitInv'
<1>1. CASE [Next]_vars /\ UNCHANGED waitingThreads
  <2>1. \A t \in Threads : Gone(t) => Gone(t)'
    BY <1>1, GoneNext
  <2>2. QED
    BY <1>1, <2>1 DEF WaitInv, Waits
<1>2. ASSUME SignalCalls \/ Devices \/ AckIRQ,
             \A r \in Signals : Distinct(waitingThreads'[r]),
             \A r \in Signals, t \in Threads : Waits(r, t)' => Waits(r, t) /\ state'[t] = state[t]
      PROVE  WaitInv'
  <2>1. ASSUME NEW r \in Signals, NEW t \in Threads, Waits(r, t)' PROVE Gone(t)'
    BY <1>2, <2>1, GoneFrame DEF WaitInv
  <2>2. QED
    BY <1>2, <2>1 DEF WaitInv
<1>3. ASSUME NEW s \in Signals, WaitBlocks(s) PROVE WaitInv'
  BY <1>3, WaitBlocksWaits
<1>4. ASSUME NEW s \in Signals, WaitRaised(s) \/ Reset(s) PROVE WaitInv'
  BY <1>2, <1>4 DEF SignalCalls, WaitRaised, Reset, WaitInv, Waits
<1>5. ASSUME NEW s \in Signals, Raise(s) \/ DeviceISR(s) PROVE WaitInv'
  <2>1. Raised(s) \/ UNCHANGED <<waitingThreads, state>>
    BY <1>5 DEF Raise, DeviceISR, signalVars
  <2>2. /\ \A r \in Signals : Distinct(waitingThreads'[r])
        /\ \A r \in Signals, t \in Threads : Waits(r, t)' => Waits(r, t) /\ state'[t] = state[t]
    BY <2>1, RaisedWaits DEF WaitInv, Waits
  <2>3. QED
    BY <1>2, <1>5, <2>2 DEF SignalCalls, Devices
<1>6. CASE AckIRQ
  BY <1>2, <1>6 DEF AckIRQ, signalVars, WaitInv, Waits
<1>7. QED
  BY <1>1, <1>3, <1>4, <1>5, <1>6
  DEF SignalNext, SignalCalls, Devices, allVars, signalVars

LEMMA WaitersFollow == SignalTypeOK /\ QueueInv /\ WaitInv => WaitersParked
<1> SUFFICES ASSUME SignalTypeOK, QueueInv, WaitInv PROVE WaitersParked
  OBVIOUS
<1>1. ASSUME NEW t \in Threads
      PROVE  /\ Cardinality(WaitingFor(t)) <= 1
             /\ WaitingFor(t) # {} => ~Contains(threads, t)
  <2>1. CASE WaitingFor(t) = {}
    BY <2>1, FS_EmptySet
  <2>2. CASE WaitingFor(t) # {}
    <3>1. PICK s \in Signals : Waits(s, t)
      BY <2>2 DEF WaitingFor, Waits
    <3>2. WaitingFor(t) = {s}
      BY <3>1 DEF WaitInv, WaitingFor, Waits
    <3>3. Cardinality(WaitingFor(t)) = 1
      BY <3>2, FS_Singleton
    <3>4. ~Contains(threads, t)
      BY <3>1 DEF WaitInv, Gone, QueueInv, ReadyQueueOK
    <3>5. QED
      BY <3>3, <3>4
  <2>3. QED
    BY <2>1, <2>2
<1>2. QED
  BY <1>1 DEF WaitersParked, WaitInv, Distinct

\* A thread waits for one signal at a time and does not get the processor back
\* before it is raised.
THEOREM WaitersStayParked == SignalSpec => []WaitersParked
<1>1. SignalInit => SignalTypeOK /\ QueueInv /\ WaitInv
  BY SignalTypeInit, QueueInit DEF SignalInit, WaitInv, Waits, Distinct, Contains
<1>2. SignalTypeOK /\ QueueInv /\ WaitInv /\ [SignalNext]_allVars
        => (SignalTypeOK /\ QueueInv /\ WaitInv)'
  BY SignalTypeNext, SignalQueueNext, WaitNext
<1>3. QED
  BY <1>1, <1>2, WaitersFollow, PTL DEF SignalSpec

-----------------------------------------------------------------------------
(* Requests and acknowledgements.                                          *)

\* The places of Ack on a stack, counted from the bottom so that a call or a
\* return moves none of them.
Acks(s) == {i \in 1..Len(s) : s[Len(s) + 1 - i] = "Ack"}

\* The inductive invariant: the handlers on each stack that have not
\* acknowledged are those unacked names.
ServiceInv ==
  /\ inService \in SUBSET (1..7)
  /\ unacked \in [Threads -> Seq(Signals)]
  /\ IsFiniteSet(Handlers)
  /\ ServiceCounted
  /\ \A t \in Threads : /\ state[t] = "Absent" => stack[t] = <<>>
                        /\ Cardinality(Acks(stack[t])) = Len(unacked[t])
                        /\ Len(unacked[t]) <= MaxNest

LEMMA AcksFinite ==
  ASSUME NEW s \in Seq(Points)
  PROVE  /\ IsFiniteSet(Acks(s))
         /\ Cardinality(Acks(s)) \in Nat
         /\ Cardinality(Acks(s)) <= Len(s)
<1>1. Len(s) \in Nat
  BY LenProperties
<1>2. IsFiniteSet(1..Len(s)) /\ Cardinality(1..Len(s)) = Len(s)
  <2>1. \A n \in Nat : IsFiniteSet(1..n) /\ Cardinality(1..n) = n
    BY FS_Interval, SMTT(20)
  <2>2. QED
    BY <1>1, <2>1
<1>3. Acks(s) \in SUBSET (1..Len(s))
  BY DEF Acks
<1>4. IsFiniteSet(Acks(s)) /\ Cardinality(Acks(s)) <= Len(s)
  BY <1>2, <1>3, FS_Subset
<1>5. QED
  BY <1>4, FS_CardinalityType

LEMMA AcksPush ==
  ASSUME NEW s \in Seq(Points), NEW p \in Points
  PROVE  Cardinality(Acks(<<p>> \o s)) =
           IF p = "Ack" THEN Cardinality(Acks(s)) + 1 ELSE Cardinality(Acks(s))
<1> DEFINE r == <<p>> \o s
           n == Len(s)
<1>1. /\ Len(r) = n + 1 /\ n \in Nat /\ r[1] = p
      /\ \A i \in 1..n : r[i + 1] = s[i]
  BY PushProperties, LenProperties
<1> HIDE DEF r
<1>2. ASSUME NEW i \in 1..n PROVE r[Len(r) + 1 - i] = s[n + 1 - i]
  <2>1. n + 1 - i \in 1..n /\ Len(r) + 1 - i = (n + 1 - i) + 1
    BY <1>1
  <2>2. QED
    BY <1>1, <2>1
<1>3. r[Len(r) + 1 - (n + 1)] = p
  <2>1. Len(r) + 1 - (n + 1) = 1
    BY <1>1
  <2>2. QED
    BY <1>1, <2>1
<1>4. n + 1 \notin Acks(s)
  BY <1>1 DEF Acks
<1>5. \A i : i \in 1..Len(r) <=> i \in 1..n \/ i = n + 1
  BY <1>1
<1>6. Acks(r) = IF p = "Ack" THEN Acks(s) \cup {n + 1} ELSE Acks(s)
  BY <1>2, <1>3, <1>5 DEF Acks
<1>7. QED
  BY <1>4, <1>6, AcksFinite, FS_AddElement DEF r

LEMMA AcksPop ==
  ASSUME NEW s \in Seq(Points), s # <<>>
  PROVE  Cardinality(Acks(Tail(s))) =
           IF Head(s) = "Ack" THEN Cardinality(Acks(s)) - 1 ELSE Cardinality(Acks(s))
<1> DEFINE r == Tail(s)
           n == Len(s)
<1>1. /\ r \in Seq(Points) /\ Len(r) = n - 1 /\ n \in Nat \ {0} /\ s[1] = Head(s)
      /\ \A i \in 1..Len(r) : r[i] = s[i + 1]
  BY PopProperties
<1> HIDE DEF r
<1>2. ASSUME NEW i \in 1..Len(r) PROVE r[Len(r) + 1 - i] = s[n + 1 - i]
  <2>1. Len(r) + 1 - i \in 1..Len(r) /\ n + 1 - i = (Len(r) + 1 - i) + 1
    BY <1>1
  <2>2. QED
    BY <1>1, <2>1
<1>3. s[n + 1 - n] = Head(s)
  <2>1. n + 1 - n = 1
    BY <1>1
  <2>2. QED
    BY <1>1, <2>1
<1>4. \A i : i \in 1..Len(r) <=> i \in 1..n /\ i # n
  BY <1>1
<1>5. n \in Acks(s) <=> Head(s) = "Ack"
  BY <1>1, <1>3 DEF Acks
<1>6. Acks(r) = Acks(s) \ {n}
  BY <1>2, <1>4 DEF Acks
<1>7. QED
  BY <1>5, <1>6, AcksFinite, FS_RemoveElement DEF r

\* Thread's own steps enter and leave no device handler.
LEMMA AcksKept ==
  ASSUME TypeOK, [Next]_vars, NEW t \in Threads, state[t] = "Absent" => stack[t] = <<>>
  PROVE  Cardinality(Acks(stack'[t])) = Cardinality(Acks(stack[t]))
<1> DEFINE c == currentThread
           r == Tail(stack[c])
<1>1. c \in Threads /\ stack[c] \in Seq(Points) /\ DOMAIN stack = Threads
  BY DEF TypeOK
<1>2. stack[c] # <<>> /\ Head(stack[c]) # "Ack" =>
        r \in Seq(Points) /\ Cardinality(Acks(r)) = Cardinality(Acks(stack[c]))
  BY <1>1, AcksPop, PopProperties
<1> HIDE DEF r
<1>3. ASSUME NEW p \in Points \ {"Ack"}, NEW s \in Seq(Points)
      PROVE  /\ Cardinality(Acks(<<p>> \o s)) = Cardinality(Acks(s))
             /\ <<p>> \o s \in Seq(Points)
  BY AcksPush, PushProperties
<1>4. ASSUME NEW p \in Points \ {"Ack"}, NEW q \in Points \ {"Ack"}, NEW s \in Seq(Points)
      PROVE  Cardinality(Acks(<<p, q>> \o s)) = Cardinality(Acks(s))
  <2>1. <<p, q>> \o s = <<p>> \o (<<q>> \o s)
    BY PairConcat
  <2>2. QED
    BY <1>3, <2>1
<1>5. {"NextThread", "Spin", "iret"} \subseteq Points \ {"Ack"}
  BY DEF Points
<1>6. CASE \E p \in Points \ {"Ack", "Spin"} : Call(<<p>>)
  <2>1. PICK p \in Points \ {"Ack", "Spin"} : Call(<<p>>)
    BY <1>6
  <2>2. Cardinality(Acks(<<p>> \o stack[c])) = Cardinality(Acks(stack[c]))
    BY <1>1, <1>3
  <2>3. stack' = [stack EXCEPT ![c] = <<p>> \o stack[c]]
    BY <2>1 DEF Call
  <2>4. QED
    BY <1>1, <2>2, <2>3
<1>7. CASE stack[c] # <<>> /\ Head(stack[c]) # "Ack" /\ Return
  BY <1>1, <1>2, <1>7 DEF Return, r
<1>8. ASSUME NEW p \in Points \ {"Ack", "Spin"}, stack[c] # <<>>, Head(stack[c]) # "Ack",
             Under(c, <<p>>)
      PROVE  Cardinality(Acks(stack'[t])) = Cardinality(Acks(stack[t]))
  <2>1. stack' = [stack EXCEPT ![c] = <<p>> \o r]
    BY <1>8 DEF Under, r
  <2>2. QED
    BY <1>1, <1>2, <1>3, <1>8, <2>1
<1>9. CASE TimerISR
  BY <1>1, <1>4, <1>5, <1>9 DEF TimerISR, Call
<1>10. CASE Terminate
  <2>1. stack[c] # <<>> /\ Head(stack[c]) # "Ack"
    BY <1>10 DEF Terminate, At, OnTop
  <2>2. stack' = [stack EXCEPT ![c] = <<"NextThread", "Spin">> \o r]
    BY <1>10 DEF Terminate, Under, r
  <2>3. QED
    BY <1>1, <1>2, <1>4, <1>5, <2>1, <2>2
<1>11. ASSUME NEW u \in Threads, Create(u)
       PROVE  Cardinality(Acks(stack'[t])) = Cardinality(Acks(stack[t]))
  <2>1. Acks(<<"ThreadStart">>) = {} /\ Acks(<<>>) = {}
    BY DEF Acks
  <2>2. t = u => stack[t] = <<>> /\ stack'[t] = <<"ThreadStart">>
    BY <1>1, <1>11 DEF Create
  <2>3. QED
    BY <1>1, <1>11, <2>1, <2>2 DEF Create
<1>12. QED
  BY <1>6, <1>7, <1>8, <1>9, <1>10, <1>11, StackMove

\* A thread that does not exist has no stack.
LEMMA AbsentKept ==
  ASSUME SignalTypeOK, QueueInv, [SignalNext]_allVars, NEW t \in Threads,
         state[t] = "Absent" => stack[t] = <<>>, state'[t] = "Absent"
  PROVE  stack'[t] = <<>>
<1>1. state[currentThread] # "Absent" /\ currentThread \in Threads
  BY DEF QueueInv, Existing, TypeOK
<1>2. CASE SignalCalls \/ Devices \/ AckIRQ
  <2>1. state[t] = "Absent" /\ t # currentThread
    BY <1>1, <1>2, SignalFrame
  <2>2. QED
    BY <1>2, <2>1, SignalStack DEF Call, Return, SignalTypeOK, TypeOK
<1>3. CASE [Next]_vars
  <2>1. CASE NextThread
    BY <1>1, <2>1 DEF NextThread, Under, QueueInv, TypeOK
  <2>2. ASSUME NEW u \in Threads, Create(u) PROVE stack'[t] = <<>>
    BY <2>2 DEF Create, QueueInv, TypeOK
  <2>3. CASE ~NextThread /\ \A u \in Threads : ~Create(u)
    <3>1. state[t] = "Absent" /\ t # currentThread
      BY <1>1, <1>3, <2>3, QueueFrame DEF QueueInv
    <3>2. stack'[t] = stack[t]
      BY <1>3, <2>3, <3>1, StackMove
      DEF Call, Return, Under, TimerISR, Terminate, QueueInv, TypeOK
    <3>3. QED
      BY <3>1, <3>2
  <2>4. QED
    BY <2>1, <2>2, <2>3
<1>4. QED
  BY <1>2, <1>3 DEF SignalNext, allVars

\* The requests in service when the controller lets another one in, and when
\* it is told of an end.
LEMMA InServiceMoves ==
  ASSUME inService \in SUBSET (1..7)
  PROVE  /\ IsFiniteSet(inService)
         /\ \A s \in Signals : Admits(s) =>
              Cardinality(inService \cup {Irq[s]}) = Cardinality(inService) + 1
         /\ inService # {} => Cardinality(EndOfInterrupt) = Cardinality(inService) - 1
<1>1. IsFiniteSet(inService)
  <2>1. IsFiniteSet(1..7)
    <3>1. 1 \in Int /\ 7 \in Int
      OBVIOUS
    <3>2. QED
      BY ONLY <3>1, FS_Interval
  <2>2. QED
    BY <2>1, FS_Subset
<1>2. ASSUME NEW s \in Signals, Admits(s)
      PROVE  Cardinality(inService \cup {Irq[s]}) = Cardinality(inService) + 1
  <2>1. Irq[s] \in 1..7
    BY SignalAssumption
  <2>2. Irq[s] \notin inService
    BY <1>2, <2>1 DEF Admits
  <2>3. QED
    BY <1>1, <2>2, FS_AddElement
<1>3. ASSUME inService # {}
      PROVE  Cardinality(EndOfInterrupt) = Cardinality(inService) - 1
  <2>1. inService \in SUBSET Nat
    OBVIOUS
  <2>2. PICK least \in inService : \A irq \in inService : ~(<<irq, least>> \in OpToRel(<, Nat))
    BY <1>3, <2>1, WFMin, NatLessThanWellFounded
  <2>3. \A irq \in inService : ~(irq < least)
    BY <2>1, <2>2 DEF OpToRel
  <2>4. EndOfInterrupt = inService \ {least}
    <3>1. \A irq \in inService : irq # least => least < irq
      BY <2>1, <2>3
    <3>2. QED
      BY <2>3, <3>1 DEF EndOfInterrupt
  <2>5. QED
    BY <1>1, <2>4, FS_RemoveElement
<1>4. QED
  BY <1>1, <1>2, <1>3

\* A handler comes in: one request and one handler more.
LEMMA DeviceService ==
  ASSUME SignalTypeOK, ServiceInv, NEW s \in Signals, DeviceISR(s)
  PROVE  /\ inService' \in SUBSET (1..7)
         /\ unacked' \in [Threads -> Seq(Signals)]
         /\ IsFiniteSet(Handlers')
         /\ ServiceCounted'
         /\ \A t \in Threads : /\ Cardinality(Acks(stack'[t])) = Len(unacked'[t])
                               /\ Len(unacked'[t]) <= MaxNest
<1> DEFINE c == currentThread
           u == unacked[c]
           n == Len(u)
<1>1. /\ c \in Threads /\ stack[c] \in Seq(Points) /\ Len(stack[c]) \in Nat
      /\ u \in Seq(Signals) /\ n \in Nat
      /\ Cardinality(Acks(stack[c])) = n
      /\ Len(stack[c]) < MaxNest /\ MaxNest \in Nat
  BY LenProperties, ThreadAssumption DEF SignalTypeOK, TypeOK, ServiceInv, DeviceISR
<1>2. n <= Len(stack[c])
  BY <1>1, AcksFinite
<1> DEFINE v == <<s>> \o u
<1>3. v \in Seq(Signals) /\ Len(v) = n + 1
  <2>1. <<s>> \in Seq(Signals) /\ Len(<<s>>) = 1
    OBVIOUS
  <2>2. QED
    BY <1>1, <2>1, ConcatProperties
<1>4. unacked' = [unacked EXCEPT ![c] = v]
  BY DEF DeviceISR
<1> HIDE DEF v
<1>5. /\ unacked' \in [Threads -> Seq(Signals)]
      /\ \A t \in Threads : Len(unacked'[t]) = IF t = c THEN n + 1 ELSE Len(unacked[t])
  BY <1>1, <1>3, <1>4 DEF ServiceInv
<1>6. Cardinality(Acks(stack'[c])) = n + 1
  <2>1. "iret" \in Points /\ "Ack" \in Points
    BY DEF Points
  <2>2. <<"iret">> \o stack[c] \in Seq(Points)
    BY <1>1, <2>1, PushProperties
  <2>3. <<"Ack", "iret">> \o stack[c] = <<"Ack">> \o (<<"iret">> \o stack[c])
    BY <1>1, <2>1, PairConcat
  <2>4. /\ <<"Ack", "iret">> \o stack[c] = <<"Ack">> \o (<<"iret">> \o stack[c])
        /\ <<"iret">> \o stack[c] \in Seq(Points)
    BY <2>2, <2>3
  <2>5. Cardinality(Acks(<<"iret">> \o stack[c])) = n
    BY <1>1, <2>1, AcksPush
  <2>6. Cardinality(Acks(<<"Ack", "iret">> \o stack[c])) = n + 1
    BY <2>4, <2>1, <2>5, AcksPush
  <2>7. stack'[c] = <<"Ack", "iret">> \o stack[c]
    BY <1>1 DEF DeviceISR, Call, SignalTypeOK, TypeOK
  <2>8. QED
    BY <2>6, <2>7
<1>7. \A t \in Threads : t # c => stack'[t] = stack[t]
  BY DEF DeviceISR, Call, SignalTypeOK, TypeOK
<1> HIDE DEF n, u
<1>8. Handlers' = Handlers \cup {<<c, n + 1>>}
  <2>1. \A h \in Threads \X (1..MaxNest) :
          h[2] <= Len(unacked'[h[1]]) <=> h[2] <= Len(unacked[h[1]]) \/ h = <<c, n + 1>>
    BY <1>1, <1>5 DEF u, n
  <2>2. <<c, n + 1>> \in Threads \X (1..MaxNest)
    BY <1>1, <1>2
  <2>3. Handlers' = {h \in Threads \X (1..MaxNest) : h[2] <= Len(unacked'[h[1]])}
    BY DEF Handlers
  <2>4. QED
    BY <2>1, <2>2, <2>3 DEF Handlers
<1>9. <<c, n + 1>> \notin Handlers
  BY <1>1 DEF Handlers, n, u
<1>10. IsFiniteSet(Handlers') /\ Cardinality(Handlers') = Cardinality(Handlers) + 1
  BY <1>8, <1>9, FS_AddElement DEF ServiceInv
<1>11. /\ inService' \in SUBSET (1..7)
       /\ Cardinality(inService') = Cardinality(inService) + 1
  BY InServiceMoves, SignalAssumption DEF DeviceISR, Admit, ServiceInv
<1>12. ServiceCounted'
  BY <1>10, <1>11 DEF ServiceCounted, ServiceInv
<1>13. QED
  BY <1>1, <1>2, <1>5, <1>6, <1>7, <1>10, <1>11, <1>12 DEF ServiceInv

\* A handler acknowledges: one request and one handler fewer.
LEMMA AckService ==
  ASSUME SignalTypeOK, ServiceInv, AckIRQ
  PROVE  /\ inService' \in SUBSET (1..7)
         /\ unacked' \in [Threads -> Seq(Signals)]
         /\ IsFiniteSet(Handlers')
         /\ ServiceCounted'
         /\ \A t \in Threads : /\ Cardinality(Acks(stack'[t])) = Len(unacked'[t])
                               /\ Len(unacked'[t]) <= MaxNest
<1> DEFINE c == currentThread
           u == unacked[c]
           n == Len(u)
<1>1. /\ c \in Threads /\ stack[c] \in Seq(Points) /\ stack[c] # <<>> /\ Head(stack[c]) = "Ack"
      /\ u \in Seq(Signals) /\ n \in Nat
      /\ Cardinality(Acks(stack[c])) = n
      /\ n <= MaxNest /\ MaxNest \in Nat
  BY LenProperties, ThreadAssumption
  DEF SignalTypeOK, TypeOK, ServiceInv, AckIRQ, At, OnTop
<1>2. Cardinality(Acks(Tail(stack[c]))) = n - 1 /\ Tail(stack[c]) \in Seq(Points)
  BY <1>1, AcksPop, PopProperties
<1>3. n # 0
  <2>1. Cardinality(Acks(Tail(stack[c]))) \in Nat
    BY <1>2, AcksFinite
  <2>2. QED
    BY <1>1, <1>2, <2>1
<1>4. Tail(u) \in Seq(Signals) /\ Len(Tail(u)) = n - 1
  BY <1>1, <1>3, HeadTailProperties, EmptySeq
<1>5. /\ unacked' \in [Threads -> Seq(Signals)]
      /\ \A t \in Threads : Len(unacked'[t]) = IF t = c THEN n - 1 ELSE Len(unacked[t])
  <2>1. unacked' = [unacked EXCEPT ![c] = Tail(u)]
    BY DEF AckIRQ
  <2>2. QED
    BY <1>1, <1>4, <2>1 DEF ServiceInv
<1>6. \A t \in Threads : stack'[t] = IF t = c THEN Tail(stack[c]) ELSE stack[t]
  BY <1>1 DEF AckIRQ, Return, SignalTypeOK, TypeOK
<1> HIDE DEF n, u
<1>7. Handlers' = Handlers \ {<<c, n>>}
  <2>1. \A h \in Threads \X (1..MaxNest) :
          h[2] <= Len(unacked'[h[1]]) <=> h[2] <= Len(unacked[h[1]]) /\ h # <<c, n>>
    BY <1>1, <1>5 DEF u, n
  <2>2. Handlers' = {h \in Threads \X (1..MaxNest) : h[2] <= Len(unacked'[h[1]])}
    BY DEF Handlers
  <2>3. QED
    BY <2>1, <2>2 DEF Handlers
<1>8. <<c, n>> \in Handlers
  BY <1>1, <1>3 DEF Handlers, n, u
<1>9. IsFiniteSet(Handlers') /\ Cardinality(Handlers') = Cardinality(Handlers) - 1
  BY <1>7, <1>8, FS_RemoveElement DEF ServiceInv
<1>10. inService # {}
  <2>1. Cardinality(Handlers) # 0
    BY <1>8, FS_EmptySet DEF ServiceInv
  <2>2. QED
    BY <2>1, FS_EmptySet DEF ServiceInv, ServiceCounted
<1>11. /\ inService' \in SUBSET (1..7)
       /\ Cardinality(inService') = Cardinality(inService) - 1
  <2>1. EndOfInterrupt \in SUBSET (1..7)
    BY DEF EndOfInterrupt, ServiceInv
  <2>2. QED
    BY <1>10, <2>1, InServiceMoves DEF AckIRQ, ServiceInv
<1>12. ServiceCounted'
  BY <1>9, <1>11 DEF ServiceCounted, ServiceInv
<1>13. QED
  BY <1>1, <1>2, <1>5, <1>6, <1>9, <1>11, <1>12 DEF ServiceInv

LEMMA ServiceNext ==
  ASSUME SignalTypeOK, QueueInv, ServiceInv, [SignalNext]_allVars
  PROVE  ServiceInv'
<1>1. \A t \in Threads : state'[t] = "Absent" => stack'[t] = <<>>
  BY AbsentKept DEF ServiceInv
<1>2. CASE /\ UNCHANGED handlerVars
           /\ \A t \in Threads : Cardinality(Acks(stack'[t])) = Cardinality(Acks(stack[t]))
  BY <1>1, <1>2 DEF handlerVars, ServiceInv, ServiceCounted, Handlers
<1>3. CASE [Next]_vars /\ UNCHANGED handlerVars
  BY <1>2, <1>3, AcksKept DEF ServiceInv, SignalTypeOK
<1>4. CASE SignalCalls
  <2>1. UNCHANGED handlerVars
    BY <1>4 DEF SignalCalls, WaitRaised, WaitBlocks, Raise, Reset
  <2>2. stack' = stack \/ Call(<<"NextThread">>)
    BY <1>4 DEF SignalCalls, WaitRaised, WaitBlocks, Raise, Reset
  <2>3. CASE Call(<<"NextThread">>)
    <3>1. currentThread \in Threads /\ stack[currentThread] \in Seq(Points)
      BY DEF SignalTypeOK, TypeOK
    <3>2. Cardinality(Acks(<<"NextThread">> \o stack[currentThread]))
            = Cardinality(Acks(stack[currentThread]))
      BY <3>1, AcksPush DEF Points
    <3>3. QED
      BY <1>2, <2>1, <2>3, <3>1, <3>2 DEF Call, SignalTypeOK, TypeOK
  <2>4. QED
    BY <1>2, <2>1, <2>2, <2>3
<1>5. ASSUME NEW s \in Signals, DeviceISR(s) PROVE ServiceInv'
  BY <1>1, <1>5, DeviceService DEF ServiceInv
<1>6. CASE AckIRQ
  BY <1>1, <1>6, AckService DEF ServiceInv
<1>7. QED
  BY <1>3, <1>4, <1>5, <1>6 DEF SignalNext, Devices, allVars

LEMMA ServiceInit == SignalInit => ServiceInv
<1> SUFFICES ASSUME SignalInit PROVE ServiceInv
  OBVIOUS
<1>1. Handlers = {} /\ inService = {}
  BY DEF SignalInit, Handlers
<1>2. \A t \in Threads : Acks(stack[t]) = {} /\ Len(unacked[t]) = 0
  BY DEF SignalInit, Init, Acks
<1>3. \A t \in Threads : state[t] = "Absent" => stack[t] = <<>>
  BY DEF SignalInit, Init
<1>4. unacked \in [Threads -> Seq(Signals)]
  BY DEF SignalInit
<1>5. IsFiniteSet(Handlers) /\ ServiceCounted
  BY <1>1, FS_EmptySet DEF ServiceCounted
<1>6. \A t \in Threads : Cardinality(Acks(stack[t])) = 0
  BY <1>2, FS_EmptySet
<1>7. QED
  BY <1>1, <1>2, <1>3, <1>4, <1>5, <1>6, ThreadAssumption DEF ServiceInv

\* As many requests are in service as handlers have not acknowledged: no
\* acknowledgement is one too many, none is missing.
THEOREM InterruptsAcknowledged == SignalSpec => []ServiceCounted
<1>1. SignalInit => SignalTypeOK /\ QueueInv /\ ServiceInv
  BY SignalTypeInit, QueueInit, ServiceInit DEF SignalInit
<1>2. SignalTypeOK /\ QueueInv /\ ServiceInv /\ [SignalNext]_allVars
        => (SignalTypeOK /\ QueueInv /\ ServiceInv)'
  BY SignalTypeNext, SignalQueueNext, ServiceNext
<1>3. ServiceInv => ServiceCounted
  BY DEF ServiceInv
<1>4. QED
  BY <1>1, <1>2, <1>3, PTL DEF SignalSpec

=============================================================================
