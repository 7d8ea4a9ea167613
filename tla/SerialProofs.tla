----------------------------- MODULE SerialProofs -----------------------------
(***************************************************************************)
(* Proofs about the serial port (module Serial), for any characters, any   *)
(* depth of the receiver's FIFO and any number of tries of Probe, as far   *)
(* as SerialAssumption goes.                                               *)
(***************************************************************************)
EXTENDS Serial, SequenceTheorems, TLAPS

Bytes == Chars \cup {testVal}

Uarts == [ier: BOOLEAN, fifo: BOOLEAN, overrun: BOOLEAN, thre: BOOLEAN, delta: BOOLEAN,
          loopback: BOOLEAN, rx: Seq(Bytes), thr: {None, testVal}, tsr: {None, testVal}]

Places == Probing \cup {"fifos", "enable", "configure", "settle", "clear1", "cleared1",
                        "first", "clear2", "cleared2", "loop"}

SerialTypeOK ==
  /\ exists \in BOOLEAN /\ comWorking \in BOOLEAN /\ kept \in BOOLEAN
  /\ uart \in Uarts
  /\ pc \in Places
  /\ tries \in Nat
  /\ taken \in Seq(Bytes) /\ came \in Seq(Chars)

-----------------------------------------------------------------------------
(* The steps of the UART.                                                  *)

LEMMA ReceivedType ==
  ASSUME NEW u \in Uarts, NEW b \in Bytes
  PROVE  /\ Received(u, b) \in Uarts
         /\ \A f \in {"ier", "fifo", "thre", "delta", "loopback", "thr", "tsr"} :
              Received(u, b)[f] = u[f]
         /\ Received(u, b).rx \in {u.rx, Append(u.rx, b), <<b>>}
         /\ u.fifo => \/ Received(u, b).rx = Append(u.rx, b) /\ Len(u.rx) < Depth
                      \/ Received(u, b).rx = u.rx /\ ~(Len(u.rx) < Depth)
         /\ ~u.fifo => Received(u, b).rx = <<b>>
<1>1. u.rx \in Seq(Bytes) /\ Append(u.rx, b) \in Seq(Bytes) /\ <<b>> \in Seq(Bytes)
      /\ (u.rx # <<>>) \in BOOLEAN
  BY AppendProperties DEF Uarts
<1>2. CASE u.fifo /\ Len(u.rx) < Depth
  BY <1>1, <1>2 DEF Received, Uarts
<1>3. CASE u.fifo /\ ~(Len(u.rx) < Depth)
  BY <1>1, <1>3 DEF Received, Uarts
<1>4. CASE ~u.fifo
  BY <1>1, <1>4 DEF Received, Uarts
<1>5. QED
  BY <1>2, <1>3, <1>4

LEMMA ReadType ==
  ASSUME SerialTypeOK
  PROVE  /\ AfterRead \in Uarts
         /\ AfterRead.rx = IF uart.rx = <<>> THEN <<>> ELSE Tail(uart.rx)
         /\ \A f \in {"ier", "fifo", "overrun", "thre", "delta", "loopback", "thr", "tsr"} :
              AfterRead[f] = uart[f]
<1>1. uart.rx # <<>> => Tail(uart.rx) \in Seq(Bytes)
  BY HeadTailProperties DEF SerialTypeOK, Uarts
<1>2. QED
  BY <1>1 DEF AfterRead, SerialTypeOK, Uarts

LEMMA ControlType ==
  ASSUME NEW u \in Uarts, NEW enable \in BOOLEAN, NEW clear \in BOOLEAN, NEW late \in BOOLEAN
  PROVE  /\ FIFOControl(u, enable, clear) \in Uarts
         /\ Identified(u, late) \in Uarts
         /\ \A f \in {"ier", "fifo", "overrun", "delta", "loopback", "rx", "thr", "tsr"} :
              Identified(u, late)[f] = u[f]
         /\ \A f \in {"ier", "overrun", "thre", "delta", "loopback", "tsr"} :
              FIFOControl(u, enable, clear)[f] = u[f]
         /\ FIFOControl(u, enable, clear).fifo = enable
         /\ IF enable # u.fifo \/ (enable /\ clear)
            THEN FIFOControl(u, enable, clear).rx = <<>>
            ELSE FIFOControl(u, enable, clear).rx = u.rx
         /\ FIFOControl(u, enable, clear).thr \in {u.thr, None}
<1>1. <<>> \in Seq(Bytes)
  OBVIOUS
<1>2. u \in Uarts
  OBVIOUS
<1>3. /\ Identified(u, late) \in Uarts
      /\ \A f \in {"ier", "fifo", "overrun", "delta", "loopback", "rx", "thr", "tsr"} :
           Identified(u, late)[f] = u[f]
  BY DEF Identified, Uarts
<1>4. CASE enable # u.fifo \/ (enable /\ clear)
  <2>1. FIFOControl(u, enable, clear) = [u EXCEPT !.fifo = enable, !.rx = <<>>, !.thr = None]
    BY <1>4 DEF FIFOControl
  <2> DEFINE w == [u EXCEPT !.fifo = enable, !.rx = <<>>, !.thr = None]
  <2>2. w \in Uarts
    BY <1>1 DEF Uarts
  <2>3. /\ \A f \in {"ier", "overrun", "thre", "delta", "loopback", "tsr"} : w[f] = u[f]
        /\ w.fifo = enable /\ w.rx = <<>> /\ w.thr = None
    BY DEF Uarts
  <2> HIDE DEF w
  <2>4. FIFOControl(u, enable, clear) = w
    BY <2>1 DEF w
  <2>5. QED
    BY <1>3, <1>4, <2>2, <2>3, <2>4
<1>5. CASE ~(enable # u.fifo \/ (enable /\ clear))
  <2>1. FIFOControl(u, enable, clear) = u /\ u.fifo = enable
    BY <1>5 DEF FIFOControl, Uarts
  <2>2. QED
    BY <1>2, <1>3, <1>5, <2>1
<1>6. QED
  BY <1>4, <1>5

LEMMA SerialTypeInit == SerialInit => SerialTypeOK
<1> SUFFICES ASSUME SerialInit PROVE SerialTypeOK
  OBVIOUS
<1>1. \A r \in {<<>>} \cup {<<c>> : c \in Chars} : r \in Seq(Bytes)
  <2>1. \A c \in Chars : c \in Bytes
    BY DEF Bytes
  <2>2. <<>> \in Seq(Bytes) /\ \A b \in Bytes : <<b>> \in Seq(Bytes)
    OBVIOUS
  <2>3. QED
    BY <2>1, <2>2
<1>2. uart \in Uarts
  BY <1>1, SerialAssumption DEF SerialInit, Uarts
<1>3. <<>> \in Seq(Bytes) /\ <<>> \in Seq(Chars)
  OBVIOUS
<1>4. QED
  BY <1>2, <1>3 DEF SerialInit, SerialTypeOK, Places, Probing

LEMMA SerialTypeNext ==
  ASSUME SerialTypeOK, [SerialNext]_serialVars
  PROVE  SerialTypeOK'
<1> USE DEF Places, Probing
<1>1. CASE Wire
  <2>1. CASE Load
    BY <2>1 DEF Load, progress, SerialTypeOK, Uarts
  <2>2. CASE Shift
    <3> DEFINE sent == [uart EXCEPT !.tsr = None]
    <3>1. sent \in Uarts /\ uart.tsr \in Bytes
      BY <2>2 DEF Shift, SerialTypeOK, Uarts, Bytes
    <3>2. uart' \in {Received(sent, uart.tsr), sent}
      BY <2>2 DEF Shift
    <3> HIDE DEF sent
    <3>3. uart' \in Uarts
      BY <3>1, <3>2, ReceivedType
    <3>4. QED
      BY <2>2, <3>3 DEF Shift, progress, SerialTypeOK
  <2>3. QED
    BY <1>1, <2>1, <2>2 DEF Wire
<1>2. CASE CharIn
  <2>1. PICK c \in Chars : uart' = Received(uart, c) /\ came' = Append(came, c)
    BY <1>2 DEF CharIn
  <2>2. uart' \in Uarts /\ came' \in Seq(Chars)
    BY <2>1, ReceivedType, AppendProperties DEF SerialTypeOK, Bytes
  <2>3. QED
    BY <1>2, <2>2 DEF CharIn, progress, SerialTypeOK
<1>3. CASE LinesChange \/ InitPort
  BY <1>3 DEF LinesChange, InitPort, progress, SerialTypeOK, Uarts
<1>4. CASE ProbeWrite \/ ProbeWait
  BY <1>4 DEF ProbeWrite, ProbeWait, progress, SerialTypeOK, Uarts
<1>5. CASE ProbeCheck
  <2>1. uart' \in Uarts /\ comWorking' \in BOOLEAN
    BY <1>5, ReadType DEF ProbeCheck
  <2>2. QED
    BY <1>5, <2>1 DEF ProbeCheck, SerialTypeOK
<1>6. CASE ProbeAgain \/ Configure \/ Settle
  BY <1>6 DEF ProbeAgain, Configure, Settle, progress, SerialTypeOK
<1>7. CASE InitFIFO \/ ClearRead
  <2>1. PICK late \in BOOLEAN :
          uart' \in {FIFOControl(Identified(uart, late), TRUE, TRUE), Identified(uart, late)}
    BY <1>7 DEF InitFIFO, ClearRead
  <2>2. uart' \in Uarts
    <3>1. Identified(uart, late) \in Uarts
      BY ControlType DEF SerialTypeOK
    <3>2. FIFOControl(Identified(uart, late), TRUE, TRUE) \in Uarts
      BY <3>1, ControlType
    <3>3. QED
      BY <2>1, <3>1, <3>2
  <2>3. kept' \in BOOLEAN
    BY <1>7 DEF InitFIFO, ClearRead, SerialTypeOK
  <2>4. QED
    BY <1>7, <2>2, <2>3 DEF InitFIFO, ClearRead, progress, SerialTypeOK
<1>8. CASE InitInterrupts
  BY <1>8 DEF InitInterrupts, progress, SerialTypeOK, Uarts
<1>9. CASE ClearWrite
  <2>1. uart' \in Uarts
    BY <1>9, ControlType DEF ClearWrite, SerialTypeOK
  <2>2. came' \in Seq(Chars)
    BY <1>9 DEF ClearWrite, SerialTypeOK
  <2>3. QED
    BY <1>9, <2>1, <2>2 DEF ClearWrite, progress, SerialTypeOK
<1>10. CASE ReadFirst \/ ReadLoop
  <2>1. ASSUME ReadByte PROVE uart' \in Uarts /\ taken' \in Seq(Bytes)
    <3>1. uart' \in Uarts
      BY <2>1, ReadType DEF ReadByte, Uarts
    <3>2. exists => uart.rx # <<>> /\ Head(uart.rx) \in Bytes
      BY <2>1, HeadTailProperties DEF ReadByte, SerialTypeOK, Uarts
    <3>3. taken' \in Seq(Bytes)
      BY <2>1, <3>2, AppendProperties DEF ReadByte, DataRead, SerialTypeOK
    <3>4. QED
      BY <3>1, <3>3
  <2>2. uart' \in Uarts /\ taken' \in Seq(Bytes)
    BY <1>10, <2>1 DEF ReadFirst, ReadLoop, SerialTypeOK, Uarts
  <2>3. QED
    BY <1>10, <2>2 DEF ReadFirst, ReadLoop, progress, SerialTypeOK
<1>11. CASE UNCHANGED serialVars
  BY <1>11 DEF serialVars, progress, SerialTypeOK
<1>12. QED
  BY <1>1, <1>2, <1>3, <1>4, <1>5, <1>6, <1>7, <1>8, <1>9, <1>10, <1>11
  DEF SerialNext, Kmain

-----------------------------------------------------------------------------
(* The port is found.                                                      *)

\* What the receiver can hold of characters from before Init.
Room == IF uart.fifo THEN Depth ELSE 1

\* From the m-th byte on the receiver has only what Probe has written.
OldFirst(rx, m) == \A i \in 1..Len(rx) : i > m => rx[i] = testVal

\* Each try that fails takes an old character away, but one, which finds the
\* receiver empty and Probe's byte still on its way: then the next one succeeds.
TriesLeft(rx, n, onTheWay) ==
  \/ \E m \in Nat : m + n <= Room /\ OldFirst(rx, m)
  \/ n <= Room + 1 /\ OldFirst(rx, 0) /\ (onTheWay \/ rx # <<>>)

\* The inductive invariant.
ProbeInv ==
  /\ ~exists => ~comWorking
  /\ exists =>
       /\ pc \notin Probing => comWorking
       /\ pc \in Probing => (uart.fifo => TRUE \in FifoLeft)
       /\ pc = "init" => tries = 0 /\ Len(uart.rx) <= Room
       /\ pc \in Probing \ {"init"} => uart.loopback
       /\ pc \in {"probe", "wait", "check"} => TriesLeft(uart.rx, tries, FALSE)
       /\ pc = "delay" =>
            TriesLeft(uart.rx, tries, uart.thr # None \/ uart.tsr # None)
       /\ pc \in {"wait", "check"} =>
            uart.thr # None \/ uart.tsr # None \/ uart.rx # <<>>
       /\ pc = "check" => uart.thr = None

LEMMA OldReceived ==
  ASSUME SerialTypeOK, NEW u \in Uarts, NEW m \in Nat, OldFirst(u.rx, m)
  PROVE  OldFirst(Received(u, testVal).rx, m)
<1> DEFINE r == Received(u, testVal).rx
<1>1. r \in {u.rx, Append(u.rx, testVal), <<testVal>>} /\ u.rx \in Seq(Bytes)
  BY ReceivedType DEF Bytes, Uarts
<1>2. OldFirst(Append(u.rx, testVal), m)
  BY <1>1, AppendProperties DEF OldFirst, Bytes
<1>3. OldFirst(<<testVal>>, m)
  BY DEF OldFirst
<1>4. QED
  BY <1>1, <1>2, <1>3

LEMMA OldTail ==
  ASSUME NEW s \in Seq(Bytes), s # <<>>, NEW m \in Nat, OldFirst(s, m)
  PROVE  IF m = 0 THEN Head(s) = testVal /\ OldFirst(Tail(s), 0)
                  ELSE OldFirst(Tail(s), m - 1)
<1>1. /\ Len(s) \in Nat \ {0} /\ Len(Tail(s)) = Len(s) - 1 /\ Head(s) = s[1]
      /\ \A i \in 1..Len(Tail(s)) : Tail(s)[i] = s[i + 1]
  BY HeadTailProperties, EmptySeq
<1>2. QED
  BY <1>1 DEF OldFirst

LEMMA ReceivedFull ==
  ASSUME NEW u \in Uarts
  PROVE  Received(u, testVal).rx # <<>>
<1>1. u.rx \in Seq(Bytes) /\ testVal \in Bytes /\ Len(u.rx) \in Nat
  BY LenProperties DEF Uarts, Bytes
<1>2. Append(u.rx, testVal) # <<>> /\ <<testVal>> # <<>>
  BY <1>1, AppendProperties
<1>3. ~(Len(u.rx) < Depth) => u.rx # <<>>
  BY <1>1, SerialAssumption
<1>4. QED
  BY <1>1, <1>2, <1>3, ReceivedType DEF Uarts

LEMMA RoomKept ==
  ASSUME NEW u \in Uarts, NEW b \in Bytes, u.fifo = uart.fifo, Len(u.rx) <= Room,
         uart'.fifo = uart.fifo
  PROVE  Len(Received(u, b).rx) <= Room'
<1>1. Room' = Room /\ Depth \in Nat /\ u.rx \in Seq(Bytes) /\ Len(u.rx) \in Nat
  BY SerialAssumption, LenProperties DEF Room, Uarts
<1>2. Len(Append(u.rx, b)) = Len(u.rx) + 1 /\ Len(<<b>>) = 1
  BY <1>1, AppendProperties
<1>3. CASE u.fifo
  BY <1>1, <1>2, <1>3, ReceivedType DEF Room
<1>4. CASE ~u.fifo
  <2>1. Received(u, b).rx = <<b>>
    BY <1>4, ReceivedType
  <2>2. Room = 1
    BY <1>4 DEF Room
  <2>3. QED
    BY <1>1, <1>2, <2>1, <2>2
<1>5. QED
  BY <1>3, <1>4

\* Probe's byte comes back.
LEMMA TriesReceived ==
  ASSUME SerialTypeOK, NEW u \in Uarts, u.fifo = uart.fifo, NEW n \in Nat,
         NEW way \in BOOLEAN, TriesLeft(u.rx, n, way)
  PROVE  TriesLeft(Received(u, testVal).rx, n, FALSE)
<1>1. \A m \in Nat : OldFirst(u.rx, m) => OldFirst(Received(u, testVal).rx, m)
  BY OldReceived
<1>2. Received(u, testVal).rx # <<>>
  BY ReceivedFull
<1>3. 0 \in Nat
  OBVIOUS
<1>4. QED
  BY <1>1, <1>2, <1>3 DEF TriesLeft

LEMMA CheckFails ==
  ASSUME SerialTypeOK, ProbeInv, exists, ProbeCheck, ~comWorking'
  PROVE  TriesLeft(uart'.rx, tries', uart'.thr # None \/ uart'.tsr # None)
<1> DEFINE rx == uart.rx
<1>1. /\ pc = "check" /\ rx \in Seq(Bytes) /\ tries \in Nat /\ tries' = tries + 1
      /\ TriesLeft(rx, tries, FALSE)
      /\ uart.tsr # None \/ rx # <<>>
  BY DEF ProbeCheck, ProbeInv, SerialTypeOK, Uarts
<1>2. /\ uart'.rx = IF rx = <<>> THEN <<>> ELSE Tail(rx)
      /\ uart'.tsr = uart.tsr
  BY ReadType DEF ProbeCheck
<1>3. Room \in Nat
  BY SerialAssumption DEF Room
<1>4. CASE rx = <<>>
  <2>1. uart'.tsr # None
    BY <1>1, <1>2, <1>4
  <2>2. PICK m \in Nat : m + tries <= Room
    BY <1>1, <1>4 DEF TriesLeft
  <2>3. tries' <= Room + 1
    BY <1>1, <1>3, <2>2
  <2>4. OldFirst(<<>>, 0)
    BY DEF OldFirst
  <2>5. QED
    BY <1>2, <1>4, <2>1, <2>3, <2>4 DEF TriesLeft
<1>5. CASE rx # <<>>
  <2>1. Head(rx) # testVal
    BY <1>5 DEF ProbeCheck, DataRead
  <2>2. ~OldFirst(rx, 0)
    BY <1>1, <1>5, <2>1, OldTail
  <2>3. PICK m \in Nat : m + tries <= Room /\ OldFirst(rx, m)
    BY <1>1, <2>2 DEF TriesLeft
  <2>4. m # 0 /\ OldFirst(Tail(rx), m - 1)
    BY <1>1, <1>5, <2>2, <2>3, OldTail
  <2>5. m - 1 \in Nat /\ (m - 1) + tries' <= Room
    BY <1>1, <1>3, <2>3, <2>4
  <2>6. QED
    BY <1>2, <1>5, <2>4, <2>5 DEF TriesLeft
<1>6. QED
  BY <1>4, <1>5

\* Where there is a port, Probe never runs out of tries.
LEMMA TriesEnough ==
  ASSUME SerialTypeOK, ProbeInv, exists, ProbeAgain
  PROVE  pc' = "probe"
<1>1. TriesLeft(uart.rx, tries, FALSE) /\ tries \in Nat
  BY DEF ProbeAgain, Sent, ProbeInv, SerialTypeOK, Probing
<1>2. Room \in Nat /\ Room + 1 < Tries
  <2>1. uart.fifo => TRUE \in FifoLeft
    BY DEF ProbeAgain, ProbeInv, Probing
  <2>2. CASE uart.fifo
    BY <2>1, <2>2, SerialAssumption DEF Room
  <2>3. CASE ~uart.fifo
    BY <2>3, SerialAssumption DEF Room
  <2>4. QED
    BY <2>2, <2>3
<1>3. tries <= Room + 1
  BY <1>1, <1>2 DEF TriesLeft
<1>4. tries < Tries
  BY <1>1, <1>2, <1>3, SerialAssumption
<1>5. QED
  BY <1>4 DEF ProbeAgain

LEMMA ProbeInvNext ==
  ASSUME SerialTypeOK, ProbeInv, [SerialNext]_serialVars
  PROVE  ProbeInv'
<1> USE DEF Probing
<1>1. CASE ~exists
  <2>1. UNCHANGED exists
    BY DEF SerialNext, Kmain, Wire, Load, Shift, CharIn, LinesChange, InitPort, ProbeWrite,
           ProbeWait, ProbeCheck, ProbeAgain, InitFIFO, InitInterrupts, Configure, Settle,
           ClearRead, ClearWrite, ReadFirst, ReadLoop, progress, serialVars
  <2>2. CASE ProbeCheck
    <3>1. DataRead = {NoPort} /\ NoPort # testVal
      BY <1>1 DEF DataRead, NoPort, testVal
    <3>2. ~comWorking'
      BY <2>2, <3>1 DEF ProbeCheck
    <3>3. QED
      BY <1>1, <2>1, <3>2 DEF ProbeInv
  <2>3. CASE ~ProbeCheck
    <3>1. UNCHANGED comWorking
      BY <2>3
      DEF SerialNext, Kmain, Wire, Load, Shift, CharIn, LinesChange, InitPort, ProbeWrite,
          ProbeWait, ProbeAgain, InitFIFO, InitInterrupts, Configure, Settle,
          ClearRead, ClearWrite, ReadFirst, ReadLoop, progress, serialVars
    <3>2. QED
      BY <1>1, <2>1, <3>1 DEF ProbeInv
  <2>4. QED
    BY <2>2, <2>3
<1>2. CASE exists /\ Load
  BY <1>2 DEF Load, progress, ProbeInv, SerialTypeOK, Uarts, Room, TriesLeft
<1>3. CASE exists /\ Shift
  <2> DEFINE sent == [uart EXCEPT !.tsr = None]
  <2>1. /\ sent \in Uarts /\ uart.tsr = testVal /\ sent.rx = uart.rx /\ sent.fifo = uart.fifo
        /\ sent.loopback = uart.loopback /\ sent.thr = uart.thr
        /\ uart' = IF uart.loopback THEN Received(sent, testVal) ELSE sent
        /\ UNCHANGED <<exists, pc, tries, comWorking>>
    BY <1>3 DEF Shift, progress, SerialTypeOK, Uarts
  <2> HIDE DEF sent
  <2>2. CASE uart.loopback
    <3>1. /\ uart' = Received(sent, testVal) /\ uart'.rx # <<>>
          /\ uart'.fifo = uart.fifo /\ uart'.loopback = uart.loopback /\ uart'.thr = uart.thr
      BY <2>1, <2>2, ReceivedType, ReceivedFull DEF Bytes
    <3>2. ASSUME NEW way \in BOOLEAN, TriesLeft(uart.rx, tries, way)
          PROVE  /\ TriesLeft(uart.rx, tries, FALSE)'
                 /\ TriesLeft(uart.rx, tries, uart.thr # None \/ uart.tsr # None)'
      <4>1. TriesLeft(Received(sent, testVal).rx, tries, FALSE)
        BY <2>1, <3>2, TriesReceived DEF SerialTypeOK
      <4>2. QED
        BY <2>1, <3>1, <4>1 DEF TriesLeft, Room
    <3>3. pc = "init" => Len(uart'.rx) <= Room'
      <4>1. ASSUME pc = "init" PROVE Len(sent.rx) <= Room
        BY <1>3, <2>1, <4>1 DEF ProbeInv
      <4>2. QED
        BY <2>1, <3>1, <4>1, RoomKept DEF Bytes
    <3>4. pc \in Probing =>
            (pc \in {"probe", "wait", "check"} => TriesLeft(uart.rx, tries, FALSE)') /\
            (pc = "delay" => TriesLeft(uart.rx, tries, uart.thr # None \/ uart.tsr # None)')
      BY <1>3, <3>2 DEF ProbeInv
    <3>5. QED
      BY <1>3, <2>1, <3>1, <3>3, <3>4 DEF ProbeInv
  <2>3. CASE ~uart.loopback
    <3>1. /\ uart'.rx = uart.rx /\ uart'.fifo = uart.fifo /\ uart'.loopback = uart.loopback
          /\ pc \notin Probing \ {"init"}
      BY <1>3, <2>1, <2>3 DEF ProbeInv
    <3>2. QED
      BY <1>3, <2>1, <3>1 DEF ProbeInv, Room
  <2>4. QED
    BY <2>2, <2>3
<1>4. CASE exists /\ CharIn
  <2>1. PICK c \in Chars : uart' = Received(uart, c)
    BY <1>4 DEF CharIn
  <2>2. /\ uart'.fifo = uart.fifo
        /\ pc = "init" => Len(uart'.rx) <= Room'
    <3>1. uart'.fifo = uart.fifo
      BY <2>1, ReceivedType DEF Bytes, SerialTypeOK
    <3>2. ASSUME pc = "init" PROVE Len(Received(uart, c).rx) <= Room'
      <4>1. Len(uart.rx) <= Room
        BY <1>4, <3>2 DEF ProbeInv
      <4>2. QED
        BY <3>1, <4>1, RoomKept DEF Bytes, SerialTypeOK
    <3>3. QED
      BY <2>1, <3>1, <3>2
  <2>3. QED
    BY <1>4, <2>2 DEF CharIn, progress, ProbeInv
<1>5. CASE exists /\ (LinesChange \/ Configure \/ Settle)
  <2>1. /\ uart'.rx = uart.rx /\ uart'.fifo = uart.fifo /\ uart'.loopback = uart.loopback
        /\ uart'.thr = uart.thr /\ uart'.tsr = uart.tsr
        /\ UNCHANGED <<exists, tries, comWorking>>
        /\ UNCHANGED pc \/ (pc \notin Probing /\ pc' \notin Probing)
    <3>1. CASE LinesChange
      BY <3>1 DEF LinesChange, progress, SerialTypeOK, Uarts
    <3>2. CASE Configure
      BY <3>2 DEF Configure, progress
    <3>3. CASE Settle
      BY <3>3 DEF Settle, progress
    <3>4. QED
      BY <1>5, <3>1, <3>2, <3>3
  <2>2. CASE UNCHANGED pc
    BY <1>5, <2>1, <2>2 DEF ProbeInv, Room, TriesLeft
  <2>3. CASE pc \notin Probing /\ pc' \notin Probing
    BY <1>5, <2>1, <2>3 DEF ProbeInv
  <2>4. QED
    BY <2>1, <2>2, <2>3
<1>6. CASE exists /\ InitPort
  <2>1. /\ uart'.rx = uart.rx /\ uart'.fifo = uart.fifo /\ uart'.loopback
        /\ pc = "init" /\ pc' = "probe" /\ tries' = 0 /\ exists'
    BY <1>6 DEF InitPort, progress, ProbeInv, SerialTypeOK, Uarts
  <2>2. Len(uart.rx) \in Nat /\ Len(uart.rx) <= Room /\ OldFirst(uart.rx, Len(uart.rx))
    BY <2>1, <1>6, LenProperties DEF ProbeInv, OldFirst, SerialTypeOK, Uarts
  <2>3. Room' = Room
    BY <2>1 DEF Room
  <2>4. TriesLeft(uart.rx, tries, FALSE)'
    BY <2>1, <2>2, <2>3 DEF TriesLeft
  <2>5. QED
    BY <1>6, <2>1, <2>4 DEF ProbeInv
<1>7. CASE exists /\ ProbeWrite
  BY <1>7 DEF ProbeWrite, progress, ProbeInv, SerialTypeOK, Uarts, Room, TriesLeft, testVal, None
<1>8. CASE exists /\ ProbeWait
  BY <1>8 DEF ProbeWait, progress, ProbeInv, SerialTypeOK, Uarts, Room, TriesLeft
<1>9. CASE exists /\ ProbeCheck
  <2>1. CASE comWorking'
    BY <1>9, <2>1 DEF ProbeCheck, ProbeInv
  <2>2. CASE ~comWorking'
    <3>1. TriesLeft(uart'.rx, tries', uart'.thr # None \/ uart'.tsr # None)
      BY <1>9, <2>2, CheckFails
    <3>2. /\ uart'.fifo = uart.fifo /\ uart'.loopback = uart.loopback
          /\ pc = "check" /\ pc' = "delay" /\ exists'
      BY <1>9, <2>2, ReadType DEF ProbeCheck
    <3>3. TriesLeft(uart.rx, tries, uart.thr # None \/ uart.tsr # None)'
      BY <3>1, <3>2 DEF TriesLeft, Room
    <3>4. QED
      BY <1>9, <3>2, <3>3 DEF ProbeInv
  <2>3. QED
    BY <2>1, <2>2
<1>10. CASE exists /\ ProbeAgain
  <2>1. TriesLeft(uart.rx, tries, FALSE)
    BY <1>10 DEF ProbeAgain, Sent, ProbeInv
  <2>2. pc' = "probe" /\ UNCHANGED <<exists, tries, comWorking, uart>>
    BY <1>10, TriesEnough DEF ProbeAgain, progress
  <2>3. QED
    BY <1>10, <2>1, <2>2 DEF ProbeAgain, ProbeInv, TriesLeft, Room
<1>11. CASE exists /\ (InitFIFO \/ InitInterrupts \/ ClearRead \/ ClearWrite \/ ReadFirst \/ ReadLoop)
  <2>1. /\ pc \notin Probing /\ pc' \notin Probing
        /\ UNCHANGED <<exists, comWorking>>
    <3>1. CASE InitFIFO \/ InitInterrupts
      BY <3>1 DEF InitFIFO, InitInterrupts, progress
    <3>2. CASE ClearRead \/ ClearWrite
      BY <3>2 DEF ClearRead, ClearWrite, progress
    <3>3. CASE ReadFirst \/ ReadLoop
      BY <3>3 DEF ReadFirst, ReadLoop, progress
    <3>4. QED
      BY <1>11, <3>1, <3>2, <3>3
  <2>2. QED
    BY <1>11, <2>1 DEF ProbeInv
<1>12. CASE exists /\ UNCHANGED serialVars
  BY <1>12 DEF serialVars, progress, ProbeInv, TriesLeft, Room
<1>13. QED
  BY <1>1, <1>2, <1>3, <1>4, <1>5, <1>6, <1>7, <1>8, <1>9, <1>10, <1>11, <1>12
  DEF SerialNext, Kmain, Wire

LEMMA ProbeInvInit == SerialInit => ProbeInv
<1> SUFFICES ASSUME SerialInit PROVE ProbeInv
  OBVIOUS
<1>1. Len(uart.rx) <= 1 /\ uart.fifo \in FifoLeft
  <2>1. uart.rx \in {<<>>} \cup {<<c>> : c \in Chars} /\ uart.fifo \in FifoLeft
    BY DEF SerialInit
  <2>2. CASE uart.rx = <<>>
    BY <2>1, <2>2
  <2>3. CASE uart.rx # <<>>
    <3>1. PICK c \in Chars : uart.rx = <<c>>
      BY <2>1, <2>3
    <3>2. QED
      BY <2>1, <3>1
  <2>4. QED
    BY <2>2, <2>3
<1>2. 1 <= Room /\ Room \in Nat
  BY SerialAssumption DEF Room
<1>3. Len(uart.rx) \in Nat
  BY SerialTypeInit, LenProperties DEF SerialTypeOK, Uarts
<1>4. Len(uart.rx) <= Room
  BY <1>1, <1>2, <1>3
<1>5. uart.fifo \in BOOLEAN
  BY SerialTypeInit DEF SerialTypeOK, Uarts
<1>6. QED
  BY <1>1, <1>4, <1>5 DEF SerialInit, ProbeInv, Probing

\* Init finds the port if there is one, and none where there is none, though
\* Probe may look for its byte too early and find an older one.
THEOREM PortsFound == SerialSpec => []PortFound
<1>1. SerialInit => SerialTypeOK /\ ProbeInv
  BY SerialTypeInit, ProbeInvInit
<1>2. SerialTypeOK /\ ProbeInv /\ [SerialNext]_serialVars => (SerialTypeOK /\ ProbeInv)'
  BY SerialTypeNext, ProbeInvNext
<1>3. SerialTypeOK /\ ProbeInv => PortFound
  BY DEF SerialTypeOK, ProbeInv, PortFound
<1>4. QED
  BY <1>1, <1>2, <1>3, PTL DEF SerialSpec

-----------------------------------------------------------------------------
(* The characters are read in their order.                                 *)

\* s is a subsequence of c.
Within(s, c) ==
  \E at \in [1..Len(s) -> 1..Len(c)] :
    /\ \A i, j \in 1..Len(s) : i < j => at[i] < at[j]
    /\ \A i \in 1..Len(s) : s[i] = c[at[i]]

Configured == {"configure", "settle"}
Clearing == {"clear1", "cleared1"}
Reading == {"first", "clear2", "cleared2", "loop"}

\* The inductive invariant: what kmain has read and the receiver still holds comes
\* from the line, since the transmitter was empty and the loop open before the
\* buffers were cleared, and the FIFOs were on, so that they were.
OrderInv ==
  /\ ~exists \/ pc \notin Reading => taken = <<>>
  /\ exists =>
       /\ pc \in {"enable"} \cup Configured \cup Clearing => uart.fifo
       /\ pc \in Configured \cup Clearing \cup Reading => ~uart.loopback
       /\ pc \in Clearing \cup Reading => uart.thr = None /\ uart.tsr = None
       /\ pc \in Reading => Within(taken \o uart.rx, came)

LEMMA WithinEmpty == \A c \in Seq(Bytes) : Within(<<>>, c)
<1> SUFFICES ASSUME NEW c \in Seq(Bytes) PROVE Within(<<>>, c)
  OBVIOUS
<1> DEFINE at == [i \in 1..0 |-> 1]
<1>1. Len(<<>>) = 0 /\ 1..0 = {}
  OBVIOUS
<1>2. at \in [1..Len(<<>>) -> 1..Len(c)]
  BY <1>1
<1>3. QED
  BY <1>1, <1>2 DEF Within

\* A character more has come.
LEMMA WithinGrows ==
  ASSUME NEW s \in Seq(Bytes), NEW c \in Seq(Bytes), NEW x \in Bytes, Within(s, c)
  PROVE  Within(s, Append(c, x))
<1>1. PICK at \in [1..Len(s) -> 1..Len(c)] :
        /\ \A i, j \in 1..Len(s) : i < j => at[i] < at[j]
        /\ \A i \in 1..Len(s) : s[i] = c[at[i]]
  BY DEF Within
<1>2. /\ Len(Append(c, x)) = Len(c) + 1 /\ Len(c) \in Nat
      /\ \A i \in 1..Len(c) : Append(c, x)[i] = c[i]
  BY AppendProperties, LenProperties
<1>3. at \in [1..Len(s) -> 1..Len(Append(c, x))]
  BY <1>2
<1>4. \A i \in 1..Len(s) : s[i] = Append(c, x)[at[i]]
  BY <1>1, <1>2
<1>5. QED
  BY <1>1, <1>3, <1>4 DEF Within

\* It has been taken in.
LEMMA WithinAppend ==
  ASSUME NEW s \in Seq(Bytes), NEW c \in Seq(Bytes), NEW x \in Bytes, Within(s, c)
  PROVE  Within(Append(s, x), Append(c, x))
<1> DEFINE n == Len(s)
           m == Len(c)
<1>1. PICK at \in [1..n -> 1..m] :
        /\ \A i, j \in 1..n : i < j => at[i] < at[j]
        /\ \A i \in 1..n : s[i] = c[at[i]]
  BY DEF Within
<1>2. /\ n \in Nat /\ m \in Nat
      /\ Len(Append(c, x)) = m + 1 /\ Append(c, x)[m + 1] = x
      /\ \A i \in 1..m : Append(c, x)[i] = c[i]
      /\ Len(Append(s, x)) = n + 1 /\ Append(s, x)[n + 1] = x
      /\ \A i \in 1..n : Append(s, x)[i] = s[i]
  BY AppendProperties, LenProperties
<1> DEFINE to == [i \in 1..n + 1 |-> IF i = n + 1 THEN m + 1 ELSE at[i]]
<1> HIDE DEF n, m
<1>3. /\ \A i \in 1..n + 1 : i # n + 1 => i \in 1..n
      /\ \A k \in 1..m : k \in 1..m + 1 /\ k < m + 1
      /\ m + 1 \in 1..m + 1
  BY <1>2
<1>4. \A i \in 1..n : to[i] = at[i] /\ to[i] \in 1..m
  BY <1>2
<1>5. to[n + 1] = m + 1
  BY <1>2
<1>6. to \in [1..n + 1 -> 1..m + 1]
  BY <1>3
<1> HIDE DEF to
<1>7. \A i, j \in 1..n + 1 : i < j => to[i] < to[j]
  <2> SUFFICES ASSUME NEW i \in 1..n + 1, NEW j \in 1..n + 1, i < j PROVE to[i] < to[j]
    OBVIOUS
  <2>1. i \in 1..n
    BY <1>2
  <2>2. CASE j = n + 1
    BY <2>1, <2>2, <1>3, <1>4, <1>5
  <2>3. CASE j # n + 1
    BY <2>1, <2>3, <1>1, <1>3, <1>4
  <2>4. QED
    BY <2>2, <2>3
<1>8. \A i \in 1..n + 1 : Append(s, x)[i] = Append(c, x)[to[i]]
  <2> SUFFICES ASSUME NEW i \in 1..n + 1 PROVE Append(s, x)[i] = Append(c, x)[to[i]]
    OBVIOUS
  <2>1. CASE i = n + 1
    BY <2>1, <1>2, <1>5
  <2>2. CASE i # n + 1
    <3>1. i \in 1..n
      BY <2>2, <1>3
    <3>2. QED
      BY <3>1, <1>1, <1>2, <1>4
  <2>3. QED
    BY <2>1, <2>2
<1>9. QED
  BY <1>2, <1>6, <1>7, <1>8 DEF Within

\* What was at the end is lost.
LEMMA WithinPrefix ==
  ASSUME NEW s \in Seq(Bytes), NEW t \in Seq(Bytes), NEW c, Within(s \o t, c)
  PROVE  Within(s, c)
<1> DEFINE r == s \o t
<1>1. PICK at \in [1..Len(r) -> 1..Len(c)] :
        /\ \A i, j \in 1..Len(r) : i < j => at[i] < at[j]
        /\ \A i \in 1..Len(r) : r[i] = c[at[i]]
  BY DEF Within
<1>2. /\ Len(s) \in Nat /\ Len(t) \in Nat /\ Len(r) = Len(s) + Len(t)
      /\ \A i \in 1..Len(s) + Len(t) : r[i] = IF i <= Len(s) THEN s[i] ELSE t[i - Len(s)]
  BY ConcatProperties, LenProperties
<1> HIDE DEF r
<1>3. \A i \in 1..Len(s) : i \in 1..Len(r) /\ r[i] = s[i]
  BY <1>2
<1> DEFINE to == [i \in 1..Len(s) |-> at[i]]
<1>4. to \in [1..Len(s) -> 1..Len(c)]
  BY <1>3
<1>5. /\ \A i, j \in 1..Len(s) : i < j => to[i] < to[j]
      /\ \A i \in 1..Len(s) : s[i] = c[to[i]]
  BY <1>1, <1>3
<1> HIDE DEF to
<1>6. QED
  BY <1>4, <1>5 DEF Within

\* A character comes in while kmain reads.
LEMMA WithinReceived ==
  ASSUME NEW u \in Uarts, NEW t \in Seq(Bytes), NEW c \in Seq(Bytes), NEW x \in Bytes,
         Within(t \o u.rx, c)
  PROVE  Within(t \o Received(u, x).rx, Append(c, x))
<1>1. u.rx \in Seq(Bytes) /\ t \o u.rx \in Seq(Bytes)
  BY ConcatProperties DEF Uarts
<1>2. \A r \in Seq(Bytes) : t \o Append(r, x) = Append(t \o r, x)
  <2> SUFFICES ASSUME NEW r \in Seq(Bytes) PROVE t \o Append(r, x) = Append(t \o r, x)
    OBVIOUS
  <2>1. Append(r, x) = r \o <<x>> /\ Append(t \o r, x) = (t \o r) \o <<x>>
    BY ConcatProperties, AppendIsConcat
  <2>2. QED
    BY <2>1, ConcatAssociative
<1> DEFINE r == Received(u, x).rx
<1>3. CASE u.fifo
  <2>1. r = Append(u.rx, x) \/ r = u.rx
    BY <1>3, ReceivedType
  <2>2. Within(Append(t \o u.rx, x), Append(c, x)) /\ Within(t \o u.rx, Append(c, x))
    BY <1>1, WithinAppend, WithinGrows
  <2>3. t \o Append(u.rx, x) = Append(t \o u.rx, x)
    BY <1>1, <1>2
  <2>4. QED
    BY <2>1, <2>2, <2>3
<1>4. CASE ~u.fifo
  <2>1. Within(t, c)
    BY <1>1, WithinPrefix
  <2>2. t \o <<x>> = Append(t, x)
    BY AppendIsConcat
  <2>3. r = <<x>>
    BY <1>4, ReceivedType
  <2>4. Within(Append(t, x), Append(c, x))
    BY <2>1, WithinAppend
  <2>5. QED
    BY <2>2, <2>3, <2>4
<1>5. QED
  BY <1>3, <1>4

\* A character goes from the receiver to kmain.
LEMMA TakenRead ==
  ASSUME NEW t \in Seq(Bytes), NEW r \in Seq(Bytes), r # <<>>
  PROVE  Append(t, Head(r)) \o Tail(r) = t \o r
<1>1. Head(r) \in Bytes /\ Tail(r) \in Seq(Bytes) /\ <<Head(r)>> \in Seq(Bytes)
  BY HeadTailProperties
<1>2. r = <<Head(r)>> \o Tail(r)
  <2> DEFINE q == <<Head(r)>> \o Tail(r)
             h == <<Head(r)>>
  <2>1. /\ q \in Seq(Bytes) /\ Len(q) = Len(h) + Len(Tail(r)) /\ Len(h) = 1 /\ h[1] = Head(r)
        /\ \A i \in 1..Len(h) + Len(Tail(r)) :
             q[i] = IF i <= Len(h) THEN h[i] ELSE Tail(r)[i - Len(h)]
    BY <1>1, ConcatProperties
  <2>2. /\ Len(r) \in Nat \ {0} /\ Len(Tail(r)) = Len(r) - 1 /\ Head(r) = r[1]
        /\ \A i \in 1..Len(Tail(r)) : Tail(r)[i] = r[i + 1]
    BY HeadTailProperties, EmptySeq, LenProperties
  <2> HIDE DEF q, h
  <2>3. Len(q) = Len(r)
    BY <2>1, <2>2
  <2>4. \A i \in 1..Len(r) : q[i] = r[i]
    <3> SUFFICES ASSUME NEW i \in 1..Len(r) PROVE q[i] = r[i]
      OBVIOUS
    <3>1. CASE i = 1
      BY <3>1, <2>1, <2>2
    <3>2. CASE i # 1
      <4>1. i - 1 \in 1..Len(Tail(r)) /\ i \in 1..Len(h) + Len(Tail(r)) /\ ~(i <= Len(h))
        BY <3>2, <2>1, <2>2
      <4>2. q[i] = Tail(r)[i - 1] /\ Tail(r)[i - 1] = r[(i - 1) + 1] /\ (i - 1) + 1 = i
        BY <4>1, <2>1, <2>2
      <4>3. QED
        BY <4>2
    <3>3. QED
      BY <3>1, <3>2
  <2>5. q = r
    BY <2>1, <2>3, <2>4, SeqEqual
  <2>6. QED
    BY <2>5 DEF q
<1>3. Append(t, Head(r)) = t \o <<Head(r)>>
  BY <1>1, AppendIsConcat
<1>4. (t \o <<Head(r)>>) \o Tail(r) = t \o (<<Head(r)>> \o Tail(r))
  BY <1>1, ConcatAssociative
<1>5. QED
  BY <1>2, <1>3, <1>4

LEMMA OrderInvInit == SerialInit => OrderInv
  BY DEF SerialInit, OrderInv, Configured, Clearing, Reading

\* ReadByte takes from the receiver what it adds to taken.
LEMMA ReadByteOrder ==
  ASSUME SerialTypeOK, exists, ReadByte
  PROVE  taken' \o uart'.rx = taken \o uart.rx
<1>1. uart.rx # <<>> /\ uart.rx \in Seq(Bytes) /\ taken \in Seq(Bytes)
  BY DEF ReadByte, SerialTypeOK, Uarts
<1>2. taken' = Append(taken, Head(uart.rx))
  BY <1>1 DEF ReadByte, DataRead
<1>3. uart'.rx = Tail(uart.rx)
  BY <1>1, ReadType DEF ReadByte, Uarts
<1>4. QED
  BY <1>1, <1>2, <1>3, TakenRead

LEMMA OrderInvNext ==
  ASSUME SerialTypeOK, ProbeInv, OrderInv, [SerialNext]_serialVars
  PROVE  OrderInv'
<1> USE DEF Configured, Clearing, Reading
<1>0. UNCHANGED exists
  BY DEF SerialNext, Kmain, Wire, Load, Shift, CharIn, LinesChange, InitPort, ProbeWrite,
         ProbeWait, ProbeCheck, ProbeAgain, InitFIFO, InitInterrupts, Configure, Settle,
         ClearRead, ClearWrite, ReadFirst, ReadLoop, progress, serialVars
<1>1. CASE ~exists
  <2>1. taken = <<>> /\ (UNCHANGED taken => OrderInv')
    BY <1>0, <1>1 DEF OrderInv
  <2>2. CASE ReadFirst \/ ReadLoop
    <3>1. UNCHANGED taken
      BY <1>1, <2>2 DEF ReadFirst, ReadLoop, ReadByte, DataRead
    <3>2. QED
      BY <2>1, <3>1
  <2>3. CASE ~(ReadFirst \/ ReadLoop)
    <3>1. UNCHANGED taken
      BY <2>3
      DEF SerialNext, Kmain, Wire, Load, Shift, CharIn, LinesChange, InitPort, ProbeWrite,
          ProbeWait, ProbeCheck, ProbeAgain, InitFIFO, InitInterrupts, Configure, Settle,
          ClearRead, ClearWrite, progress, serialVars
    <3>2. QED
      BY <2>1, <3>1
  <2>4. QED
    BY <2>2, <2>3
<1>2. CASE exists /\ (Load \/ Shift)
  <2>1. uart.thr # None \/ uart.tsr # None
    BY <1>2 DEF Load, Shift
  <2>2. pc \notin Clearing \cup Reading /\ taken = <<>>
    BY <1>2, <2>1 DEF OrderInv
  <2>3. UNCHANGED <<exists, pc, taken>> /\ uart'.fifo = uart.fifo /\ uart'.loopback = uart.loopback
    <3>1. CASE Load
      BY <3>1 DEF Load, progress, SerialTypeOK, Uarts
    <3>2. CASE Shift
      <4> DEFINE sent == [uart EXCEPT !.tsr = None]
      <4>1. /\ sent \in Uarts /\ uart.tsr \in Bytes /\ sent.fifo = uart.fifo
            /\ sent.loopback = uart.loopback
            /\ uart' \in {Received(sent, uart.tsr), sent}
        BY <3>2 DEF Shift, SerialTypeOK, Uarts, Bytes
      <4> HIDE DEF sent
      <4>2. uart'.fifo = uart.fifo /\ uart'.loopback = uart.loopback
        BY <4>1, ReceivedType
      <4>3. QED
        BY <3>2, <4>2 DEF Shift, progress
    <3>3. QED
      BY <1>2, <3>1, <3>2
  <2>4. QED
    BY <1>2, <2>2, <2>3 DEF OrderInv
<1>3. CASE exists /\ CharIn
  <2>1. PICK c \in Chars : uart' = Received(uart, c) /\ came' = Append(came, c)
    BY <1>3 DEF CharIn
  <2>2. c \in Bytes /\ uart \in Uarts /\ taken \in Seq(Bytes) /\ came \in Seq(Bytes)
    BY DEF Bytes, SerialTypeOK
  <2>3. /\ uart'.fifo = uart.fifo /\ uart'.loopback = uart.loopback
        /\ uart'.thr = uart.thr /\ uart'.tsr = uart.tsr
        /\ UNCHANGED <<pc, taken>>
    BY <1>3, <2>1, <2>2, ReceivedType DEF CharIn
  <2>4. ASSUME pc \in Reading PROVE Within(taken \o uart'.rx, came')
    <3>1. Within(taken \o uart.rx, came)
      BY <1>3, <2>4 DEF OrderInv
    <3>2. QED
      BY <2>1, <2>2, <3>1, WithinReceived
  <2>5. QED
    BY <1>0, <1>3, <2>3, <2>4 DEF OrderInv
<1>4. CASE exists /\ (LinesChange \/ Configure \/ Settle \/ UNCHANGED serialVars)
  <2>1. /\ uart'.rx = uart.rx /\ uart'.fifo = uart.fifo /\ uart'.loopback = uart.loopback
        /\ uart'.thr = uart.thr /\ uart'.tsr = uart.tsr
        /\ UNCHANGED <<taken, came>>
        /\ \/ UNCHANGED pc
           \/ pc = "configure" /\ pc' = "settle"
           \/ pc = "settle" /\ pc' = "clear1" /\ Sent
    <3>1. CASE LinesChange
      BY <3>1 DEF LinesChange, SerialTypeOK, Uarts
    <3>2. CASE Configure \/ Settle \/ UNCHANGED serialVars
      BY <3>2 DEF Configure, Settle, serialVars
    <3>3. QED
      BY <1>4, <3>1, <3>2
  <2>2. QED
    BY <1>0, <1>4, <2>1 DEF OrderInv, Sent
<1>5. CASE exists /\ (InitPort \/ ProbeWrite \/ ProbeWait \/ ProbeCheck \/ ProbeAgain)
  <2>1. /\ pc \in Probing /\ pc' \in Probing \cup {"fifos"}
        /\ UNCHANGED taken
    <3>1. CASE ProbeAgain
      BY <1>5, <3>1, TriesEnough DEF ProbeAgain, Probing
    <3>2. CASE ~ProbeAgain
      BY <1>5, <3>2 DEF InitPort, ProbeWrite, ProbeWait, ProbeCheck, Probing
    <3>3. QED
      BY <3>1, <3>2
  <2>2. QED
    BY <1>0, <1>5, <2>1 DEF OrderInv, Probing
<1>6. CASE exists /\ InitFIFO
  <2>1. PICK late \in BOOLEAN : uart' = FIFOControl(Identified(uart, late), TRUE, TRUE)
    BY <1>6 DEF InitFIFO
  <2>2. Identified(uart, late) \in Uarts
    BY ControlType DEF SerialTypeOK
  <2>3. uart'.fifo = TRUE
    BY <2>1, <2>2, ControlType
  <2>4. QED
    BY <1>0, <1>6, <2>3 DEF InitFIFO, OrderInv
<1>7. CASE exists /\ InitInterrupts
  <2>1. uart'.loopback = FALSE /\ uart'.fifo = uart.fifo
    BY <1>7 DEF InitInterrupts, SerialTypeOK, Uarts
  <2>2. QED
    BY <1>0, <1>7, <2>1 DEF InitInterrupts, OrderInv
<1>8. CASE exists /\ ClearRead
  <2>1. /\ uart'.rx = uart.rx /\ uart'.fifo = uart.fifo /\ uart'.loopback = uart.loopback
        /\ uart'.thr = uart.thr /\ uart'.tsr = uart.tsr
    BY <1>8, ControlType DEF ClearRead, SerialTypeOK
  <2>2. /\ UNCHANGED <<taken, came>>
        /\ \/ pc = "clear1" /\ pc' = "cleared1"
           \/ pc = "clear2" /\ pc' = "cleared2"
    BY <1>8 DEF ClearRead
  <2>3. QED
    BY <1>0, <1>8, <2>1, <2>2 DEF OrderInv
<1>9. CASE exists /\ ClearWrite
  <2>1. /\ uart' = FIFOControl(uart, kept, TRUE) /\ UNCHANGED taken
        /\ uart \in Uarts /\ kept \in BOOLEAN /\ taken \in Seq(Bytes) /\ came \in Seq(Bytes)
    BY <1>9 DEF ClearWrite, SerialTypeOK, Bytes
  <2>2. /\ uart'.loopback = uart.loopback /\ uart'.tsr = uart.tsr
        /\ uart'.thr \in {uart.thr, None}
        /\ IF kept # uart.fifo \/ kept THEN uart'.rx = <<>> ELSE uart'.rx = uart.rx
    <3>1. ASSUME NEW u \in Uarts, NEW k \in BOOLEAN
          PROVE  /\ FIFOControl(u, k, TRUE).loopback = u.loopback
                 /\ FIFOControl(u, k, TRUE).tsr = u.tsr
                 /\ FIFOControl(u, k, TRUE).thr \in {u.thr, None}
                 /\ IF k # u.fifo \/ k THEN FIFOControl(u, k, TRUE).rx = <<>>
                                       ELSE FIFOControl(u, k, TRUE).rx = u.rx
      <4>1. CASE k # u.fifo \/ k
        <5>1. FIFOControl(u, k, TRUE) = [u EXCEPT !.fifo = k, !.rx = <<>>, !.thr = None]
          BY <4>1 DEF FIFOControl
        <5>2. QED
          BY <4>1, <5>1 DEF Uarts
      <4>2. CASE ~(k # u.fifo \/ k)
        BY <4>2 DEF FIFOControl
      <4>3. QED
        BY <4>1, <4>2
    <3>2. QED
      BY <2>1, <3>1
  <2>3. ~uart.loopback /\ uart.thr = None /\ uart.tsr = None
    BY <1>9 DEF ClearWrite, OrderInv
  <2>4. CASE pc = "cleared1"
    <3>1. uart'.rx = <<>> /\ taken = <<>> /\ came' = <<>> /\ pc' = "first"
      BY <1>9, <2>1, <2>2, <2>4 DEF ClearWrite, OrderInv
    <3>2. Within(taken \o <<>>, <<>>)
      <4>1. <<>> \in Seq(Bytes)
        OBVIOUS
      <4>2. taken \o <<>> = <<>>
        BY <3>1, <4>1, ConcatEmptySeq
      <4>3. QED
        BY <4>1, <4>2, WithinEmpty
    <3>3. QED
      BY <1>0, <1>9, <2>1, <2>2, <2>3, <3>1, <3>2 DEF OrderInv
  <2>5. CASE pc = "cleared2"
    <3>1. Within(taken \o uart.rx, came) /\ UNCHANGED came /\ pc' = "loop"
      BY <1>9, <2>5 DEF ClearWrite, OrderInv
    <3>2. Within(taken \o <<>>, came)
      <4>1. Within(taken, came)
        BY <2>1, <3>1, WithinPrefix DEF Uarts
      <4>2. QED
        BY <2>1, <4>1, ConcatEmptySeq
    <3>3. Within(taken \o uart'.rx, came)
      BY <2>2, <3>1, <3>2
    <3>4. QED
      BY <1>0, <1>9, <2>1, <2>2, <2>3, <3>1, <3>3 DEF OrderInv
  <2>6. QED
    BY <1>9, <2>4, <2>5 DEF ClearWrite
<1>10. CASE exists /\ (ReadFirst \/ ReadLoop)
  <2>1. /\ pc \in Reading /\ pc' \in Reading /\ UNCHANGED came
        /\ ReadByte \/ (uart' = [uart EXCEPT !.overrun = FALSE] /\ UNCHANGED taken)
    BY <1>10 DEF ReadFirst, ReadLoop
  <2>2. taken' \o uart'.rx = taken \o uart.rx
    <3>1. CASE ReadByte
      BY <1>10, <3>1, ReadByteOrder
    <3>2. CASE uart' = [uart EXCEPT !.overrun = FALSE] /\ UNCHANGED taken
      BY <3>2 DEF SerialTypeOK, Uarts
    <3>3. QED
      BY <2>1, <3>1, <3>2
  <2>3. uart'.loopback = uart.loopback /\ uart'.thr = uart.thr /\ uart'.tsr = uart.tsr
    BY <2>1, ReadType DEF ReadByte, SerialTypeOK, Uarts
  <2>4. QED
    BY <1>0, <1>10, <2>1, <2>2, <2>3 DEF OrderInv
<1>11. QED
  BY <1>1, <1>2, <1>3, <1>4, <1>5, <1>6, <1>7, <1>8, <1>9, <1>10 DEF SerialNext, Kmain, Wire

\* kmain reads what has come in since it cleared the buffers, each character once
\* and in their order, and never a byte that Probe has written.
THEOREM CharactersInOrder == SerialSpec => []ReadInOrder
<1>1. SerialInit => SerialTypeOK /\ ProbeInv /\ OrderInv
  BY SerialTypeInit, ProbeInvInit, OrderInvInit
<1>2. SerialTypeOK /\ ProbeInv /\ OrderInv /\ [SerialNext]_serialVars
        => (SerialTypeOK /\ ProbeInv /\ OrderInv)'
  BY SerialTypeNext, ProbeInvNext, OrderInvNext
<1>3. SerialTypeOK /\ OrderInv => ReadInOrder
  <2> SUFFICES ASSUME SerialTypeOK, OrderInv PROVE Within(taken, came)
    BY DEF Within, ReadInOrder
  <2>1. uart.rx \in Seq(Bytes) /\ taken \in Seq(Bytes) /\ came \in Seq(Bytes)
    BY DEF SerialTypeOK, Uarts, Bytes
  <2>2. CASE taken = <<>>
    BY <2>1, <2>2, WithinEmpty
  <2>3. CASE taken # <<>>
    <3>1. Within(taken \o uart.rx, came)
      BY <2>3 DEF OrderInv, SerialTypeOK
    <3>2. QED
      BY <2>1, <3>1, WithinPrefix
  <2>4. QED
    BY <2>2, <2>3
<1>4. QED
  BY <1>1, <1>2, <1>3, PTL DEF SerialSpec
=============================================================================
