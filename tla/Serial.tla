------------------------------- MODULE Serial -------------------------------
(***************************************************************************)
(* The serial port of the mouse (kernel/Input/Serial.cpp), as kmain starts *)
(* it and reads from it (kernel/kmain.cpp:131-159), and the 16550 UART     *)
(* behind it, which is external.  The UART's interrupts are on, but their  *)
(* handlers only print and acknowledge: they change nothing of the port.   *)
(***************************************************************************)
EXTENDS Naturals, Sequences

CONSTANTS Chars,     \* the characters that the receiver makes of what is on the line
          Depth,     \* the receiver's FIFO, 16 bytes in the UART
          Trigger,   \* what it holds when it interrupts, 14 bytes
          Tries,     \* how often Init probes a port, 5 times
          FifoLeft,  \* whether the FIFOs may be on when Init begins: a reset
                     \* leaves them off, earlier software may have switched them on
          MaxChars   \* bound: the characters that come in

\* Each try of Probe takes one old character at most out of the receiver.
ASSUME SerialAssumption ==
  /\ Depth \in Nat \ {0}
  /\ Tries \in Nat /\ Tries > 2
  /\ FifoLeft \subseteq BOOLEAN
  /\ TRUE \in FifoLeft => Depth + 1 < Tries

VARIABLES exists,    \* there is a UART at the port
          uart,      \* its registers and buffers
          pc, tries, comWorking,
          kept,      \* bit 0 of the register that ClearBuffers has read
          taken,     \* what kmain has read
          came       \* the characters that came in after the buffers were cleared first

serialVars == <<exists, uart, pc, tries, comWorking, kept, taken, came>>
progress == <<exists, tries, comWorking>>

testVal == "A5"
None == "none"
NoPort == "FF"    \* what is read where nothing answers

SerialInit ==
  /\ exists \in BOOLEAN
  /\ uart \in [ier: BOOLEAN, fifo: FifoLeft, overrun: {FALSE}, thre: BOOLEAN, delta: BOOLEAN,
               loopback: BOOLEAN, rx: {<<>>} \cup {<<c>> : c \in Chars},
               thr: {None}, tsr: {None}]
  /\ pc = "init" /\ tries = 0 /\ comWorking = FALSE
  /\ kept = FALSE /\ taken = <<>> /\ came = <<>>

-----------------------------------------------------------------------------
\* The UART.  A byte goes from the holding register to the shift register, and
\* from there to the line, or back to the receiver.
Received(u, b) ==
  IF u.fifo THEN IF Len(u.rx) < Depth THEN [u EXCEPT !.rx = Append(@, b)]
                                      ELSE [u EXCEPT !.overrun = TRUE]
  ELSE [u EXCEPT !.rx = <<b>>, !.overrun = u.rx # <<>>]

Load ==
  /\ uart.thr # None /\ uart.tsr = None
  /\ uart' = [uart EXCEPT !.tsr = uart.thr, !.thr = None, !.thre = TRUE]
  /\ UNCHANGED <<progress, pc, kept, taken, came>>

Shift ==
  /\ uart.tsr # None
  /\ LET sent == [uart EXCEPT !.tsr = None]
     IN uart' = IF uart.loopback THEN Received(sent, uart.tsr) ELSE sent
  /\ UNCHANGED <<progress, pc, kept, taken, came>>

CharIn ==
  /\ exists /\ ~uart.loopback /\ Len(came) < MaxChars
  /\ \E c \in Chars : uart' = Received(uart, c) /\ came' = Append(came, c)
  /\ UNCHANGED <<progress, pc, kept, taken>>

\* The modem's lines change.
LinesChange ==
  /\ exists /\ ~uart.delta
  /\ uart' = [uart EXCEPT !.delta = TRUE]
  /\ UNCHANGED <<progress, pc, kept, taken, came>>

\* Less than Trigger bytes are reported when no more have come for a while.
DataPending(u, late) ==
  u.rx # <<>> /\ (~u.fifo \/ Len(u.rx) >= Trigger \/ late)

\* The sources of interrupts from the highest priority on; reading of the
\* transmitter's, the third, takes it back.
Identified(u, late) ==
  IF u.overrun \/ DataPending(u, late) THEN u ELSE [u EXCEPT !.thre = FALSE]

Pending(u, late) == u.ier /\ (u.overrun \/ DataPending(u, late) \/ u.thre \/ u.delta)

\* A change of the mode clears the buffers; the bits for it count only if bit 0 is set.
FIFOControl(u, enable, clear) ==
  IF enable # u.fifo \/ (enable /\ clear)
  THEN [u EXCEPT !.fifo = enable, !.rx = <<>>, !.thr = None] ELSE u

-----------------------------------------------------------------------------
\* Init, one port.
InitPort ==
  /\ pc = "init"
  /\ uart' = [uart EXCEPT !.ier = FALSE, !.loopback = TRUE]
  /\ pc' = "probe"
  /\ UNCHANGED <<progress, kept, taken, came>>

ProbeWrite ==
  /\ pc = "probe"
  /\ uart' = IF exists THEN [uart EXCEPT !.thr = testVal, !.thre = FALSE] ELSE uart
  /\ pc' = "wait"
  /\ UNCHANGED <<progress, kept, taken, came>>

\* inputReady is set as soon as the byte has left the holding register, before
\* it comes back.
ProbeWait ==
  /\ pc = "wait" /\ uart.thr = None
  /\ uart' = [uart EXCEPT !.overrun = FALSE]
  /\ pc' = "check"
  /\ UNCHANGED <<progress, kept, taken, came>>

\* What a read of the data register may give: whatever was there last if no byte is.
DataRead ==
  IF ~exists THEN {NoPort} ELSE IF uart.rx # <<>> THEN {Head(uart.rx)}
  ELSE Chars \cup {testVal}

AfterRead == [uart EXCEPT !.rx = IF @ = <<>> THEN @ ELSE Tail(@)]

\* ProbeCheck, had it given up at the first answer that is wrong.
MutantProbeCheck ==
  /\ pc = "check"
  /\ \E recv \in DataRead : comWorking' = (recv = testVal)
  /\ uart' = AfterRead
  /\ pc' = IF comWorking' THEN "fifos" ELSE "configure"
  /\ UNCHANGED <<exists, tries, kept, taken, came>>

ProbeCheck ==
  /\ pc = "check"
  /\ \E recv \in DataRead : comWorking' = (recv = testVal)
  /\ uart' = AfterRead
  /\ pc' = IF comWorking' THEN "fifos" ELSE "delay"
  /\ tries' = IF comWorking' THEN tries ELSE tries + 1
  /\ UNCHANGED <<exists, kept, taken, came>>

\* A byte takes far less than any Delay.
Sent == uart.thr = None /\ uart.tsr = None

ProbeAgain ==
  /\ pc = "delay" /\ Sent
  /\ pc' = IF tries < Tries THEN "probe" ELSE "configure"
  /\ UNCHANGED <<progress, uart, kept, taken, came>>

\* The read of the identification register, in which fifoReg shares the address,
\* is for nothing: all bits are set.
InitFIFO ==
  /\ pc = "fifos"
  /\ \E late \in BOOLEAN : uart' = FIFOControl(Identified(uart, late), TRUE, TRUE)
  /\ pc' = "enable"
  /\ UNCHANGED <<progress, kept, taken, came>>

InitInterrupts ==
  /\ pc = "enable"
  /\ uart' = [uart EXCEPT !.ier = TRUE, !.loopback = FALSE, !.thre = @ \/ uart.thr = None]
  /\ pc' = "configure"
  /\ UNCHANGED <<progress, kept, taken, came>>

-----------------------------------------------------------------------------
\* kmain: Configure and SetReady, which leave the buffers alone, and a Delay.
Configure ==
  /\ pc = "configure"
  /\ pc' = "settle"
  /\ UNCHANGED <<progress, uart, kept, taken, came>>

Settle ==
  /\ pc = "settle" /\ Sent
  /\ pc' = "clear1"
  /\ UNCHANGED <<progress, uart, kept, taken, came>>

\* ClearBuffers reads what interrupt is pending from the address at which it then
\* controls the FIFOs: with one pending bit 0 is not set.
ClearRead ==
  /\ pc \in {"clear1", "clear2"}
  /\ \E late \in BOOLEAN :
       /\ kept' = (exists => ~Pending(uart, late))
       /\ uart' = Identified(uart, late)
  /\ pc' = IF pc = "clear1" THEN "cleared1" ELSE "cleared2"
  /\ UNCHANGED <<progress, taken, came>>

\* ClearWrite, had it only switched the FIFOs on.
MutantClearWrite ==
  /\ pc \in {"cleared1", "cleared2"}
  /\ uart' = FIFOControl(uart, TRUE, FALSE)
  /\ pc' = IF pc = "cleared1" THEN "first" ELSE "loop"
  /\ came' = IF pc = "cleared1" THEN <<>> ELSE came
  /\ UNCHANGED <<progress, kept, taken>>

ClearWrite ==
  /\ pc \in {"cleared1", "cleared2"}
  /\ uart' = IF exists THEN FIFOControl(uart, kept, TRUE) ELSE uart
  /\ pc' = IF pc = "cleared1" THEN "first" ELSE "loop"
  /\ came' = IF pc = "cleared1" THEN <<>> ELSE came
  /\ UNCHANGED <<progress, kept, taken>>

\* ReadByte waits for outputFull and reads.
ReadByte ==
  /\ exists => uart.rx # <<>>
  /\ \E b \in DataRead : taken' = IF exists THEN Append(taken, b) ELSE taken
  /\ uart' = [AfterRead EXCEPT !.overrun = FALSE]

\* The first read gives up after two seconds.
ReadFirst ==
  /\ pc = "first"
  /\ \/ ReadByte
     \/ uart' = [uart EXCEPT !.overrun = FALSE] /\ UNCHANGED taken
  /\ pc' = "clear2"
  /\ UNCHANGED <<progress, kept, came>>

ReadLoop ==
  /\ pc = "loop"
  /\ ReadByte
  /\ UNCHANGED <<progress, pc, kept, came>>

-----------------------------------------------------------------------------
Kmain ==
  \/ InitPort \/ ProbeWrite \/ ProbeWait \/ ProbeCheck \/ ProbeAgain
  \/ InitFIFO \/ InitInterrupts
  \/ Configure \/ Settle \/ ClearRead \/ ClearWrite \/ ReadFirst \/ ReadLoop

Wire == Load \/ Shift

SerialNext == Kmain \/ Wire \/ CharIn \/ LinesChange

SerialSpec == SerialInit /\ [][SerialNext]_serialVars

-----------------------------------------------------------------------------
Probing == {"init", "probe", "wait", "check", "delay"}

\* Though Probe may look for its byte before that has come back, and finds an older
\* one then, Init knows in the end whether there is a port (Serial.cpp:292-300).
PortFound == pc \notin Probing => comWorking = exists

\* kmain reads the characters that have come in since it cleared the buffers
\* first, each once and in their order, and never a byte of Probe's, which may be
\* on its way when Init clears the buffers.
ReadInOrder ==
  \E at \in [1..Len(taken) -> 1..Len(came)] :
    /\ \A i, j \in 1..Len(taken) : i < j => at[i] < at[j]
    /\ \A i \in 1..Len(taken) : taken[i] = came[at[i]]
=============================================================================
