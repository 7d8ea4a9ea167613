-------------------------------- MODULE Floppy --------------------------------
(***************************************************************************)
(* The floppy driver (kernel/Block/Floppy.cpp) with the DMA controller     *)
(* (kernel/Core/ISA_DMA.cpp) that it programs and the block layer          *)
(* (kernel/Block/Block.cpp) that calls it.  One thread calls the driver;   *)
(* the drive works and interrupts on its own.  A call is the sequence of   *)
(* the steps that it has still to take.                                    *)
(***************************************************************************)
EXTENDS Integers, Sequences, SequencesExt

CONSTANTS Sectors,      \* on a track: 18 in the code
          Cylinders,
          Values,       \* what a sector may hold
          Media,        \* what the medium may hold at first
          Tables,       \* the partitions that a sector may describe
          DmaPhys,      \* the page for DMA
          MaxLocks,     \* bound: more locks are not held at a time
          MaxRetries    \* 10 in the code

Heads == 2
Total == Sectors * Heads * Cylinders
Places == (0..(Cylinders - 1)) \X (0..(Heads - 1)) \X (1..Sectors)
Ranges == [offset: Nat, count: Nat]

\* 80 cylinders in the code: ScanMBR admits partitions that reach to nearly twice
\* the end of the disk, and a cylinder is a byte, as the counter of the motor is.
ASSUME FloppyAssumption ==
  /\ Sectors \in Nat \ {0} /\ Cylinders \in 1..128
  /\ DmaPhys \in {4096 * n : n \in 0..4095}
  /\ Media \subseteq [Places -> Values]
  /\ Tables \in [Values -> SUBSET Ranges]
  /\ MaxLocks \in 0..254 /\ MaxRetries \in Nat

VARIABLES todo,         \* the steps to take
          call,         \* op, lba and whether it failed
          buffer,       \* of the caller
          page,         \* what the DMA page holds
          motorEnabled, currentTrack, retryCounter,
          state,        \* of the calling thread
          raised,       \* irqSignal
          dma,          \* what the DMA controller is programmed for
          partitions,   \* that are registered
          status,       \* "ready", or "stopped" by FAIL
          fdc,          \* the controller: phase, command, success of the last one, interrupt
          drive,        \* motor and track
          medium,       \* cylinder, head and sector to contents
          late,         \* the controller was once not ready within 200 ticks
          dropped       \* the motor was turned off under a lock

driver == <<todo, call, buffer, motorEnabled, currentTrack, retryCounter, partitions, status>>
floppyVars == <<driver, page, state, raised, dma, fdc, drive, medium, late, dropped>>

NoCall == [op |-> "Init", lba |-> 0, ok |-> TRUE]

\* Read and Write, had they forgotten that a cylinder has two heads.
MutantCHS(lba) == <<(lba \div Sectors) % Cylinders, (lba \div Sectors) % 2, (lba % Sectors) + 1>>

CHS(lba) == <<((lba \div Sectors) \div 2) % 256, (lba \div Sectors) % 2, (lba % Sectors) + 1>>

-----------------------------------------------------------------------------
\* The steps of the operations.

\* A command, had the signal been reset after it.
MutantArmed(command) == <<command, "Arm", "WaitIRQ">>

Armed(command) == <<"Arm", command, "WaitIRQ">>

Reset == <<"ResetOff", "Arm", "ResetOn", "WaitIRQ", "Sense", "Specify">>

\* Read and Write, had they started the DMA controller after the command.
MutantTransfer == <<"MotorOn", "Seek">> \o Armed("Transfer") \o <<"StartDMA", "Result", "MotorOff">>

Transfer == <<"MotorOn", "Seek", "StartDMA">> \o Armed("Transfer") \o <<"Result", "MotorOff">>

Steps(op) == IF op = "Read" THEN Transfer \o <<"Copy", "Return">>
             ELSE <<"Fill">> \o Transfer \o <<"Return">>

Init == Reset \o <<"MotorOn">> \o Armed("Recalibrate") \o <<"SeekResult", "MotorOff", "Lock",
          "RegisterDevice">> \o Steps("Read") \o <<"ScanMBR">>

\* What ScanMBR does after its read.
AfterReturn(steps) == IF Last(steps) = "ScanMBR" THEN <<"ScanMBR">> ELSE <<>>

\* What is left of a transfer that failed, had the motor's counter not been lowered.
MutantFailed(steps) == Reset \o <<"Return">> \o AfterReturn(steps)

\* What is left of a transfer that failed.
Failed(steps) == <<"MotorOff">> \o Reset \o <<"Return">> \o AfterReturn(steps)

-----------------------------------------------------------------------------
At(step) == status = "ready" /\ state # "Waiting" /\ todo # <<>> /\ Head(todo) = step
Next1 == todo' = Tail(todo)

\* A command byte goes to a controller that is ready for it, or, after 200 ticks, to
\* one that is not.
Exec(command) ==
  \/ /\ fdc.phase = "idle"
     /\ fdc' = [fdc EXCEPT !.phase = "busy", !.command = command]
     /\ UNCHANGED late
  \/ /\ fdc.phase # "idle" \/ ~late
     /\ late' = TRUE
     /\ UNCHANGED fdc

\* What the driver reads from the controller: ok, or something else.
Reads(phase, ok) ==
  \/ fdc.phase = phase /\ ok = fdc.ok /\ fdc' = [fdc EXCEPT !.phase = "idle"] /\ UNCHANGED late
  \/ (fdc.phase # phase \/ ~late) /\ late' = TRUE /\ UNCHANGED fdc

\* MotorOff, had it turned the motor off whoever else needs it.
MutantMotorLeft(n) == FALSE

MotorLeft(n) == n > 0

MotorOn ==
  /\ At("MotorOn") /\ Next1
  /\ motorEnabled' = (motorEnabled + 1) % 256
  /\ IF motorEnabled > 0 THEN UNCHANGED <<drive, dropped>>
     ELSE drive' = [drive EXCEPT !.motor = TRUE] /\ dropped' = FALSE
  /\ UNCHANGED <<call, buffer, currentTrack, retryCounter, partitions, status, page, state, raised,
                 dma, fdc, medium, late>>

MotorOff ==
  /\ At("MotorOff") /\ Next1
  /\ motorEnabled > 0
  /\ motorEnabled' = motorEnabled - 1
  /\ drive' = IF MotorLeft(motorEnabled') THEN drive ELSE [drive EXCEPT !.motor = FALSE]
  /\ UNCHANGED <<call, buffer, currentTrack, retryCounter, partitions, status, page, state, raised,
                 dma, fdc, medium, late, dropped>>

ResetOff ==
  /\ At("ResetOff") /\ Next1
  /\ fdc' = [fdc EXCEPT !.phase = "off", !.irq = FALSE]
  /\ drive' = [drive EXCEPT !.motor = FALSE]
  /\ dropped' = (dropped \/ motorEnabled > 0)
  /\ UNCHANGED <<call, buffer, motorEnabled, currentTrack, retryCounter, partitions, status, page,
                 state, raised, dma, medium, late>>

ResetOn ==
  /\ At("ResetOn") /\ Next1
  /\ fdc' = [fdc EXCEPT !.phase = "reset"]
  /\ UNCHANGED <<call, buffer, motorEnabled, currentTrack, retryCounter, partitions, status, page,
                 state, raised, dma, drive, medium, late, dropped>>

\* Unstoppable, and the signal reset.
Arm ==
  /\ At("Arm") /\ Next1
  /\ state' = "Unstoppable"
  /\ raised' = FALSE
  /\ UNCHANGED <<call, buffer, motorEnabled, currentTrack, retryCounter, partitions, status, page,
                 dma, fdc, drive, medium, late, dropped>>

\* Signal::Wait; a signal that is already raised leaves the thread Unstoppable.
WaitIRQ ==
  /\ At("WaitIRQ") /\ Next1
  /\ IF raised THEN raised' = FALSE /\ UNCHANGED state
     ELSE state' = "Waiting" /\ UNCHANGED raised
  /\ UNCHANGED <<call, buffer, motorEnabled, currentTrack, retryCounter, partitions, status, page,
                 dma, fdc, drive, medium, late, dropped>>

\* Commands without an interrupt.
Plain ==
  /\ At("Sense") \/ At("Specify") \/ At("Lock")
  /\ Next1
  /\ late' \in {late, TRUE}
  /\ UNCHANGED <<call, buffer, motorEnabled, currentTrack, retryCounter, partitions, status, page,
                 state, raised, dma, fdc, drive, medium, dropped>>

\* A seek is left out if the head is there already.
Seek ==
  /\ At("Seek")
  /\ todo' = (IF currentTrack = CHS(call.lba)[1] THEN <<>> ELSE Armed("SeekTo") \o <<"SeekResult">>)
             \o Tail(todo)
  /\ UNCHANGED <<call, buffer, motorEnabled, currentTrack, retryCounter, partitions, status, page,
                 state, raised, dma, fdc, drive, medium, late, dropped>>

Command ==
  /\ \/ At("SeekTo") /\ Exec(<<"Seek", CHS(call.lba)[1]>>)
     \/ At("Recalibrate") /\ Exec(<<"Seek", 0>>)
     \/ At("Transfer") /\ Exec(<<call.op>> \o CHS(call.lba))
  /\ Next1
  /\ UNCHANGED <<call, buffer, motorEnabled, currentTrack, retryCounter, partitions, status, page,
                 state, raised, dma, drive, medium, dropped>>

\* After Recalibrate currentTrack is not set: it is 0 from the beginning.
SeekResult ==
  /\ At("SeekResult") /\ Next1
  /\ \E ok \in BOOLEAN :
       /\ Reads("sense", ok)
       /\ status' = IF ok THEN status ELSE "stopped"
       /\ currentTrack' = IF ok /\ call.op # "Init" THEN CHS(call.lba)[1] ELSE currentTrack
  /\ UNCHANGED <<call, buffer, motorEnabled, retryCounter, partitions, page, state, raised,
                 dma, drive, medium, dropped>>

\* ISA_DMA::Start: the address goes out in three bytes, the count in two; the
\* controller transfers one byte more than the count.
StartDMA ==
  /\ At("StartDMA") /\ Next1
  /\ (DmaPhys % 65536) + 512 <= 65535
  /\ LET low == DmaPhys % 256
         high == (DmaPhys \div 256) % 256
         top == (DmaPhys \div 65536) % 256
     IN dma' = [address |-> top * 65536 + high * 256 + low, dir |-> call.op, masked |-> FALSE]
  /\ raised' = FALSE
  /\ UNCHANGED <<call, buffer, motorEnabled, currentTrack, retryCounter, partitions, status, page,
                 state, fdc, drive, medium, late, dropped>>

\* Each function counts its failures in a row.
Result ==
  /\ At("Result")
  /\ \E ok \in BOOLEAN :
       /\ Reads("result", ok)
       /\ call' = [call EXCEPT !.ok = ok]
       /\ retryCounter' = [retryCounter EXCEPT ![call.op] = IF ok THEN 0 ELSE @ + 1]
       /\ status' = IF retryCounter'[call.op] > MaxRetries THEN "stopped" ELSE status
       /\ todo' = IF ok THEN Tail(todo) ELSE Failed(todo)
  /\ UNCHANGED <<buffer, motorEnabled, currentTrack, partitions, page, state, raised, dma, drive,
                 medium, dropped>>

Copy ==
  /\ \/ At("Copy") /\ buffer' = page /\ UNCHANGED page
     \/ At("Fill") /\ page' = buffer /\ UNCHANGED buffer
  /\ Next1
  /\ UNCHANGED <<call, motorEnabled, currentTrack, retryCounter, partitions, status, state, raised,
                 dma, fdc, drive, medium, late, dropped>>

\* RegisterPartition for the whole device, and the read of its first sector.
RegisterDevice ==
  /\ At("RegisterDevice") /\ Next1
  /\ partitions' = {[offset |-> 0, count |-> Total]}
  /\ call' = [op |-> "Read", lba |-> 0, ok |-> TRUE]
  /\ UNCHANGED <<buffer, motorEnabled, currentTrack, retryCounter, status, page, state, raised,
                 dma, fdc, drive, medium, late, dropped>>

\* Whether the read has failed is not asked: then the table is whatever the stack held.
ScanMBR ==
  /\ At("ScanMBR") /\ Next1
  /\ \E value \in IF call.ok THEN {buffer} ELSE Values :
       partitions' = partitions \cup {p \in Tables[value] : p.offset < Total /\ p.count < Total}
  /\ call' = NoCall
  /\ UNCHANGED <<buffer, motorEnabled, currentTrack, retryCounter, status, page, state,
                 raised, dma, fdc, drive, medium, late, dropped>>

Return ==
  /\ At("Return") /\ Next1
  /\ call' = IF todo' = <<>> THEN NoCall ELSE call
  /\ UNCHANGED <<buffer, motorEnabled, currentTrack, retryCounter, partitions, status, page,
                 state, raised, dma, fdc, drive, medium, late, dropped>>

-----------------------------------------------------------------------------
\* The calls.  After one in which the controller was late no other is followed.

Idle == todo = <<>> /\ status = "ready" /\ state # "Waiting" /\ ~late

\* BlockPartition::Read and Write.
Begin(op, p, lba) ==
  /\ Idle
  /\ IF lba >= p.count THEN status' = "stopped" /\ UNCHANGED <<todo, call, buffer>>
     ELSE /\ call' = [op |-> op, lba |-> p.offset + lba, ok |-> TRUE]
          /\ todo' = Steps(op)
          /\ buffer' \in IF op = "Write" THEN Values ELSE {buffer}
          /\ UNCHANGED status
  /\ UNCHANGED <<motorEnabled, currentTrack, retryCounter, partitions, page, state, raised, dma,
                 fdc, drive, medium, late, dropped>>

Lock ==
  /\ Idle /\ motorEnabled < MaxLocks
  /\ todo' = <<"MotorOn">>
  /\ UNCHANGED <<call, buffer, motorEnabled, currentTrack, retryCounter, partitions, status, page,
                 state, raised, dma, fdc, drive, medium, late, dropped>>

Unlock ==
  /\ Idle /\ motorEnabled > 0
  /\ todo' = <<"MotorOff">>
  /\ UNCHANGED <<call, buffer, motorEnabled, currentTrack, retryCounter, partitions, status, page,
                 state, raised, dma, fdc, drive, medium, late, dropped>>

-----------------------------------------------------------------------------
\* The interrupt handler: irqSignal.Raise.
ISR ==
  /\ fdc.irq
  /\ fdc' = [fdc EXCEPT !.irq = FALSE]
  /\ IF state = "Waiting" THEN state' = "Running" /\ raised' = FALSE
     ELSE raised' = TRUE /\ UNCHANGED state
  /\ UNCHANGED <<driver, page, dma, drive, medium, late, dropped>>

\* The controller, out of its reset or at the end of a seek.
ResetDone ==
  /\ fdc.phase = "reset"
  /\ fdc' = [fdc EXCEPT !.phase = "idle", !.irq = TRUE]
  /\ UNCHANGED <<driver, page, state, raised, dma, drive, medium, late, dropped>>

SeekDone ==
  /\ fdc.phase = "busy" /\ fdc.command[1] = "Seek"
  /\ \E ok \in BOOLEAN : fdc' = [phase |-> "sense", irq |-> TRUE, ok |-> ok, command |-> <<>>]
  /\ drive' = [drive EXCEPT !.track = fdc.command[2]]
  /\ UNCHANGED <<driver, page, state, raised, dma, medium, late, dropped>>

Prepared ==
  /\ drive.motor /\ drive.track = fdc.command[2]
  /\ ~dma.masked /\ dma.dir = fdc.command[1] /\ dma.address = DmaPhys

\* Any transfer may fail, and one that is not prepared does; a read that fails
\* may have changed the page.
TransferDone ==
  /\ fdc.phase = "busy" /\ fdc.command[1] # "Seek"
  /\ LET place == Tail(fdc.command)
     IN \/ /\ Prepared /\ place \in Places
           /\ fdc' = [phase |-> "result", irq |-> TRUE, ok |-> TRUE, command |-> <<>>]
           /\ IF fdc.command[1] = "Read" THEN page' = medium[place] /\ UNCHANGED medium
              ELSE medium' = [medium EXCEPT ![place] = page] /\ UNCHANGED page
        \/ /\ fdc' = [phase |-> "result", irq |-> TRUE, ok |-> FALSE, command |-> <<>>]
           /\ page' \in IF fdc.command[1] = "Read" THEN Values ELSE {page}
           /\ UNCHANGED medium
  /\ dma' = [dma EXCEPT !.masked = TRUE]
  /\ UNCHANGED <<driver, state, raised, drive, late, dropped>>

FloppyInit ==
  /\ todo = Init /\ call = NoCall
  /\ buffer \in Values /\ page \in Values
  /\ motorEnabled = 0 /\ currentTrack = 0
  /\ retryCounter = [op \in {"Read", "Write"} |-> 0]
  /\ state = "Running" /\ raised = FALSE
  /\ dma = [address |-> 0, dir |-> "none", masked |-> TRUE]
  /\ partitions = {} /\ status = "ready"
  /\ fdc = [phase |-> "idle", command |-> <<>>, ok |-> TRUE, irq |-> FALSE]
  /\ drive \in [motor : BOOLEAN, track : 0..(Cylinders - 1)]
  /\ medium \in Media
  /\ late = FALSE /\ dropped = FALSE

DriverStep ==
  \/ MotorOn \/ MotorOff \/ ResetOff \/ ResetOn \/ Arm \/ WaitIRQ \/ Plain \/ Seek \/ Command
  \/ SeekResult \/ StartDMA \/ Result \/ Copy \/ RegisterDevice \/ ScanMBR \/ Return
DriveStep == ISR \/ ResetDone \/ SeekDone \/ TransferDone

FloppyNext ==
  \/ DriverStep
  \/ DriveStep
  \/ \E op \in {"Read", "Write"}, p \in partitions, lba \in 0..Total : Begin(op, p, lba)
  \/ Lock
  \/ Unlock

\* The thread is scheduled, and the drive answers.
FloppySpec == FloppyInit /\ [][FloppyNext]_floppyVars
              /\ WF_floppyVars(DriverStep) /\ WF_floppyVars(DriveStep)

-----------------------------------------------------------------------------
\* The types of the variables.  The counter of the motor is one more than the
\* locks while a call uses the drive, whatever fails.
FloppyTypeOK ==
  /\ motorEnabled \in 0..(MaxLocks + 1)
  /\ todo = <<>> => motorEnabled \in 0..MaxLocks
  /\ currentTrack \in 0..255
  /\ retryCounter \in [{"Read", "Write"} -> 0..(MaxRetries + 1)]
  /\ state \in {"Running", "Unstoppable", "Waiting"}
  /\ {raised, late, dropped} \subseteq BOOLEAN
  /\ buffer \in Values /\ page \in Values
  /\ medium \in [Places -> Values]
  /\ status \in {"ready", "stopped"}

\* While the drive transfers, its motor turns, its head stands at the track of
\* the sector and the DMA controller is programmed for the page and in the right
\* direction: unless the controller did not listen in time, or a reset has
\* turned the motor off under a lock.
CommandPrepared ==
  fdc.phase = "busy" /\ fdc.command[1] # "Seek" /\ ~late /\ ~dropped => Prepared

\* A call that returns success has transferred its sector: what was read, or
\* written, is what the medium holds there.
TransferRight ==
  todo # <<>> /\ Head(todo) = "Return" /\ call.ok /\ ~late =>
    \E place \in Places :
      /\ medium[place] = buffer
      /\ call.lba = (place[1] * Heads + place[2]) * Sectors + place[3] - 1

\* Every call ends, if the controller was never late: no interrupt is missed
\* between a command and the wait for it.
CallEnds == (todo # <<>>) ~> (todo = <<>> \/ status = "stopped" \/ late)
=============================================================================
