----------------------------- MODULE FloppyProofs -----------------------------
(***************************************************************************)
(* Proofs about the floppy driver (module Floppy), for disks of any size,  *)
(* any contents and any tables of partitions, as far as FloppyAssumption   *)
(* goes.                                                                   *)
(***************************************************************************)
EXTENDS Floppy, SequenceTheorems, TLAPS

\* What is left of a sequence of steps p from its step r on, and then of e.
Rest(p, r, e) == SubSeq(p, r, Len(p)) \o e

Calibration == <<"MotorOn">> \o Armed("Recalibrate")
               \o <<"SeekResult", "MotorOff", "Lock", "RegisterDevice">>
SeekSteps == Armed("SeekTo") \o <<"SeekResult">>
FailSteps == <<"MotorOff">> \o Reset

\* What follows a transfer: of a Read, of Init's Read and of a Write.
CopyEnds == {<<"Copy", "Return">>, <<"Copy", "Return", "ScanMBR">>}
ReturnEnds == {<<"Return">>, <<"Return", "ScanMBR">>}
TransferEnds == CopyEnds \cup {<<"Return">>}

FirstRead == Rest(Transfer, 1, <<"Copy", "Return", "ScanMBR">>)

-----------------------------------------------------------------------------
\* No command is under way.
Quiet == ~late => fdc.phase # "busy"

\* The driver knows where the head is.
TrackKnown == ~late /\ status = "ready" => drive.track = currentTrack

\* The locks that are held; the call that is on has the motor on, too.
Locks == motorEnabled \in 0..MaxLocks
CallLocks == motorEnabled \in 1..(MaxLocks + 1)

Target == CHS(call.lba)

SeekUnderWay(track) ==
  \/ fdc.phase = "busy" /\ fdc.command = <<"Seek", track>>
  \/ fdc.phase = "sense" /\ drive.track = track

Programmed == ~dma.masked /\ dma.dir = call.op /\ dma.address = DmaPhys

\* The page has what the medium holds at the sector of the call.
Moved == Target \in Places /\ medium[Target] = page

TransferUnderWay ==
  \/ fdc.phase = "busy" /\ fdc.command = <<call.op>> \o Target /\ Programmed
  \/ fdc.phase = "result" /\ (fdc.ok => Moved)

\* What the step r of Transfer finds.
TransferAt(r) ==
  /\ r \in 3..7 => currentTrack = Target[1]
  /\ r \in 4..5 => Programmed
  /\ r \in 6..7 => TransferUnderWay
  /\ r = 8 => Moved
  /\ call.op = "Write" => page = buffer

\* Where the driver is.
StartingAt(r) ==
  /\ todo = Rest(Reset, r, Rest(Calibration, 1, FirstRead))
  /\ Locks /\ call.op = "Init" /\ currentTrack = 0 /\ status = "ready" /\ Quiet

CalibratingAt(r) ==
  /\ todo = Rest(Calibration, r, FirstRead)
  /\ IF r \in 2..6 THEN CallLocks ELSE Locks
  /\ call.op = "Init" /\ currentTrack = 0
  /\ r # 6 => status = "ready"
  /\ IF r \in 4..5 THEN ~late => SeekUnderWay(0) ELSE Quiet
  /\ r >= 6 => TrackKnown

TransferringAt(r, e) ==
  /\ todo = Rest(Transfer, r, e)
  /\ IF r = 1 THEN Locks ELSE CallLocks
  /\ call.op = IF e = <<"Return">> THEN "Write" ELSE "Read"
  /\ r # 3 => status = "ready"
  /\ r \notin 6..7 => Quiet
  /\ ~late /\ status = "ready" => drive.track = currentTrack /\ TransferAt(r)

SeekingAt(r, e) ==
  /\ todo = Rest(SeekSteps, r, Rest(Transfer, 3, e))
  /\ CallLocks
  /\ call.op = IF e = <<"Return">> THEN "Write" ELSE "Read"
  /\ status = "ready"
  /\ IF r \in 3..4 THEN ~late => SeekUnderWay(Target[1]) ELSE Quiet
  /\ ~late /\ call.op = "Write" => page = buffer

FailingAt(r, e) ==
  /\ todo = Rest(FailSteps, r, e)
  /\ IF r = 1 THEN CallLocks ELSE Locks
  /\ ~call.ok /\ Quiet /\ TrackKnown

Starting == \E r \in 1..6 : StartingAt(r)
Calibrating == \E r \in 1..8 : CalibratingAt(r)
Transferring == \E r \in 1..8, e \in TransferEnds : TransferringAt(r, e)
Seeking == \E r \in 1..4, e \in TransferEnds : SeekingAt(r, e)
Failing == \E r \in 1..7, e \in ReturnEnds : FailingAt(r, e)

Filling ==
  /\ todo = <<"Fill">> \o Rest(Transfer, 1, <<"Return">>)
  /\ Locks /\ call.op = "Write" /\ status = "ready" /\ Quiet /\ TrackKnown

Copying ==
  /\ todo \in CopyEnds
  /\ Locks /\ call.op = "Read" /\ status = "ready" /\ Quiet /\ TrackKnown
  /\ ~late => Moved

Returning ==
  /\ todo \in ReturnEnds
  /\ Locks /\ Quiet /\ TrackKnown
  /\ ~late /\ call.ok => Target \in Places /\ medium[Target] = buffer

Between ==
  /\ todo \in {<<>>, <<"ScanMBR">>, <<"MotorOn">>, <<"MotorOff">>}
  /\ Locks /\ Quiet /\ TrackKnown
  /\ todo = <<"MotorOn">> => motorEnabled < MaxLocks
  /\ todo = <<"MotorOff">> => motorEnabled > 0

Calls == [op: {"Init", "Read", "Write"}, lba: 0..(2 * Total - 1), ok: BOOLEAN]
Commands == {<<"Seek", track>> : track \in 0..255}
            \cup {"Init", "Read", "Write"} \X (0..255) \X (0..1) \X (1..Sectors)

DataTypes ==
  /\ call \in Calls
  /\ buffer \in Values /\ page \in Values /\ medium \in [Places -> Values]
  /\ currentTrack \in 0..255
  /\ retryCounter \in [{"Read", "Write"} -> 0..(MaxRetries + 1)]
  /\ status \in {"ready", "stopped"}
  /\ status = "ready" => \A op \in {"Read", "Write"} : retryCounter[op] <= MaxRetries
  /\ partitions \subseteq Ranges
  /\ \A p \in partitions : p.offset < Total /\ p.count <= Total

FlagTypes ==
  /\ state \in {"Running", "Unstoppable", "Waiting"}
  /\ raised \in BOOLEAN /\ late \in BOOLEAN /\ dropped \in BOOLEAN

DeviceTypes ==
  /\ dma \in [address: Nat, dir: {"none", "Init", "Read", "Write"}, masked: BOOLEAN]
  /\ fdc \in [phase: {"idle", "off", "reset", "busy", "sense", "result"},
              command: {<<>>} \cup Commands, ok: BOOLEAN, irq: BOOLEAN]
  /\ fdc.phase = "busy" => fdc.command \in Commands
  /\ drive \in [motor: BOOLEAN, track: 0..255]

\* Only a reset turns the motor off under a lock.
MotorTurns == motorEnabled > 0 /\ ~dropped => drive.motor

Types == DataTypes /\ FlagTypes /\ DeviceTypes /\ MotorTurns

Phases == Starting \/ Calibrating \/ Transferring \/ Seeking \/ Filling \/ Copying \/ Failing
          \/ Returning \/ Between

\* The inductive invariant.
FloppyInv == Types /\ Phases

-----------------------------------------------------------------------------
(* What is left to do.                                                     *)

LEMMA Pushed ==
  ASSUME NEW S, NEW x \in S, NEW s \in Seq(S)
  PROVE  /\ <<x>> \o s \in Seq(S) /\ <<x>> \o s # <<>>
         /\ Head(<<x>> \o s) = x /\ Tail(<<x>> \o s) = s
<1> DEFINE r == <<x>> \o s
           h == <<x>>
<1>1. h \in Seq(S) /\ Len(h) = 1 /\ h[1] = x /\ Len(s) \in Nat
  BY LenProperties
<1>2. /\ r \in Seq(S) /\ Len(r) = Len(h) + Len(s)
      /\ \A i \in 1..Len(h) + Len(s) : r[i] = IF i <= Len(h) THEN h[i] ELSE s[i - Len(h)]
  BY <1>1, ConcatProperties
<1> HIDE DEF r, h
<1>3. r # <<>> /\ Head(r) = x
  BY <1>1, <1>2
<1>4. /\ Tail(r) \in Seq(S) /\ Len(Tail(r)) = Len(s)
      /\ \A i \in 1..Len(Tail(r)) : Tail(r)[i] = r[i + 1]
  BY <1>1, <1>2, <1>3, HeadTailProperties
<1>5. \A i \in 1..Len(s) : Tail(r)[i] = s[i]
  BY <1>1, <1>2, <1>4
<1>6. Tail(r) = s
  BY <1>4, <1>5, SeqEqual
<1>7. QED
  BY <1>2, <1>3, <1>6 DEF r, h

LEMMA Associates ==
  ASSUME NEW S, NEW x \in Seq(S), NEW y \in Seq(S), NEW z \in Seq(S), NEW q, q = x \o y
  PROVE  q \o z = x \o (y \o z)
BY ConcatAssociative

StepNames ==
  {"ResetOff", "Arm", "ResetOn", "WaitIRQ", "Sense", "Specify", "MotorOn", "Recalibrate",
   "SeekResult", "MotorOff", "Lock", "RegisterDevice", "Seek", "StartDMA", "Transfer", "Result",
   "SeekTo", "Copy", "Fill", "Return", "ScanMBR"}

Programs == Seq(StepNames)

\* What is left of a part p of n steps goes one step at a time.
Walks(p, n, e) ==
  /\ \A r \in 1..n : /\ Rest(p, r, e) \in Programs /\ Rest(p, r, e) # <<>>
                     /\ Head(Rest(p, r, e)) = p[r]
                     /\ Tail(Rest(p, r, e)) = Rest(p, r + 1, e)
  /\ Rest(p, n + 1, e) = e
  /\ Rest(p, 1, e) = p \o e

LEMMA PartWalks ==
  ASSUME NEW p \in Programs, NEW e \in Programs
  PROVE  Walks(p, Len(p), e)
<1> DEFINE S == StepNames
<1>0. p \in Seq(S) /\ e \in Seq(S)
  BY DEF Programs
<1> HIDE DEF S
<1>1. Len(p) \in Nat /\ SubSeq(p, 1, Len(p)) = p
  BY <1>0, LenProperties, SubSeqFull
<1>2. Rest(p, Len(p) + 1, e) = e
  BY <1>0, <1>1, SubSeqEmpty, ConcatEmptySeq DEF Rest
<1>3. ASSUME NEW r \in 1..Len(p)
      PROVE  /\ Rest(p, r, e) \in Seq(S) /\ Rest(p, r, e) # <<>>
             /\ Head(Rest(p, r, e)) = p[r]
             /\ Tail(Rest(p, r, e)) = Rest(p, r + 1, e)
  <2> DEFINE t == SubSeq(p, r + 1, Len(p))
  <2>1. p[r] \in S /\ Len(p) \in r..Len(p) /\ \A i \in (r + 1)..Len(p) : p[i] \in S
    BY <1>0, <1>1, ElementOfSeq
  <2>2. t \in Seq(S)
    BY <1>0, <1>1, <2>1, SubSeqProperties
  <2>3. SubSeq(p, r, Len(p)) = <<p[r]>> \o t
    BY <1>0, <2>1, SubSeqRecursiveFirst
  <2> DEFINE h == <<p[r]>>
             u == t \o e
  <2>4. h \in Seq(S) /\ u \in Seq(S) /\ u = Rest(p, r + 1, e)
    BY <1>0, <2>1, <2>2, ConcatProperties DEF Rest
  <2>5. Rest(p, r, e) = h \o u
    <3> DEFINE q == SubSeq(p, r, Len(p))
    <3>1. q = h \o t /\ h \in Seq(S) /\ t \in Seq(S) /\ e \in Seq(S)
      BY <1>0, <2>2, <2>3, <2>4
    <3> HIDE DEF h, t, q
    <3>2. q \o e = h \o (t \o e)
      BY ONLY <3>1, Associates
    <3>3. QED
      BY <3>2 DEF q, Rest
  <2> HIDE DEF u
  <2>6. /\ h \o u \in Seq(S) /\ h \o u # <<>>
        /\ Head(h \o u) = p[r] /\ Tail(h \o u) = u
    BY <2>1, <2>4, Pushed
  <2>7. QED
    BY <2>4, <2>5, <2>6
<1>4. QED
  BY <1>1, <1>2, <1>3 DEF Rest, Walks, Programs, S

LEMMA Joined ==
  ASSUME NEW S, NEW x \in Seq(S), NEW y \in Seq(S), NEW z \in Seq(S),
         Len(z) = Len(x) + Len(y),
         \A i \in 1..Len(x) : z[i] = x[i], \A i \in 1..Len(y) : z[Len(x) + i] = y[i]
  PROVE  x \o y = z
<1> DEFINE w == x \o y
<1>1. /\ w \in Seq(S) /\ Len(w) = Len(x) + Len(y) /\ Len(x) \in Nat /\ Len(y) \in Nat
      /\ \A i \in 1..Len(x) + Len(y) : w[i] = IF i <= Len(x) THEN x[i] ELSE y[i - Len(x)]
  BY ConcatProperties, LenProperties
<1> HIDE DEF w
<1>2. ASSUME NEW i \in 1..Len(z) PROVE w[i] = z[i]
  <2>1. CASE i <= Len(x)
    BY <1>1, <2>1
  <2>2. CASE ~(i <= Len(x))
    <3>1. i - Len(x) \in 1..Len(y) /\ Len(x) + (i - Len(x)) = i
      BY <1>1, <2>2
    <3>2. QED
      BY <1>1, <2>2, <3>1
  <2>3. QED
    BY <2>1, <2>2
<1>3. w = z
  BY <1>1, <1>2, SeqEqual
<1>4. QED
  BY <1>3 DEF w

LEMMA Join11 ==
  ASSUME NEW a, NEW b
  PROVE  <<a>> \o <<b>> = <<a, b>>
<1> DEFINE S == {a, b}
           x == <<a>>
           y == <<b>>
           z == <<a, b>>
<1>1. /\ x \in Seq(S) /\ Len(x) = 1 /\ y \in Seq(S) /\ Len(y) = 1
      /\ z \in Seq(S) /\ Len(z) = Len(x) + Len(y)
      /\ \A i \in 1..1 : z[i] = x[i]
      /\ \A i \in 1..1 : z[1 + i] = y[i]
  OBVIOUS
<1> HIDE DEF S, x, y, z
<1>2. \A i \in 1..Len(x) : z[i] = x[i]
  BY <1>1
<1>3. \A i \in 1..Len(y) : z[Len(x) + i] = y[i]
  BY <1>1
<1>4. x \o y = z
  BY <1>1, <1>2, <1>3, Joined
<1>5. QED
  BY <1>4 DEF x, y, z

LEMMA Join21 ==
  ASSUME NEW a, NEW b, NEW c
  PROVE  <<a, b>> \o <<c>> = <<a, b, c>>
<1> DEFINE S == {a, b, c}
           x == <<a, b>>
           y == <<c>>
           z == <<a, b, c>>
<1>1. /\ x \in Seq(S) /\ Len(x) = 2 /\ y \in Seq(S) /\ Len(y) = 1
      /\ z \in Seq(S) /\ Len(z) = Len(x) + Len(y)
      /\ \A i \in 1..2 : z[i] = x[i]
      /\ \A i \in 1..1 : z[2 + i] = y[i]
  OBVIOUS
<1> HIDE DEF S, x, y, z
<1>2. \A i \in 1..Len(x) : z[i] = x[i]
  BY <1>1
<1>3. \A i \in 1..Len(y) : z[Len(x) + i] = y[i]
  BY <1>1
<1>4. x \o y = z
  BY <1>1, <1>2, <1>3, Joined
<1>5. QED
  BY <1>4 DEF x, y, z

LEMMA Join13 ==
  ASSUME NEW a, NEW b, NEW c, NEW d
  PROVE  <<a>> \o <<b, c, d>> = <<a, b, c, d>>
<1> DEFINE S == {a, b, c, d}
           x == <<a>>
           y == <<b, c, d>>
           z == <<a, b, c, d>>
<1>1. /\ x \in Seq(S) /\ Len(x) = 1 /\ y \in Seq(S) /\ Len(y) = 3
      /\ z \in Seq(S) /\ Len(z) = Len(x) + Len(y)
      /\ \A i \in 1..1 : z[i] = x[i]
      /\ \A i \in 1..3 : z[1 + i] = y[i]
  OBVIOUS
<1> HIDE DEF S, x, y, z
<1>2. \A i \in 1..Len(x) : z[i] = x[i]
  BY <1>1
<1>3. \A i \in 1..Len(y) : z[Len(x) + i] = y[i]
  BY <1>1
<1>4. x \o y = z
  BY <1>1, <1>2, <1>3, Joined
<1>5. QED
  BY <1>4 DEF x, y, z

LEMMA Join16 ==
  ASSUME NEW a, NEW b, NEW c, NEW d, NEW e, NEW f, NEW g
  PROVE  <<a>> \o <<b, c, d, e, f, g>> = <<a, b, c, d, e, f, g>>
<1> DEFINE S == {a, b, c, d, e, f, g}
           x == <<a>>
           y == <<b, c, d, e, f, g>>
           z == <<a, b, c, d, e, f, g>>
<1>1. /\ x \in Seq(S) /\ Len(x) = 1 /\ y \in Seq(S) /\ Len(y) = 6
      /\ z \in Seq(S) /\ Len(z) = Len(x) + Len(y)
      /\ \A i \in 1..1 : z[i] = x[i]
      /\ \A i \in 1..6 : z[1 + i] = y[i]
  OBVIOUS
<1> HIDE DEF S, x, y, z
<1>2. \A i \in 1..Len(x) : z[i] = x[i]
  BY <1>1
<1>3. \A i \in 1..Len(y) : z[Len(x) + i] = y[i]
  BY <1>1
<1>4. x \o y = z
  BY <1>1, <1>2, <1>3, Joined
<1>5. QED
  BY <1>4 DEF x, y, z

LEMMA Join31 ==
  ASSUME NEW a, NEW b, NEW c, NEW d
  PROVE  <<a, b, c>> \o <<d>> = <<a, b, c, d>>
<1> DEFINE S == {a, b, c, d}
           x == <<a, b, c>>
           y == <<d>>
           z == <<a, b, c, d>>
<1>1. /\ x \in Seq(S) /\ Len(x) = 3 /\ y \in Seq(S) /\ Len(y) = 1
      /\ z \in Seq(S) /\ Len(z) = Len(x) + Len(y)
      /\ \A i \in 1..3 : z[i] = x[i]
      /\ \A i \in 1..1 : z[3 + i] = y[i]
  OBVIOUS
<1> HIDE DEF S, x, y, z
<1>2. \A i \in 1..Len(x) : z[i] = x[i]
  BY <1>1
<1>3. \A i \in 1..Len(y) : z[Len(x) + i] = y[i]
  BY <1>1
<1>4. x \o y = z
  BY <1>1, <1>2, <1>3, Joined
<1>5. QED
  BY <1>4 DEF x, y, z

LEMMA Join33 ==
  ASSUME NEW a, NEW b, NEW c, NEW d, NEW e, NEW f
  PROVE  <<a, b, c>> \o <<d, e, f>> = <<a, b, c, d, e, f>>
<1> DEFINE S == {a, b, c, d, e, f}
           x == <<a, b, c>>
           y == <<d, e, f>>
           z == <<a, b, c, d, e, f>>
<1>1. /\ x \in Seq(S) /\ Len(x) = 3 /\ y \in Seq(S) /\ Len(y) = 3
      /\ z \in Seq(S) /\ Len(z) = Len(x) + Len(y)
      /\ \A i \in 1..3 : z[i] = x[i]
      /\ \A i \in 1..3 : z[3 + i] = y[i]
  OBVIOUS
<1> HIDE DEF S, x, y, z
<1>2. \A i \in 1..Len(x) : z[i] = x[i]
  BY <1>1
<1>3. \A i \in 1..Len(y) : z[Len(x) + i] = y[i]
  BY <1>1
<1>4. x \o y = z
  BY <1>1, <1>2, <1>3, Joined
<1>5. QED
  BY <1>4 DEF x, y, z

LEMMA Join44 ==
  ASSUME NEW a, NEW b, NEW c, NEW d, NEW e, NEW f, NEW g, NEW h
  PROVE  <<a, b, c, d>> \o <<e, f, g, h>> = <<a, b, c, d, e, f, g, h>>
<1> DEFINE S == {a, b, c, d, e, f, g, h}
           x == <<a, b, c, d>>
           y == <<e, f, g, h>>
           z == <<a, b, c, d, e, f, g, h>>
<1>1. /\ x \in Seq(S) /\ Len(x) = 4 /\ y \in Seq(S) /\ Len(y) = 4
      /\ z \in Seq(S) /\ Len(z) = Len(x) + Len(y)
      /\ \A i \in 1..4 : z[i] = x[i]
      /\ \A i \in 1..4 : z[4 + i] = y[i]
  OBVIOUS
<1> HIDE DEF S, x, y, z
<1>2. \A i \in 1..Len(x) : z[i] = x[i]
  BY <1>1
<1>3. \A i \in 1..Len(y) : z[Len(x) + i] = y[i]
  BY <1>1
<1>4. x \o y = z
  BY <1>1, <1>2, <1>3, Joined
<1>5. QED
  BY <1>4 DEF x, y, z

LEMMA Join62 ==
  ASSUME NEW a, NEW b, NEW c, NEW d, NEW e, NEW f, NEW g, NEW h
  PROVE  <<a, b, c, d, e, f>> \o <<g, h>> = <<a, b, c, d, e, f, g, h>>
<1> DEFINE S == {a, b, c, d, e, f, g, h}
           x == <<a, b, c, d, e, f>>
           y == <<g, h>>
           z == <<a, b, c, d, e, f, g, h>>
<1>1. /\ x \in Seq(S) /\ Len(x) = 6 /\ y \in Seq(S) /\ Len(y) = 2
      /\ z \in Seq(S) /\ Len(z) = Len(x) + Len(y)
      /\ \A i \in 1..6 : z[i] = x[i]
      /\ \A i \in 1..2 : z[6 + i] = y[i]
  OBVIOUS
<1> HIDE DEF S, x, y, z
<1>2. \A i \in 1..Len(x) : z[i] = x[i]
  BY <1>1
<1>3. \A i \in 1..Len(y) : z[Len(x) + i] = y[i]
  BY <1>1
<1>4. x \o y = z
  BY <1>1, <1>2, <1>3, Joined
<1>5. QED
  BY <1>4 DEF x, y, z

LEMMA StepsOfParts ==
  /\ Reset = <<"ResetOff", "Arm", "ResetOn", "WaitIRQ", "Sense", "Specify">>
  /\ Calibration = <<"MotorOn", "Arm", "Recalibrate", "WaitIRQ", "SeekResult", "MotorOff", "Lock",
                     "RegisterDevice">>
  /\ Transfer = <<"MotorOn", "Seek", "StartDMA", "Arm", "Transfer", "WaitIRQ", "Result", "MotorOff">>
  /\ SeekSteps = <<"Arm", "SeekTo", "WaitIRQ", "SeekResult">>
  /\ FailSteps = <<"MotorOff", "ResetOff", "Arm", "ResetOn", "WaitIRQ", "Sense", "Specify">>
<1>1. Calibration = <<"MotorOn", "Arm", "Recalibrate", "WaitIRQ", "SeekResult", "MotorOff", "Lock",
                      "RegisterDevice">>
  <2>1. <<"MotorOn">> \o <<"Arm", "Recalibrate", "WaitIRQ">>
          = <<"MotorOn", "Arm", "Recalibrate", "WaitIRQ">>
    BY Join13
  <2>2. <<"MotorOn", "Arm", "Recalibrate", "WaitIRQ">>
            \o <<"SeekResult", "MotorOff", "Lock", "RegisterDevice">>
          = <<"MotorOn", "Arm", "Recalibrate", "WaitIRQ", "SeekResult", "MotorOff", "Lock",
              "RegisterDevice">>
    BY Join44
  <2>3. QED
    BY <2>1, <2>2 DEF Calibration, Armed
<1>2. Transfer = <<"MotorOn", "Seek", "StartDMA", "Arm", "Transfer", "WaitIRQ", "Result", "MotorOff">>
  <2>1. <<"MotorOn", "Seek", "StartDMA">> \o <<"Arm", "Transfer", "WaitIRQ">>
          = <<"MotorOn", "Seek", "StartDMA", "Arm", "Transfer", "WaitIRQ">>
    BY Join33
  <2>2. <<"MotorOn", "Seek", "StartDMA", "Arm", "Transfer", "WaitIRQ">> \o <<"Result", "MotorOff">>
          = <<"MotorOn", "Seek", "StartDMA", "Arm", "Transfer", "WaitIRQ", "Result", "MotorOff">>
    BY Join62
  <2>3. QED
    BY <2>1, <2>2 DEF Transfer, Armed
<1>3. SeekSteps = <<"Arm", "SeekTo", "WaitIRQ", "SeekResult">>
  BY Join31 DEF SeekSteps, Armed
<1>4. FailSteps = <<"MotorOff", "ResetOff", "Arm", "ResetOn", "WaitIRQ", "Sense", "Specify">>
  BY Join16 DEF FailSteps, Reset
<1>5. QED
  BY <1>1, <1>2, <1>3, <1>4 DEF Reset
LEMMA Parts ==
  /\ Reset \in Programs /\ Len(Reset) = 6
  /\ Calibration \in Programs /\ Len(Calibration) = 8
  /\ Transfer \in Programs /\ Len(Transfer) = 8
  /\ SeekSteps \in Programs /\ Len(SeekSteps) = 4
  /\ FailSteps \in Programs /\ Len(FailSteps) = 7
BY StepsOfParts DEF StepNames, Programs

LEMMA Ends ==
  /\ \A e \in CopyEnds \cup ReturnEnds : e \in Programs /\ e # <<>>
  /\ \A e \in CopyEnds : Head(e) = "Copy" /\ Tail(e) \in ReturnEnds
  /\ \A e \in ReturnEnds : Head(e) = "Return" /\ Tail(e) \in {<<>>, <<"ScanMBR">>}
  /\ TransferEnds \subseteq CopyEnds \cup ReturnEnds
<1>1. /\ <<"Copy", "Return">> \in Programs /\ <<"Copy", "Return", "ScanMBR">> \in Programs
      /\ <<"Return">> \in Programs /\ <<"Return", "ScanMBR">> \in Programs
  BY DEF StepNames, Programs
<1>2. QED
  BY <1>1 DEF CopyEnds, ReturnEnds, TransferEnds

\* The first step of what is left of a part, and what comes after it.
LEMMA NextOfPart ==
  ASSUME NEW e \in Programs
  PROVE  /\ Walks(Reset, 6, e) /\ Walks(Calibration, 8, e) /\ Walks(Transfer, 8, e)
         /\ Walks(SeekSteps, 4, e) /\ Walks(FailSteps, 7, e)
<1>1. Walks(Reset, 6, e)
  BY Parts, PartWalks
<1>2. Walks(Calibration, 8, e)
  BY Parts, PartWalks
<1>3. Walks(Transfer, 8, e)
  BY Parts, PartWalks
<1>4. Walks(SeekSteps, 4, e)
  BY Parts, PartWalks
<1>5. Walks(FailSteps, 7, e)
  BY Parts, PartWalks
<1>6. QED
  BY <1>1, <1>2, <1>3, <1>4, <1>5

Cat(x, y) == x \o y

LEMMA Grouping ==
  ASSUME NEW x \in Programs, NEW y \in Programs, NEW z \in Programs
  PROVE  Cat(x, y) \in Programs /\ Cat(Cat(x, y), z) = Cat(x, Cat(y, z))
<1> DEFINE S == StepNames
           q == x \o y
<1>1. x \in Seq(S) /\ y \in Seq(S) /\ z \in Seq(S) /\ q = x \o y /\ q \in Seq(S)
  BY ConcatProperties DEF Programs
<1> HIDE DEF S, q
<1>2. q \o z = x \o (y \o z)
  BY ONLY <1>1, Associates
<1>3. QED
  BY <1>1, <1>2 DEF S, q, Cat, Programs

LEMMA WholePrograms ==
  /\ Init = Rest(Reset, 1, Rest(Calibration, 1, FirstRead))
  /\ Steps("Read") = Rest(Transfer, 1, <<"Copy", "Return">>)
  /\ Steps("Write") = <<"Fill">> \o Rest(Transfer, 1, <<"Return">>)
  /\ FirstRead \in Programs /\ Rest(Calibration, 1, FirstRead) \in Programs
<1> DEFINE c == <<"Copy", "Return">>
           x == <<"Copy", "Return", "ScanMBR">>
           d == <<"Return">>
           k == <<"ScanMBR">>
           f == <<"Fill">>
           m == <<"MotorOn">>
           a == Armed("Recalibrate")
           b == <<"SeekResult", "MotorOff", "Lock", "RegisterDevice">>
<1>1. /\ c \in Programs /\ x \in Programs /\ d \in Programs /\ k \in Programs /\ f \in Programs
      /\ m \in Programs /\ a \in Programs /\ b \in Programs /\ Cat(c, k) = x
  BY Join21 DEF StepNames, Programs, Armed, Cat
<1>2. /\ Steps("Read") = Cat(Transfer, c) /\ Steps("Write") = Cat(Cat(f, Transfer), d)
      /\ Calibration = Cat(Cat(m, a), b)
      /\ FirstRead = Rest(Transfer, 1, x)
  BY DEF Steps, Calibration, FirstRead, Cat
<1>3. Init = Cat(Cat(Cat(Cat(Cat(Reset, m), a), b), Steps("Read")), k)
  BY DEF Init, Cat
<1> HIDE DEF c, x, d, k, f, m, a, b
<1>4. /\ Rest(Transfer, 1, c) = Cat(Transfer, c) /\ Rest(Transfer, 1, d) = Cat(Transfer, d)
      /\ Rest(Transfer, 1, x) = Cat(Transfer, x) /\ Cat(Transfer, x) \in Programs
  BY <1>1, Parts, NextOfPart, Grouping DEF Walks, Cat
<1>5. /\ Rest(Calibration, 1, FirstRead) = Cat(Calibration, FirstRead)
      /\ Cat(Calibration, FirstRead) \in Programs
  <2>1. FirstRead \in Programs /\ Calibration \in Programs
    BY <1>2, <1>4, Parts
  <2>2. Rest(Calibration, 1, FirstRead) = Cat(Calibration, FirstRead)
    BY <2>1, NextOfPart DEF Walks, Cat
  <2>3. QED
    BY <2>1, <2>2, Grouping
<1>6. Rest(Reset, 1, Rest(Calibration, 1, FirstRead)) = Cat(Reset, Cat(Calibration, FirstRead))
  BY <1>5, NextOfPart DEF Walks, Cat
<1>7. Cat(Cat(f, Transfer), d) = Cat(f, Cat(Transfer, d))
  BY <1>1, Parts, Grouping
<1>8. Cat(Cat(Cat(Cat(Cat(Reset, m), a), b), Cat(Transfer, c)), k)
        = Cat(Reset, Cat(Cat(Cat(m, a), b), Cat(Transfer, Cat(c, k))))
  <2>1. /\ Reset \in Programs /\ m \in Programs /\ a \in Programs /\ b \in Programs
        /\ Transfer \in Programs /\ c \in Programs /\ k \in Programs
    BY <1>1, Parts
  <2> DEFINE mab == Cat(Cat(m, a), b)
             tc == Cat(Transfer, c)
  <2>2. /\ Cat(m, a) \in Programs /\ mab \in Programs /\ tc \in Programs
        /\ Cat(mab, tc) \in Programs
    BY <2>1, Grouping
  <2>3. Cat(Cat(Cat(Reset, m), a), b) = Cat(Reset, mab)
    BY <2>1, <2>2, Grouping
  <2>4. Cat(Cat(Reset, mab), tc) = Cat(Reset, Cat(mab, tc))
    BY <2>1, <2>2, Grouping
  <2>5. Cat(Cat(Reset, Cat(mab, tc)), k) = Cat(Reset, Cat(Cat(mab, tc), k))
    BY <2>1, <2>2, Grouping
  <2>6. Cat(Cat(mab, tc), k) = Cat(mab, Cat(Transfer, Cat(c, k)))
    BY <2>1, <2>2, Grouping
  <2>7. QED
    BY <2>3, <2>4, <2>5, <2>6
<1>9. /\ Init = Rest(Reset, 1, Rest(Calibration, 1, FirstRead))
      /\ Steps("Read") = Rest(Transfer, 1, c) /\ Steps("Write") = Cat(f, Rest(Transfer, 1, d))
      /\ FirstRead \in Programs /\ Rest(Calibration, 1, FirstRead) \in Programs
  BY <1>1, <1>2, <1>3, <1>4, <1>5, <1>6, <1>7, <1>8
<1>10. QED
  BY <1>9 DEF c, d, f, Cat

\* A transfer that failed.
LEMMA FailedRest ==
  ASSUME NEW t
  PROVE  \E e \in ReturnEnds : Failed(t) = Rest(FailSteps, 1, e)
<1> DEFINE x == AfterReturn(t)
           c == <<"Return">>
<1>1. x \in {<<>>, <<"ScanMBR">>} /\ x \in Programs /\ c \in Programs
  <2>1. x \in {<<>>, <<"ScanMBR">>}
    BY DEF AfterReturn
  <2>2. <<>> \in Programs /\ <<"ScanMBR">> \in Programs /\ c \in Programs
    BY DEF StepNames, Programs
  <2> HIDE DEF x, c
  <2>3. QED
    BY <2>1, <2>2
<1>2. Cat(c, x) \in ReturnEnds
  <2>1. CASE x = <<>>
    BY <1>1, <2>1, ConcatEmptySeq DEF ReturnEnds, Cat
  <2>2. CASE x = <<"ScanMBR">>
    BY <2>2, Join11 DEF ReturnEnds, Cat
  <2>3. QED
    BY <1>1, <2>1, <2>2
<1>3. Failed(t) = Cat(Cat(FailSteps, c), x)
  BY DEF Failed, FailSteps, Cat
<1> HIDE DEF x, c
<1>4. /\ Cat(Cat(FailSteps, c), x) = Cat(FailSteps, Cat(c, x))
      /\ Cat(c, x) \in Programs
  BY <1>1, Parts, Grouping
<1>5. Rest(FailSteps, 1, Cat(c, x)) = Cat(FailSteps, Cat(c, x))
  BY <1>4, NextOfPart DEF Walks, Cat
<1>6. QED
  BY <1>2, <1>3, <1>4, <1>5

-----------------------------------------------------------------------------
(* The addresses.                                                          *)

LEMMA Division ==
  ASSUME NEW a \in Nat, NEW n \in Nat \ {0}
  PROVE  /\ a \div n \in Nat /\ a % n \in 0..(n - 1) /\ a = (a \div n) * n + (a % n)
         /\ a \div n <= a
OBVIOUS

\* The three bytes that go to the DMA controller are the address.
LEMMA AddressBytes ==
  LET low == DmaPhys % 256
      high == (DmaPhys \div 256) % 256
      top == (DmaPhys \div 65536) % 256
  IN top * 65536 + high * 256 + low = DmaPhys /\ DmaPhys \in Nat
<1>1. \A n \in 0..4095 :
        LET x == 4096 * n
        IN ((x \div 65536) % 256) * 65536 + ((x \div 256) % 256) * 256 + (x % 256) = x /\ x \in Nat
  OBVIOUS
<1>2. QED
  <2>1. PICK n \in 0..4095 : DmaPhys = 4096 * n
    BY FloppyAssumption
  <2>2. QED
    BY <1>1, <2>1

Rated == Sectors \in Nat \ {0} /\ Cylinders \in 1..128 /\ Total \in Nat \ {0}

LEMMA Sizes == Rated
<1>1. \A s \in Nat \ {0}, c \in 1..128 : s * 2 * c \in Nat \ {0}
  OBVIOUS
<1>2. QED
  BY <1>1, FloppyAssumption DEF Rated, Total, Heads

\* Read and Write find the sector as long as a cylinder is a byte.
LEMMA Addressed ==
  ASSUME NEW lba \in 0..(2 * Total - 1)
  PROVE  /\ CHS(lba) \in (0..255) \X (0..1) \X (1..Sectors)
         /\ lba = (CHS(lba)[1] * Heads + CHS(lba)[2]) * Sectors + CHS(lba)[3] - 1
<1>1. Sectors \in Nat \ {0} /\ Cylinders \in 1..128 /\ lba \in Nat /\ lba < 2 * (Sectors * 2 * Cylinders)
  BY FloppyAssumption, Sizes DEF Total, Heads, Rated
<1> DEFINE q == lba \div Sectors
           m == lba % Sectors
<1>2. q \in Nat /\ m \in 0..(Sectors - 1) /\ lba = q * Sectors + m
  BY <1>1, Division
<1>3. q < 512
  <2>1. \A s \in Nat \ {0}, c \in 1..128, x, y \in Nat :
          x * s + y < 2 * (s * 2 * c) => x < 4 * c
    <3> SUFFICES ASSUME NEW s \in Nat \ {0}, NEW c \in 1..128, NEW x \in Nat, NEW y \in Nat, x >= 4 * c
                 PROVE  x * s + y >= 2 * (s * 2 * c)
      OBVIOUS
    <3>1. x * s >= (4 * c) * s
      OBVIOUS
    <3>2. (4 * c) * s = 2 * (s * 2 * c)
      OBVIOUS
    <3>3. QED
      BY <3>1, <3>2
  <2> HIDE DEF q, m
  <2>2. q * Sectors + m < 2 * (Sectors * 2 * Cylinders)
    BY <1>1, <1>2
  <2>3. q < 4 * Cylinders
    BY <1>1, <1>2, <2>1, <2>2
  <2>4. QED
    BY <1>1, <1>2, <2>3
<1> HIDE DEF q, m
<1>4. (q \div 2) % 256 = q \div 2 /\ q \div 2 \in 0..255 /\ q % 2 \in 0..1
      /\ q = (q \div 2) * 2 + (q % 2)
  BY <1>2, <1>3
<1>5. CHS(lba) = <<q \div 2, q % 2, m + 1>>
  BY <1>4 DEF CHS, q, m
<1>6. m + 1 \in 1..Sectors
  BY <1>1, <1>2
<1>7. CHS(lba)[1] = q \div 2 /\ CHS(lba)[2] = q % 2 /\ CHS(lba)[3] = m + 1
  BY <1>5
<1>8. CHS(lba) \in (0..255) \X (0..1) \X (1..Sectors)
  BY <1>4, <1>5, <1>6
<1>9. lba = ((q \div 2) * 2 + (q % 2)) * Sectors + (m + 1) - 1
  <2>1. ((q \div 2) * 2 + (q % 2)) * Sectors = q * Sectors
    BY <1>4
  <2>2. q * Sectors \in Nat
    BY <1>1, <1>2
  <2>3. QED
    BY <1>2, <2>1, <2>2
<1>10. QED
  BY <1>7, <1>8, <1>9 DEF Heads

-----------------------------------------------------------------------------
(* The next step of the driver is the one at the head of todo.             *)

Simple == ResetOff \/ ResetOn \/ Arm \/ Plain \/ WaitIRQ

LEMMA StepOfHead ==
  ASSUME DriverStep
  PROVE  /\ status = "ready" /\ todo # <<>>
         /\ Head(todo) = "MotorOn" => MotorOn
         /\ Head(todo) = "MotorOff" => MotorOff
         /\ Head(todo) \in {"ResetOff", "ResetOn", "Arm", "Sense", "Specify", "Lock"} => Simple
         /\ Head(todo) = "WaitIRQ" => WaitIRQ
         /\ Head(todo) = "Seek" => Seek
         /\ Head(todo) \in {"SeekTo", "Recalibrate", "Transfer"} => Command
         /\ Head(todo) = "SeekResult" => SeekResult
         /\ Head(todo) = "StartDMA" => StartDMA
         /\ Head(todo) = "Result" => Result
         /\ Head(todo) \in {"Copy", "Fill"} => Copy
         /\ Head(todo) = "RegisterDevice" => RegisterDevice
         /\ Head(todo) = "ScanMBR" => ScanMBR
         /\ Head(todo) = "Return" => Return
<1> DEFINE h == Head(todo)
<1>1. MotorOn => At("MotorOn")
  BY DEF MotorOn
<1>2. MotorOff => At("MotorOff")
  BY DEF MotorOff
<1>3. ResetOff => At("ResetOff")
  BY DEF ResetOff
<1>4. ResetOn => At("ResetOn")
  BY DEF ResetOn
<1>5. Arm => At("Arm")
  BY DEF Arm
<1>6. WaitIRQ => At("WaitIRQ")
  BY DEF WaitIRQ
<1>7. Plain => At("Sense") \/ At("Specify") \/ At("Lock")
  BY DEF Plain
<1>8. Seek => At("Seek")
  BY DEF Seek
<1>9. Command => At("SeekTo") \/ At("Recalibrate") \/ At("Transfer")
  BY DEF Command
<1>10. SeekResult => At("SeekResult")
  BY DEF SeekResult
<1>11. StartDMA => At("StartDMA")
  BY DEF StartDMA
<1>12. Result => At("Result")
  BY DEF Result
<1>13. Copy => At("Copy") \/ At("Fill")
  BY DEF Copy
<1>14. RegisterDevice => At("RegisterDevice")
  BY DEF RegisterDevice
<1>15. ScanMBR => At("ScanMBR")
  BY DEF ScanMBR
<1>16. Return => At("Return")
  BY DEF Return
<1>17. \A step : At(step) <=> status = "ready" /\ state # "Waiting" /\ todo # <<>> /\ h = step
  BY DEF At
<1> HIDE DEF h
<1>18. /\ status = "ready" /\ todo # <<>>
       /\ h = "MotorOn" => MotorOn
       /\ h = "MotorOff" => MotorOff
       /\ h \in {"ResetOff", "ResetOn", "Arm", "Sense", "Specify", "Lock"} => Simple
       /\ h = "WaitIRQ" => WaitIRQ
       /\ h = "Seek" => Seek
       /\ h \in {"SeekTo", "Recalibrate", "Transfer"} => Command
       /\ h = "SeekResult" => SeekResult
       /\ h = "StartDMA" => StartDMA
       /\ h = "Result" => Result
       /\ h \in {"Copy", "Fill"} => Copy
       /\ h = "RegisterDevice" => RegisterDevice
       /\ h = "ScanMBR" => ScanMBR
       /\ h = "Return" => Return
  BY <1>1, <1>2, <1>3, <1>4, <1>5, <1>6, <1>7, <1>8, <1>9, <1>10, <1>11, <1>12, <1>13, <1>14,
     <1>15, <1>16, <1>17 DEF DriverStep, Simple
<1>19. QED
  BY <1>18 DEF h

LEMMA HeadsOfParts ==
  /\ Reset[1] = "ResetOff" /\ Reset[2] = "Arm" /\ Reset[3] = "ResetOn" /\ Reset[4] = "WaitIRQ"
  /\ Reset[5] = "Sense" /\ Reset[6] = "Specify"
  /\ Calibration[1] = "MotorOn" /\ Calibration[2] = "Arm" /\ Calibration[3] = "Recalibrate"
  /\ Calibration[4] = "WaitIRQ" /\ Calibration[5] = "SeekResult" /\ Calibration[6] = "MotorOff"
  /\ Calibration[7] = "Lock" /\ Calibration[8] = "RegisterDevice"
  /\ Transfer[1] = "MotorOn" /\ Transfer[2] = "Seek" /\ Transfer[3] = "StartDMA"
  /\ Transfer[4] = "Arm" /\ Transfer[5] = "Transfer" /\ Transfer[6] = "WaitIRQ"
  /\ Transfer[7] = "Result" /\ Transfer[8] = "MotorOff"
  /\ SeekSteps[1] = "Arm" /\ SeekSteps[2] = "SeekTo" /\ SeekSteps[3] = "WaitIRQ"
  /\ SeekSteps[4] = "SeekResult"
  /\ FailSteps[1] = "MotorOff"
  /\ FailSteps[2] = "ResetOff" /\ FailSteps[3] = "Arm" /\ FailSteps[4] = "ResetOn"
  /\ FailSteps[5] = "WaitIRQ" /\ FailSteps[6] = "Sense" /\ FailSteps[7] = "Specify"
BY StepsOfParts

-----------------------------------------------------------------------------
(* The types.                                                              *)

LEMMA CommandTypes ==
  ASSUME call \in Calls
  PROVE  /\ Target[1] \in 0..255
         /\ <<"Seek", Target[1]>> \in Commands
         /\ <<"Seek", 0>> \in Commands
         /\ <<call.op>> \o Target = <<call.op, Target[1], Target[2], Target[3]>>
         /\ <<call.op>> \o Target \in Commands
<1>1. call.lba \in 0..(2 * Total - 1) /\ call.op \in {"Init", "Read", "Write"}
  BY DEF Calls
<1>2. Target \in (0..255) \X (0..1) \X (1..Sectors)
  BY <1>1, Addressed DEF Target
<1> DEFINE a == Target[1]
           b == Target[2]
           c == Target[3]
<1>3. a \in 0..255 /\ b \in 0..1 /\ c \in 1..Sectors /\ Target = <<a, b, c>>
  BY <1>2
<1>4. <<call.op>> \o <<a, b, c>> = <<call.op, a, b, c>>
  BY Join13
<1> HIDE DEF a, b, c
<1>5. /\ <<"Seek", a>> \in Commands /\ <<"Seek", 0>> \in Commands
      /\ <<call.op, a, b, c>> \in Commands
  BY <1>1, <1>3 DEF Commands
<1>6. QED
  BY <1>3, <1>4, <1>5 DEF a, b, c

\* What the types of the data depend on, and the others.
data == <<call, buffer, page, medium, currentTrack, retryCounter, status, partitions>>

LEMMA SameTypes ==
  /\ DataTypes /\ UNCHANGED data => DataTypes'
  /\ FlagTypes /\ UNCHANGED <<state, raised, late, dropped>> => FlagTypes'
  /\ DeviceTypes /\ UNCHANGED <<dma, fdc, drive>> => DeviceTypes'
  /\ MotorTurns /\ UNCHANGED <<motorEnabled, drive, dropped>> => MotorTurns'
<1>1. DataTypes /\ UNCHANGED data => DataTypes'
  BY DEF DataTypes, data
<1>2. FlagTypes /\ UNCHANGED <<state, raised, late, dropped>> => FlagTypes'
  BY DEF FlagTypes
<1>3. DeviceTypes /\ UNCHANGED <<dma, fdc, drive>> => DeviceTypes'
  BY DEF DeviceTypes
<1>4. MotorTurns /\ UNCHANGED <<motorEnabled, drive, dropped>> => MotorTurns'
  BY DEF MotorTurns
<1>5. QED
  BY <1>1, <1>2, <1>3, <1>4

LEMMA WaitStep ==
  ASSUME Types, WaitIRQ
  PROVE  /\ Types' /\ todo' = Tail(todo)
         /\ UNCHANGED <<call, buffer, motorEnabled, currentTrack, retryCounter, partitions, status,
                        page, dma, medium, fdc, drive, late, dropped>>
<1>1. /\ todo' = Tail(todo)
      /\ UNCHANGED <<call, buffer, motorEnabled, currentTrack, retryCounter, partitions, status,
                     page, dma, medium, fdc, drive, late, dropped>>
      /\ (raised' = FALSE /\ state' = state) \/ (raised' = raised /\ state' = "Waiting")
  BY DEF WaitIRQ, Next1
<1>2. DataTypes' /\ DeviceTypes' /\ MotorTurns'
  BY <1>1, SameTypes DEF Types, data
<1>3. FlagTypes'
  BY <1>1 DEF Types, FlagTypes
<1>4. QED
  BY <1>1, <1>2, <1>3 DEF Types

LEMMA SimpleStep ==
  ASSUME Types, Simple
  PROVE  /\ Types' /\ (Quiet => Quiet') /\ todo' = Tail(todo)
         /\ UNCHANGED <<call, buffer, motorEnabled, currentTrack, retryCounter, partitions, status,
                        page, dma, medium>>
         /\ drive'.track = drive.track /\ (late => late')
<1>1. CASE ResetOff
  <2>1. /\ todo' = Tail(todo)
        /\ UNCHANGED <<call, buffer, motorEnabled, currentTrack, retryCounter, partitions, status,
                       page, dma, medium, state, raised, late>>
        /\ dropped' = (dropped \/ motorEnabled > 0)
        /\ fdc' = [fdc EXCEPT !.phase = "off", !.irq = FALSE]
        /\ drive' = [drive EXCEPT !.motor = FALSE]
    BY <1>1 DEF ResetOff, Next1
  <2>2. DataTypes'
    BY <2>1, SameTypes DEF Types, data
  <2>3. DeviceTypes' /\ drive'.track = drive.track /\ fdc'.phase = "off"
    BY <2>1 DEF Types, DeviceTypes
  <2>4. FlagTypes' /\ MotorTurns'
    BY <2>1 DEF Types, FlagTypes, MotorTurns
  <2>5. QED
    BY <2>1, <2>2, <2>3, <2>4 DEF Types, Quiet
<1>2. CASE ResetOn
  <2>1. /\ todo' = Tail(todo)
        /\ UNCHANGED <<call, buffer, motorEnabled, currentTrack, retryCounter, partitions, status,
                       page, dma, medium, state, raised, late, drive, dropped>>
        /\ fdc' = [fdc EXCEPT !.phase = "reset"]
    BY <1>2 DEF ResetOn, Next1
  <2>2. DataTypes' /\ FlagTypes' /\ MotorTurns'
    BY <2>1, SameTypes DEF Types, data
  <2>3. DeviceTypes' /\ fdc'.phase = "reset"
    BY <2>1 DEF Types, DeviceTypes
  <2>4. QED
    BY <2>1, <2>2, <2>3 DEF Types, Quiet
<1>3. CASE Arm \/ Plain
  <2>1. /\ todo' = Tail(todo)
        /\ UNCHANGED <<call, buffer, motorEnabled, currentTrack, retryCounter, partitions, status,
                       page, dma, medium, drive, dropped, fdc>>
        /\ state' \in {state, "Unstoppable"} /\ raised' \in {raised, FALSE} /\ late' \in {late, TRUE}
    BY <1>3 DEF Arm, Plain, Next1
  <2>2. DataTypes' /\ DeviceTypes' /\ MotorTurns'
    BY <2>1, SameTypes DEF Types, data
  <2>3. FlagTypes'
    BY <2>1 DEF Types, FlagTypes
  <2>4. (Quiet => Quiet') /\ (late => late')
    <3>1. CASE late' = late
      BY <2>1, <3>1 DEF Quiet
    <3>2. CASE late' = TRUE
      BY <3>2 DEF Quiet
    <3>3. QED
      BY <2>1, <3>1, <3>2
  <2>5. QED
    BY <2>1, <2>2, <2>3, <2>4 DEF Types
<1>4. CASE WaitIRQ
  <2>1. (Quiet => Quiet') /\ (late => late')
    BY <1>4, WaitStep DEF Quiet
  <2>2. QED
    BY <1>4, <2>1, WaitStep
<1>5. QED
  BY <1>1, <1>2, <1>3, <1>4 DEF Simple

LEMMA MotorOnStep ==
  ASSUME Types, MotorOn, motorEnabled \in 0..MaxLocks
  PROVE  /\ Types' /\ motorEnabled' = motorEnabled + 1 /\ todo' = Tail(todo)
         /\ UNCHANGED <<call, buffer, currentTrack, retryCounter, partitions, status,
                        page, dma, medium, fdc, late>>
         /\ drive'.track = drive.track
<1>1. motorEnabled' = motorEnabled + 1
  <2>1. MaxLocks \in 0..254
    BY FloppyAssumption
  <2>2. QED
    BY <2>1 DEF MotorOn
<1>2. /\ todo' = Tail(todo)
      /\ UNCHANGED <<call, buffer, currentTrack, retryCounter, partitions, status, page, dma,
                     medium, fdc, late, state, raised>>
      /\ \/ motorEnabled > 0 /\ UNCHANGED <<drive, dropped>>
         \/ drive' = [drive EXCEPT !.motor = TRUE] /\ dropped' = FALSE
  BY DEF MotorOn, Next1
<1>3. DataTypes'
  BY <1>2, SameTypes DEF Types, data
<1>4. DeviceTypes' /\ drive'.track = drive.track
  <2>1. CASE UNCHANGED drive
    BY <1>2, <2>1, SameTypes DEF Types
  <2>2. CASE drive' = [drive EXCEPT !.motor = TRUE]
    <3>1. UNCHANGED <<dma, fdc>>
      BY <1>2
    <3>2. QED
      BY <2>2, <3>1 DEF Types, DeviceTypes
  <2>3. QED
    BY <1>2, <2>1, <2>2
<1>5. FlagTypes'
  BY <1>2 DEF Types, FlagTypes
<1>6. MotorTurns'
  BY <1>2 DEF Types, DeviceTypes, MotorTurns
<1>7. QED
  BY <1>1, <1>2, <1>3, <1>4, <1>5, <1>6 DEF Types

LEMMA MotorOffStep ==
  ASSUME Types, MotorOff, motorEnabled \in Nat
  PROVE  /\ Types' /\ motorEnabled > 0 /\ motorEnabled' = motorEnabled - 1 /\ todo' = Tail(todo)
         /\ UNCHANGED <<call, buffer, currentTrack, retryCounter, partitions, status,
                        page, dma, medium, fdc, late>>
         /\ drive'.track = drive.track
<1>1. /\ motorEnabled > 0 /\ motorEnabled' = motorEnabled - 1 /\ todo' = Tail(todo)
      /\ UNCHANGED <<call, buffer, currentTrack, retryCounter, partitions, status,
                     page, dma, medium, fdc, late, state, raised, dropped>>
      /\ drive' = IF motorEnabled' > 0 THEN drive ELSE [drive EXCEPT !.motor = FALSE]
  BY DEF MotorOff, Next1, MotorLeft
<1>2. DataTypes' /\ FlagTypes'
  BY <1>1, SameTypes DEF Types, data
<1>3. DeviceTypes' /\ drive'.track = drive.track
  <2>1. drive \in [motor: BOOLEAN, track: 0..255]
    BY DEF Types, DeviceTypes
  <2>2. drive' \in [motor: BOOLEAN, track: 0..255] /\ drive'.track = drive.track
    BY ONLY <1>1, <2>1
  <2>3. dma' = dma /\ fdc' = fdc
    BY <1>1
  <2>4. QED
    BY <2>2, <2>3 DEF Types, DeviceTypes
<1>4. MotorTurns'
  BY <1>1 DEF Types, MotorTurns
<1>5. QED
  BY <1>1, <1>2, <1>3, <1>4 DEF Types

\* The commands that start something.
LEMMA CommandStep ==
  ASSUME Types, Command
  PROVE  /\ Types' /\ todo' = Tail(todo)
         /\ UNCHANGED <<call, buffer, motorEnabled, currentTrack, retryCounter, partitions, status,
                        page, dma, medium, drive>>
         /\ ~late' => /\ ~late /\ fdc'.phase = "busy"
                      /\ Head(todo) = "SeekTo" => fdc'.command = <<"Seek", Target[1]>>
                      /\ Head(todo) = "Recalibrate" => fdc'.command = <<"Seek", 0>>
                      /\ Head(todo) = "Transfer" => fdc'.command = <<call.op>> \o Target
<1>1. PICK c \in Commands : /\ Exec(c)
                            /\ Head(todo) = "SeekTo" => c = <<"Seek", Target[1]>>
                            /\ Head(todo) = "Recalibrate" => c = <<"Seek", 0>>
                            /\ Head(todo) = "Transfer" => c = <<call.op>> \o Target
  <2>1. call \in Calls
    BY DEF Types, DataTypes
  <2>2. CASE At("SeekTo") /\ Exec(<<"Seek", Target[1]>>)
    BY <2>1, <2>2, CommandTypes DEF At
  <2>3. CASE At("Recalibrate") /\ Exec(<<"Seek", 0>>)
    BY <2>1, <2>3, CommandTypes DEF At
  <2>4. CASE At("Transfer") /\ Exec(<<call.op>> \o Target)
    BY <2>1, <2>4, CommandTypes DEF At
  <2>5. QED
    BY <2>2, <2>3, <2>4 DEF Command, Target
<1>2. /\ todo' = Tail(todo)
      /\ UNCHANGED <<call, buffer, motorEnabled, currentTrack, retryCounter, partitions, status,
                     page, dma, medium, drive, state, raised, dropped>>
  BY DEF Command, Next1
<1>3. DataTypes' /\ MotorTurns'
  BY <1>2, SameTypes DEF Types, data
<1>4. CASE fdc' = [fdc EXCEPT !.phase = "busy", !.command = c] /\ UNCHANGED late
  <2>1. DeviceTypes' /\ fdc'.phase = "busy" /\ fdc'.command = c
    <3>1. UNCHANGED <<dma, drive>>
      BY <1>2
    <3>2. QED
      BY <1>4, <3>1 DEF Types, DeviceTypes
  <2>2. FlagTypes'
    BY <1>2, <1>4, SameTypes DEF Types
  <2>3. QED
    BY <1>1, <1>2, <1>3, <1>4, <2>1, <2>2 DEF Types
<1>5. CASE late' = TRUE /\ UNCHANGED fdc
  <2>1. DeviceTypes' /\ FlagTypes'
    BY <1>2, <1>5, SameTypes DEF Types, FlagTypes
  <2>2. QED
    BY <1>2, <1>3, <1>5, <2>1 DEF Types
<1>6. QED
  BY <1>1, <1>4, <1>5 DEF Exec

\* A result that was read in time is the one of the command.
LEMMA ReadStep ==
  ASSUME NEW phase, NEW ok \in BOOLEAN, Types, Reads(phase, ok), UNCHANGED <<dma, drive>>,
         UNCHANGED <<state, raised, dropped>>
  PROVE  /\ DeviceTypes' /\ FlagTypes'
         /\ ~late' => /\ ~late /\ fdc.phase = phase /\ ok = fdc.ok /\ fdc'.phase = "idle"
<1>1. CASE fdc.phase = phase /\ ok = fdc.ok /\ fdc' = [fdc EXCEPT !.phase = "idle"] /\ UNCHANGED late
  <2>1. DeviceTypes' /\ fdc'.phase = "idle"
    BY <1>1 DEF Types, DeviceTypes
  <2>2. FlagTypes'
    BY <1>1, SameTypes DEF Types
  <2>3. QED
    BY <1>1, <2>1, <2>2
<1>2. CASE late' = TRUE /\ UNCHANGED fdc
  <2>1. DeviceTypes' /\ FlagTypes'
    BY <1>2, SameTypes DEF Types, FlagTypes
  <2>2. QED
    BY <1>2, <2>1
<1>3. QED
  BY <1>1, <1>2 DEF Reads

LEMMA SeekResultStep ==
  ASSUME Types, SeekResult
  PROVE  /\ Types' /\ todo' = Tail(todo)
         /\ UNCHANGED <<call, buffer, motorEnabled, partitions, page, dma, drive, medium>>
         /\ ~late' => ~late /\ fdc.phase = "sense" /\ fdc'.phase = "idle"
         /\ status' = "ready" =>
              currentTrack' = IF call.op # "Init" THEN Target[1] ELSE currentTrack
         /\ call.op = "Init" => currentTrack' = currentTrack
<1>1. PICK ok \in BOOLEAN :
        /\ Reads("sense", ok)
        /\ status' = IF ok THEN status ELSE "stopped"
        /\ currentTrack' = IF ok /\ call.op # "Init" THEN Target[1] ELSE currentTrack
  BY DEF SeekResult, Target
<1>2. /\ todo' = Tail(todo)
      /\ UNCHANGED <<call, buffer, motorEnabled, retryCounter, partitions, page, state, raised,
                     dma, drive, medium, dropped>>
  BY DEF SeekResult, Next1
<1>3. /\ DeviceTypes' /\ FlagTypes'
      /\ ~late' => ~late /\ fdc.phase = "sense" /\ fdc'.phase = "idle"
  BY <1>1, <1>2, ReadStep
<1>4. MotorTurns'
  BY <1>2, SameTypes DEF Types
<1>5. DataTypes'
  <2>1. Target[1] \in 0..255
    BY CommandTypes DEF Types, DataTypes
  <2>2. currentTrack' \in 0..255
    BY <1>1, <2>1 DEF Types, DataTypes
  <2>3. status' \in {"ready", "stopped"} /\ (status' = "ready" => status = "ready")
    BY <1>1 DEF Types, DataTypes
  <2>4. QED
    BY <1>2, <2>2, <2>3 DEF Types, DataTypes
<1>6. status' = "ready" => ok
  BY <1>1
<1>7. QED
  BY <1>1, <1>2, <1>3, <1>4, <1>5, <1>6 DEF Types

LEMMA SeekStep ==
  ASSUME Types, Seek
  PROVE  /\ Types'
         /\ UNCHANGED <<call, buffer, motorEnabled, currentTrack, retryCounter, partitions, status,
                        page, dma, medium, fdc, drive, late>>
         /\ \/ currentTrack = Target[1] /\ todo' = <<>> \o Tail(todo)
            \/ todo' = SeekSteps \o Tail(todo)
<1>1. /\ UNCHANGED <<call, buffer, motorEnabled, currentTrack, retryCounter, partitions, status,
                     page, dma, medium, fdc, drive, late, state, raised, dropped>>
      /\ todo' = (IF currentTrack = Target[1] THEN <<>> ELSE SeekSteps) \o Tail(todo)
  BY DEF Seek, Target, SeekSteps
<1>2. Types'
  BY <1>1, SameTypes DEF Types, data
<1>3. QED
  BY <1>1, <1>2

LEMMA StartDMAStep ==
  ASSUME Types, StartDMA
  PROVE  /\ Types' /\ todo' = Tail(todo) /\ Programmed'
         /\ UNCHANGED <<call, buffer, motorEnabled, currentTrack, retryCounter, partitions, status,
                        page, medium, fdc, drive, late>>
<1>1. /\ todo' = Tail(todo) /\ raised' = FALSE
      /\ UNCHANGED <<call, buffer, motorEnabled, currentTrack, retryCounter, partitions, status,
                     page, medium, fdc, drive, late, state, dropped>>
  BY DEF StartDMA, Next1
<1>2. dma' = [address |-> DmaPhys, dir |-> call.op, masked |-> FALSE]
  <2> DEFINE low == DmaPhys % 256
             high == (DmaPhys \div 256) % 256
             top == (DmaPhys \div 65536) % 256
             address == top * 65536 + high * 256 + low
  <2>1. dma' = [address |-> address, dir |-> call.op, masked |-> FALSE]
    BY DEF StartDMA
  <2>2. address = DmaPhys
    BY AddressBytes
  <2> HIDE DEF address
  <2>3. QED
    BY <2>1, <2>2
<1>3. DmaPhys \in Nat /\ call.op \in {"none", "Init", "Read", "Write"}
  BY AddressBytes DEF Types, DataTypes, Calls
<1>4. DataTypes' /\ MotorTurns'
  BY <1>1, SameTypes DEF Types, data
<1>5. DeviceTypes'
  BY <1>1, <1>2, <1>3 DEF Types, DeviceTypes
<1>6. FlagTypes'
  BY <1>1 DEF Types, FlagTypes
<1>7. Programmed'
  BY <1>1, <1>2 DEF Programmed
<1>8. QED
  BY <1>1, <1>4, <1>5, <1>6, <1>7 DEF Types

LEMMA ResultStep ==
  ASSUME Types, Result, status = "ready", call.op \in {"Read", "Write"}
  PROVE  /\ Types'
         /\ UNCHANGED <<buffer, motorEnabled, currentTrack, partitions, page, dma, drive, medium>>
         /\ call'.op = call.op /\ call'.lba = call.lba
         /\ ~late' => /\ ~late /\ fdc.phase = "result" /\ fdc'.phase = "idle"
                      /\ call'.ok = fdc.ok
         /\ \/ call'.ok /\ status' = "ready" /\ todo' = Tail(todo)
            \/ ~call'.ok /\ todo' = Failed(todo)
<1>1. PICK ok \in BOOLEAN :
        /\ Reads("result", ok)
        /\ call' = [call EXCEPT !.ok = ok]
        /\ retryCounter' = [retryCounter EXCEPT ![call.op] = IF ok THEN 0 ELSE @ + 1]
        /\ status' = IF retryCounter'[call.op] > MaxRetries THEN "stopped" ELSE status
        /\ todo' = IF ok THEN Tail(todo) ELSE Failed(todo)
  BY DEF Result
<1>2. UNCHANGED <<buffer, motorEnabled, currentTrack, partitions, page, state, raised, dma, drive,
                  medium, dropped>>
  BY DEF Result
<1>3. /\ DeviceTypes' /\ FlagTypes'
      /\ ~late' => ~late /\ fdc.phase = "result" /\ ok = fdc.ok /\ fdc'.phase = "idle"
  BY <1>1, <1>2, ReadStep
<1>4. MotorTurns'
  BY <1>2, SameTypes DEF Types
<1>5. call' \in Calls /\ call'.op = call.op /\ call'.lba = call.lba /\ call'.ok = ok
  BY <1>1 DEF Types, DataTypes, Calls
<1>6. MaxRetries \in Nat
  BY FloppyAssumption
<1>7. /\ retryCounter' \in [{"Read", "Write"} -> 0..(MaxRetries + 1)]
      /\ status' \in {"ready", "stopped"}
      /\ status' = "ready" => \A op \in {"Read", "Write"} : retryCounter'[op] <= MaxRetries
      /\ ok => status' = "ready"
  <2>1. /\ retryCounter \in [{"Read", "Write"} -> 0..(MaxRetries + 1)]
        /\ \A op \in {"Read", "Write"} : retryCounter[op] \in 0..MaxRetries
    BY <1>6 DEF Types, DataTypes
  <2> DEFINE n == IF ok THEN 0 ELSE retryCounter[call.op] + 1
  <2>2. n \in 0..(MaxRetries + 1) /\ (ok => n = 0)
    BY <1>6, <2>1
  <2>3. retryCounter' = [retryCounter EXCEPT ![call.op] = n]
    BY <1>1
  <2> HIDE DEF n
  <2>4. /\ retryCounter' \in [{"Read", "Write"} -> 0..(MaxRetries + 1)]
        /\ retryCounter'[call.op] = n
        /\ \A op \in {"Read", "Write"} : op # call.op => retryCounter'[op] = retryCounter[op]
    BY <2>1, <2>2, <2>3
  <2>5. status' = IF n > MaxRetries THEN "stopped" ELSE "ready"
    BY <1>1, <2>4
  <2>6. QED
    BY <1>6, <2>1, <2>2, <2>4, <2>5
<1>8. DataTypes'
  BY <1>2, <1>5, <1>7 DEF Types, DataTypes
<1>9. QED
  BY <1>1, <1>2, <1>3, <1>4, <1>5, <1>7, <1>8 DEF Types

LEMMA CopyStep ==
  ASSUME Types, Copy
  PROVE  /\ Types' /\ todo' = Tail(todo)
         /\ UNCHANGED <<call, motorEnabled, currentTrack, retryCounter, partitions, status,
                        dma, medium, fdc, drive, late>>
         /\ page' = buffer'
         /\ Head(todo) = "Copy" => page' = page
<1>1. /\ todo' = Tail(todo)
      /\ UNCHANGED <<call, motorEnabled, currentTrack, retryCounter, partitions, status,
                     dma, medium, fdc, drive, late, state, raised, dropped>>
      /\ \/ Head(todo) = "Copy" /\ buffer' = page /\ page' = page
         \/ Head(todo) = "Fill" /\ page' = buffer /\ buffer' = buffer
  BY DEF Copy, Next1, At
<1>2. DeviceTypes' /\ FlagTypes' /\ MotorTurns'
  BY <1>1, SameTypes DEF Types
<1>3. DataTypes'
  BY <1>1 DEF Types, DataTypes
<1>4. QED
  BY <1>1, <1>2, <1>3 DEF Types

LEMMA RegisterDeviceStep ==
  ASSUME Types, RegisterDevice
  PROVE  /\ Types' /\ todo' = Tail(todo) /\ call'.op = "Read"
         /\ UNCHANGED <<buffer, motorEnabled, currentTrack, retryCounter, status,
                        page, dma, medium, fdc, drive, late>>
<1>1. /\ todo' = Tail(todo)
      /\ UNCHANGED <<buffer, motorEnabled, currentTrack, retryCounter, status,
                     page, dma, medium, fdc, drive, late, state, raised, dropped>>
      /\ partitions' = {[offset |-> 0, count |-> Total]}
      /\ call' = [op |-> "Read", lba |-> 0, ok |-> TRUE]
  BY DEF RegisterDevice, Next1
<1>2. DeviceTypes' /\ FlagTypes' /\ MotorTurns'
  BY <1>1, SameTypes DEF Types
<1>3. Total \in Nat \ {0} /\ call' \in Calls
  BY <1>1, Sizes DEF Rated, Calls
<1>4. /\ partitions' \subseteq Ranges
      /\ \A p \in partitions' : p.offset < Total /\ p.count <= Total
  BY <1>1, <1>3 DEF Ranges
<1>5. DataTypes'
  BY <1>1, <1>3, <1>4 DEF Types, DataTypes
<1>6. QED
  BY <1>1, <1>2, <1>5 DEF Types

LEMMA ScanMBRStep ==
  ASSUME Types, ScanMBR
  PROVE  /\ Types' /\ todo' = Tail(todo)
         /\ UNCHANGED <<buffer, motorEnabled, currentTrack, retryCounter, status,
                        page, dma, medium, fdc, drive, late>>
<1>1. PICK value \in Values :
        partitions' = partitions \cup {p \in Tables[value] : p.offset < Total /\ p.count < Total}
  BY DEF ScanMBR, Types, DataTypes
<1>2. /\ todo' = Tail(todo) /\ call' = NoCall
      /\ UNCHANGED <<buffer, motorEnabled, currentTrack, retryCounter, status,
                     page, dma, medium, fdc, drive, late, state, raised, dropped>>
  BY DEF ScanMBR, Next1
<1>3. DeviceTypes' /\ FlagTypes' /\ MotorTurns'
  BY <1>2, SameTypes DEF Types
<1>4. Total \in Nat \ {0} /\ call' \in Calls
  BY <1>2, Sizes DEF Rated, Calls, NoCall
<1>5. /\ partitions' \subseteq Ranges
      /\ \A p \in partitions' : p.offset < Total /\ p.count <= Total
  <2>1. Tables[value] \subseteq Ranges
    BY FloppyAssumption
  <2>2. \A p \in Ranges : p.count < Total => p.count <= Total
    BY <1>4 DEF Ranges
  <2>3. QED
    BY <1>1, <2>1, <2>2 DEF Types, DataTypes
<1>6. DataTypes'
  BY <1>2, <1>4, <1>5 DEF Types, DataTypes
<1>7. QED
  BY <1>2, <1>3, <1>6 DEF Types

LEMMA ReturnStep ==
  ASSUME Types, Return
  PROVE  /\ Types' /\ todo' = Tail(todo)
         /\ UNCHANGED <<buffer, motorEnabled, currentTrack, retryCounter, status,
                        page, dma, medium, fdc, drive, late>>
<1>1. /\ todo' = Tail(todo) /\ call' \in {call, NoCall}
      /\ UNCHANGED <<buffer, motorEnabled, currentTrack, retryCounter, partitions, status,
                     page, dma, medium, fdc, drive, late, state, raised, dropped>>
  BY DEF Return, Next1
<1>2. DeviceTypes' /\ FlagTypes' /\ MotorTurns'
  BY <1>1, SameTypes DEF Types
<1>3. call' \in Calls
  <2>1. call \in Calls
    BY DEF Types, DataTypes
  <2>2. NoCall \in Calls
    BY Sizes DEF Rated, Calls, NoCall
  <2>3. QED
    BY <1>1, <2>1, <2>2
<1>4. DataTypes'
  BY <1>1, <1>3 DEF Types, DataTypes
<1>5. QED
  BY <1>1, <1>2, <1>4 DEF Types

LEMMA BeginStep ==
  ASSUME NEW op \in {"Read", "Write"}, NEW p \in partitions, NEW lba \in 0..Total,
         Types, Begin(op, p, lba)
  PROVE  /\ Types'
         /\ UNCHANGED <<motorEnabled, currentTrack, retryCounter, page, dma, medium, fdc, drive, late>>
         /\ \/ todo' = todo
            \/ todo' = Steps(op) /\ call'.op = op /\ status' = status
<1>1. /\ UNCHANGED <<motorEnabled, currentTrack, retryCounter, partitions, page, dma, medium, fdc,
                     drive, late, state, raised, dropped>>
      /\ \/ lba >= p.count /\ status' = "stopped" /\ UNCHANGED <<todo, call, buffer>>
         \/ /\ ~(lba >= p.count) /\ call' = [op |-> op, lba |-> p.offset + lba, ok |-> TRUE]
            /\ todo' = Steps(op) /\ buffer' \in (IF op = "Write" THEN Values ELSE {buffer})
            /\ UNCHANGED status
  BY DEF Begin
<1>2. DeviceTypes' /\ FlagTypes' /\ MotorTurns'
  BY <1>1, SameTypes DEF Types
<1>3. CASE status' = "stopped" /\ UNCHANGED <<todo, call, buffer>>
  <2>1. DataTypes'
    BY <1>1, <1>3 DEF Types, DataTypes
  <2>2. QED
    BY <1>1, <1>2, <1>3, <2>1 DEF Types
<1>4. CASE /\ ~(lba >= p.count) /\ call' = [op |-> op, lba |-> p.offset + lba, ok |-> TRUE]
           /\ todo' = Steps(op) /\ buffer' \in (IF op = "Write" THEN Values ELSE {buffer})
           /\ UNCHANGED status
  <2>1. /\ p.offset \in Nat /\ p.count \in Nat /\ p.offset < Total /\ p.count <= Total
        /\ Total \in Nat
    BY Sizes DEF Types, DataTypes, Ranges, Rated
  <2>2. p.offset + lba \in 0..(2 * Total - 1)
    BY <1>4, <2>1
  <2>3. call' \in Calls /\ call'.op = op
    BY <1>4, <2>2 DEF Calls
  <2>4. buffer' \in Values
    BY <1>4 DEF Types, DataTypes
  <2>5. DataTypes'
    BY <1>1, <1>4, <2>3, <2>4 DEF Types, DataTypes
  <2>6. QED
    BY <1>1, <1>2, <1>4, <2>3, <2>5 DEF Types
<1>5. QED
  BY <1>1, <1>3, <1>4

-----------------------------------------------------------------------------
(* The steps of the driver, phase by phase.                                *)

\* What does not change as long as the variables it is about do not.
LEMMA Kept ==
  /\ call'.lba = call.lba => Target' = Target
  /\ Moved /\ call'.lba = call.lba /\ UNCHANGED <<medium, page>> => Moved'
  /\ Programmed /\ call'.op = call.op /\ UNCHANGED dma => Programmed'
  /\ /\ TrackKnown /\ drive'.track = drive.track /\ UNCHANGED <<currentTrack, status>>
     /\ late => late'
     => TrackKnown'
  /\ Quiet /\ UNCHANGED <<fdc, late>> => Quiet'
  /\ Locks /\ UNCHANGED motorEnabled => Locks'
  /\ CallLocks /\ UNCHANGED motorEnabled => CallLocks'
  /\ CallLocks /\ motorEnabled' = motorEnabled - 1 => Locks'
  /\ Locks /\ motorEnabled' = motorEnabled + 1 => CallLocks'
<1>1. MaxLocks \in Nat
  BY FloppyAssumption
<1>2. call'.lba = call.lba => Target' = Target
  BY DEF Target
<1>3. Moved /\ call'.lba = call.lba /\ UNCHANGED <<medium, page>> => Moved'
  BY <1>2 DEF Moved
<1>4. Programmed /\ call'.op = call.op /\ UNCHANGED dma => Programmed'
  BY DEF Programmed
<1>5. TrackKnown /\ drive'.track = drive.track /\ UNCHANGED <<currentTrack, status>>
      /\ (late => late') => TrackKnown'
  BY DEF TrackKnown
<1>6. Quiet /\ UNCHANGED <<fdc, late>> => Quiet'
  BY DEF Quiet
<1>7. QED
  BY <1>1, <1>2, <1>3, <1>4, <1>5, <1>6 DEF Locks, CallLocks

LEMMA WalkOn ==
  ASSUME NEW p, NEW n \in Nat, NEW e, Walks(p, n, e)
  PROVE  \A r \in 1..n : /\ Rest(p, r, e) # <<>> /\ Head(Rest(p, r, e)) = p[r]
                         /\ Tail(Rest(p, r, e)) = Rest(p, r + 1, e)
BY DEF Walks

LEMMA StartingStep ==
  ASSUME Types, Starting, DriverStep
  PROVE  FloppyInv'
<1>1. PICK r \in 1..6 : StartingAt(r)
  BY DEF Starting
<1> DEFINE x == Rest(Calibration, 1, FirstRead)
<1>2. /\ Head(todo) = Reset[r] /\ Tail(todo) = Rest(Reset, r + 1, x)
      /\ Rest(Reset, 7, x) = x
  <2>1. Walks(Reset, 6, x) /\ todo = Rest(Reset, r, x)
    BY <1>1, WholePrograms, NextOfPart DEF StartingAt
  <2> HIDE DEF x
  <2>2. Rest(Reset, 7, x) = x
    BY <2>1 DEF Walks
  <2>3. r \in 1..6
    BY <1>1
  <2>4. Head(todo) = Reset[r] /\ Tail(todo) = Rest(Reset, r + 1, x)
    BY <2>1, <2>3, WalkOn
  <2>5. QED
    BY <2>2, <2>4
<1>3. Simple
  BY <1>2, HeadsOfParts, StepOfHead DEF Simple
<1>4. /\ Types' /\ Quiet' /\ Locks' /\ call'.op = "Init" /\ currentTrack' = 0 /\ status' = "ready"
      /\ todo' = Rest(Reset, r + 1, x)
  BY <1>1, <1>2, <1>3, SimpleStep, Kept DEF StartingAt
<1>5. CASE r # 6
  <2>1. r + 1 \in 1..6 /\ StartingAt(r + 1)'
    BY <1>4, <1>5 DEF StartingAt
  <2>2. QED
    BY <1>4, <2>1 DEF FloppyInv, Phases, Starting
<1>6. CASE r = 6
  <2>1. CalibratingAt(1)'
    BY <1>2, <1>4, <1>6 DEF CalibratingAt
  <2>2. QED
    BY <1>4, <2>1 DEF FloppyInv, Phases, Calibrating
<1>7. QED
  BY <1>5, <1>6

LEMMA FailingStep ==
  ASSUME Types, Failing, DriverStep
  PROVE  FloppyInv'
<1>1. PICK r \in 1..7, e \in ReturnEnds : FailingAt(r, e)
  BY DEF Failing
<1>2. /\ Head(todo) = FailSteps[r] /\ Tail(todo) = Rest(FailSteps, r + 1, e)
      /\ Rest(FailSteps, 8, e) = e
  <2>1. Walks(FailSteps, 7, e) /\ todo = Rest(FailSteps, r, e)
    BY <1>1, Ends, NextOfPart DEF FailingAt
  <2>2. Rest(FailSteps, 8, e) = e
    BY <2>1 DEF Walks
  <2>3. r \in 1..7
    BY <1>1
  <2>4. Head(todo) = FailSteps[r] /\ Tail(todo) = Rest(FailSteps, r + 1, e)
    BY <2>1, <2>3, WalkOn
  <2>5. QED
    BY <2>2, <2>4
<1>3. /\ Types' /\ Quiet' /\ Locks' /\ TrackKnown' /\ ~call'.ok /\ todo' = Rest(FailSteps, r + 1, e)
  <2>1. CASE r = 1
    <3>1. MotorOff /\ CallLocks /\ motorEnabled \in Nat
      BY <1>1, <1>2, <2>1, HeadsOfParts, StepOfHead DEF FailingAt, CallLocks
    <3>2. QED
      BY <1>1, <1>2, <3>1, MotorOffStep, Kept DEF FailingAt
  <2>2. CASE r # 1
    <3>1. Simple /\ Locks
      BY <1>1, <1>2, <2>2, HeadsOfParts, StepOfHead DEF Simple, FailingAt
    <3>2. QED
      BY <1>1, <1>2, <3>1, SimpleStep, Kept DEF FailingAt
  <2>3. QED
    BY <2>1, <2>2
<1>4. CASE r # 7
  <2>1. r + 1 \in 1..7 /\ FailingAt(r + 1, e)'
    BY <1>3, <1>4 DEF FailingAt
  <2>2. QED
    BY <1>3, <2>1 DEF FloppyInv, Phases, Failing
<1>5. CASE r = 7
  <2>1. Returning'
    BY <1>2, <1>3, <1>5 DEF Returning
  <2>2. QED
    BY <1>3, <2>1 DEF FloppyInv, Phases
<1>6. QED
  BY <1>4, <1>5

LEMMA CalibratingStep ==
  ASSUME Types, Calibrating, DriverStep
  PROVE  FloppyInv'
<1>1. PICK r \in 1..8 : CalibratingAt(r)
  BY DEF Calibrating
<1>2. /\ Head(todo) = Calibration[r] /\ Tail(todo) = Rest(Calibration, r + 1, FirstRead)
      /\ Rest(Calibration, 9, FirstRead) = FirstRead
  <2>1. Walks(Calibration, 8, FirstRead) /\ todo = Rest(Calibration, r, FirstRead)
    BY <1>1, WholePrograms, NextOfPart DEF CalibratingAt
  <2>2. Rest(Calibration, 9, FirstRead) = FirstRead
    BY <2>1 DEF Walks
  <2>3. r \in 1..8
    BY <1>1
  <2>4. Head(todo) = Calibration[r] /\ Tail(todo) = Rest(Calibration, r + 1, FirstRead)
    BY <2>1, <2>3, WalkOn
  <2>5. QED
    BY <2>2, <2>4
<1>3. /\ status = "ready" /\ call.op = "Init" /\ currentTrack = 0
      /\ motorEnabled \in Nat /\ MaxLocks \in Nat
  BY <1>1, StepOfHead, FloppyAssumption DEF CalibratingAt, Locks, CallLocks
<1>4. ASSUME r # 8, Types', CalibratingAt(r + 1)'
      PROVE  FloppyInv'
  <2>1. r + 1 \in 1..8
    BY <1>4
  <2>2. QED
    BY <1>4, <2>1 DEF FloppyInv, Phases, Calibrating
<1>5. CASE r = 1
  <2>1. MotorOn /\ Locks /\ Quiet
    BY <1>1, <1>2, <1>5, HeadsOfParts, StepOfHead DEF CalibratingAt
  <2>2. /\ Types' /\ CallLocks' /\ Quiet' /\ todo' = Rest(Calibration, r + 1, FirstRead)
        /\ UNCHANGED <<call, currentTrack, status>>
    BY <1>2, <2>1, MotorOnStep, Kept DEF Locks
  <2>3. CalibratingAt(r + 1)'
    BY <1>3, <1>5, <2>2 DEF CalibratingAt
  <2>4. QED
    BY <1>4, <1>5, <2>2, <2>3
<1>6. CASE r \in {2, 7}
  <2>1. Simple /\ Quiet
    BY <1>1, <1>2, <1>6, HeadsOfParts, StepOfHead DEF CalibratingAt
  <2>2. /\ Types' /\ Quiet' /\ todo' = Rest(Calibration, r + 1, FirstRead)
        /\ UNCHANGED <<call, currentTrack, status, motorEnabled>>
        /\ TrackKnown => TrackKnown'
    BY <1>2, <2>1, SimpleStep, Kept
  <2>3. CalibratingAt(r + 1)'
    BY <1>1, <1>3, <1>6, <2>2, Kept DEF CalibratingAt
  <2>4. QED
    BY <1>4, <1>6, <2>2, <2>3
<1>7. CASE r = 3
  <2>1. Command /\ CallLocks
    BY <1>1, <1>2, <1>7, HeadsOfParts, StepOfHead DEF CalibratingAt
  <2>2. /\ Types' /\ CallLocks' /\ todo' = Rest(Calibration, r + 1, FirstRead)
        /\ UNCHANGED <<call, currentTrack, status>>
        /\ ~late' => fdc'.phase = "busy" /\ fdc'.command = <<"Seek", 0>>
    BY <1>2, <1>7, <2>1, CommandStep, HeadsOfParts, Kept
  <2>3. CalibratingAt(r + 1)'
    BY <1>3, <1>7, <2>2 DEF CalibratingAt, SeekUnderWay
  <2>4. QED
    BY <1>4, <1>7, <2>2, <2>3
<1>8. CASE r = 4
  <2>1. WaitIRQ /\ CallLocks /\ (~late => SeekUnderWay(0))
    BY <1>1, <1>2, <1>8, HeadsOfParts, StepOfHead DEF CalibratingAt
  <2>2. /\ Types' /\ CallLocks' /\ todo' = Rest(Calibration, r + 1, FirstRead)
        /\ UNCHANGED <<call, currentTrack, status, fdc, drive, late>>
    BY <1>2, <2>1, WaitStep, Kept
  <2>3. ~late' => SeekUnderWay(0)'
    BY <2>1, <2>2 DEF SeekUnderWay
  <2>4. CalibratingAt(r + 1)'
    BY <1>3, <1>8, <2>2, <2>3 DEF CalibratingAt
  <2>5. QED
    BY <1>4, <1>8, <2>2, <2>4
<1>9. CASE r = 5
  <2>1. SeekResult /\ CallLocks /\ (~late => SeekUnderWay(0))
    BY <1>1, <1>2, <1>9, HeadsOfParts, StepOfHead DEF CalibratingAt
  <2>2. /\ Types' /\ CallLocks' /\ todo' = Rest(Calibration, r + 1, FirstRead)
        /\ call'.op = "Init" /\ currentTrack' = 0
        /\ UNCHANGED drive
        /\ ~late' => ~late /\ fdc.phase = "sense" /\ fdc'.phase = "idle"
    BY <1>2, <1>3, <2>1, SeekResultStep, Kept
  <2>3. Quiet' /\ TrackKnown'
    BY <2>1, <2>2 DEF Quiet, TrackKnown, SeekUnderWay
  <2>4. CalibratingAt(r + 1)'
    BY <1>9, <2>2, <2>3 DEF CalibratingAt
  <2>5. QED
    BY <1>4, <1>9, <2>2, <2>4
<1>10. CASE r = 6
  <2>1. MotorOff /\ CallLocks /\ Quiet /\ TrackKnown
    BY <1>1, <1>2, <1>10, HeadsOfParts, StepOfHead DEF CalibratingAt
  <2>2. /\ Types' /\ Locks' /\ todo' = Rest(Calibration, r + 1, FirstRead)
        /\ Quiet' /\ TrackKnown'
        /\ UNCHANGED <<call, currentTrack, status>>
    BY <1>2, <1>3, <2>1, MotorOffStep, Kept
  <2>3. CalibratingAt(r + 1)'
    BY <1>3, <1>10, <2>2 DEF CalibratingAt
  <2>4. QED
    BY <1>4, <1>10, <2>2, <2>3
<1>11. CASE r = 8
  <2> DEFINE e == <<"Copy", "Return", "ScanMBR">>
  <2>1. RegisterDevice /\ Locks /\ Quiet /\ TrackKnown
    BY <1>1, <1>2, <1>11, HeadsOfParts, StepOfHead DEF CalibratingAt
  <2>2. /\ Types' /\ Locks' /\ Quiet' /\ TrackKnown' /\ call'.op = "Read" /\ status' = "ready"
        /\ todo' = FirstRead
    <3>1. /\ Types' /\ todo' = Tail(todo) /\ call'.op = "Read"
          /\ UNCHANGED <<motorEnabled, currentTrack, status, fdc, drive, late>>
      BY <2>1, RegisterDeviceStep
    <3>2. Locks' /\ Quiet' /\ TrackKnown'
      BY <2>1, <3>1, Kept
    <3>3. Tail(todo) = FirstRead
      BY <1>2, <1>11
    <3>4. QED
      BY <1>3, <3>1, <3>2, <3>3
  <2>3. FirstRead = Rest(Transfer, 1, e) /\ e \in TransferEnds /\ e # <<"Return">>
    BY DEF FirstRead, TransferEnds, CopyEnds
  <2> HIDE DEF e
  <2>4. TransferringAt(1, e)'
    BY <2>2, <2>3 DEF TransferringAt, TransferAt, TrackKnown
  <2>5. QED
    BY <2>2, <2>3, <2>4 DEF FloppyInv, Phases, Transferring
<1>12. QED
  BY <1>5, <1>6, <1>7, <1>8, <1>9, <1>10, <1>11

\* A step of a transfer keeps what the later ones count on.
LEMMA TransferKept ==
  ASSUME NEW r \in 2..8, r # 7, TransferAt(r), r \in {4, 6},
         UNCHANGED <<call, currentTrack, page, buffer, dma, medium, fdc>>
  PROVE  TransferAt(r + 1)'
<1>1. Target' = Target
  BY Kept
<1>2. Programmed => Programmed'
  BY Kept
<1>3. Moved => Moved'
  BY Kept
<1>4. TransferUnderWay => TransferUnderWay'
  BY <1>1, <1>2, <1>3 DEF TransferUnderWay
<1>5. QED
  BY <1>1, <1>2, <1>3, <1>4 DEF TransferAt

LEMMA TransferringStep ==
  ASSUME Types, Transferring, DriverStep
  PROVE  FloppyInv'
<1>1. PICK r \in 1..8, e \in TransferEnds : TransferringAt(r, e)
  BY DEF Transferring
<1>2. /\ Head(todo) = Transfer[r] /\ Tail(todo) = Rest(Transfer, r + 1, e)
      /\ Rest(Transfer, 9, e) = e
  <2>1. Walks(Transfer, 8, e) /\ todo = Rest(Transfer, r, e)
    BY <1>1, Ends, NextOfPart DEF TransferringAt
  <2>2. Rest(Transfer, 9, e) = e
    BY <2>1 DEF Walks
  <2>3. r \in 1..8
    BY <1>1
  <2>4. Head(todo) = Transfer[r] /\ Tail(todo) = Rest(Transfer, r + 1, e)
    BY <2>1, <2>3, WalkOn
  <2>5. QED
    BY <2>2, <2>4
<1>3. /\ status = "ready" /\ motorEnabled \in Nat /\ MaxLocks \in Nat
      /\ call.op = IF e = <<"Return">> THEN "Write" ELSE "Read"
      /\ call.op \in {"Read", "Write"}
      /\ ~late => drive.track = currentTrack /\ TransferAt(r)
  BY <1>1, StepOfHead, FloppyAssumption DEF TransferringAt, Locks, CallLocks
<1>4. ASSUME r # 8, Types', TransferringAt(r + 1, e)'
      PROVE  FloppyInv'
  <2>1. r + 1 \in 1..8 /\ e \in TransferEnds
    BY <1>1, <1>4
  <2>2. QED
    BY <1>4, <2>1 DEF FloppyInv, Phases, Transferring
<1>5. CASE r = 1
  <2>1. MotorOn /\ Locks /\ Quiet
    BY <1>1, <1>2, <1>5, HeadsOfParts, StepOfHead DEF TransferringAt
  <2>2. /\ Types' /\ CallLocks' /\ Quiet' /\ todo' = Rest(Transfer, r + 1, e)
        /\ UNCHANGED <<call, currentTrack, status, page, buffer, late>>
        /\ drive'.track = drive.track
    BY <1>2, <2>1, MotorOnStep, Kept DEF Locks
  <2>3. ~late' => drive'.track = currentTrack' /\ TransferAt(r + 1)'
    BY <1>3, <1>5, <2>2 DEF TransferAt
  <2>4. TransferringAt(r + 1, e)'
    BY <1>3, <1>5, <2>2, <2>3 DEF TransferringAt
  <2>5. QED
    BY <1>4, <1>5, <2>2, <2>4
<1>6. CASE r = 2
  <2>1. Seek /\ CallLocks /\ Quiet
    BY <1>1, <1>2, <1>6, HeadsOfParts, StepOfHead DEF TransferringAt
  <2>2. /\ Types'
        /\ UNCHANGED <<call, currentTrack, status, page, buffer, late, drive, motorEnabled, fdc>>
    BY <2>1, SeekStep
  <2>3. CallLocks' /\ Quiet' /\ Target' = Target
    BY <2>1, <2>2, Kept
  <2>4. Rest(Transfer, 3, e) \in Programs /\ Tail(todo) = Rest(Transfer, 3, e)
    <3>1. Walks(Transfer, 8, e)
      BY <1>1, Ends, NextOfPart
    <3>2. QED
      BY <1>2, <1>6, <3>1 DEF Walks
  <2>5. CASE currentTrack = Target[1] /\ todo' = <<>> \o Tail(todo)
    <3>1. todo' = Rest(Transfer, r + 1, e)
      BY <1>6, <2>4, <2>5, ConcatEmptySeq DEF Programs
    <3>2. ~late' => drive'.track = currentTrack' /\ TransferAt(r + 1)'
      BY <1>3, <1>6, <2>2, <2>3, <2>5 DEF TransferAt
    <3>3. TransferringAt(r + 1, e)'
      BY <1>3, <1>6, <2>2, <2>3, <3>1, <3>2 DEF TransferringAt
    <3>4. QED
      BY <1>4, <1>6, <2>2, <3>3
  <2>6. CASE todo' = SeekSteps \o Tail(todo)
    <3>1. todo' = Rest(SeekSteps, 1, Rest(Transfer, 3, e))
      BY <2>4, <2>6, NextOfPart DEF Walks
    <3>2. ~late' /\ call'.op = "Write" => page' = buffer'
      BY <1>3, <2>2 DEF TransferAt
    <3>3. SeekingAt(1, e)'
      BY <1>3, <2>2, <2>3, <3>1, <3>2 DEF SeekingAt
    <3>4. e \in TransferEnds
      BY <1>1
    <3>5. QED
      BY <2>2, <3>3, <3>4 DEF FloppyInv, Phases, Seeking
  <2>7. QED
    BY <2>1, <2>5, <2>6, SeekStep
<1>7. CASE r = 3
  <2>1. StartDMA /\ CallLocks /\ Quiet
    BY <1>1, <1>2, <1>7, HeadsOfParts, StepOfHead DEF TransferringAt
  <2>2. /\ Types' /\ todo' = Rest(Transfer, r + 1, e) /\ Programmed'
        /\ UNCHANGED <<call, currentTrack, status, page, buffer, late, drive, motorEnabled, fdc>>
    BY <1>2, <2>1, StartDMAStep
  <2>3. CallLocks' /\ Quiet' /\ Target' = Target
    BY <2>1, <2>2, Kept
  <2>4. ~late' => drive'.track = currentTrack' /\ TransferAt(r + 1)'
    BY <1>3, <1>7, <2>2, <2>3 DEF TransferAt
  <2>5. TransferringAt(r + 1, e)'
    BY <1>3, <1>7, <2>2, <2>3, <2>4 DEF TransferringAt
  <2>6. QED
    BY <1>4, <1>7, <2>2, <2>5
<1>8. CASE r = 4
  <2>1. Simple /\ CallLocks /\ Quiet
    BY <1>1, <1>2, <1>8, HeadsOfParts, StepOfHead DEF TransferringAt
  <2>2. /\ Types' /\ Quiet' /\ todo' = Rest(Transfer, r + 1, e)
        /\ UNCHANGED <<call, currentTrack, status, page, buffer, motorEnabled, dma, medium>>
        /\ drive'.track = drive.track /\ (late => late')
    BY <1>2, <2>1, SimpleStep
  <2>3. CallLocks' /\ Target' = Target /\ (Programmed => Programmed')
    BY <2>1, <2>2, Kept
  <2>4. ~late' => drive'.track = currentTrack' /\ TransferAt(r + 1)'
    BY <1>3, <1>8, <2>2, <2>3 DEF TransferAt
  <2>5. TransferringAt(r + 1, e)'
    BY <1>3, <1>8, <2>2, <2>3, <2>4 DEF TransferringAt
  <2>6. QED
    BY <1>4, <1>8, <2>2, <2>5
<1>9. CASE r = 5
  <2>1. Command /\ CallLocks /\ Head(todo) = "Transfer"
    BY <1>1, <1>2, <1>9, HeadsOfParts, StepOfHead DEF TransferringAt
  <2>2. /\ Types' /\ todo' = Rest(Transfer, r + 1, e)
        /\ UNCHANGED <<call, currentTrack, status, page, buffer, motorEnabled, dma, medium, drive>>
        /\ ~late' => ~late /\ fdc'.phase = "busy" /\ fdc'.command = <<call.op>> \o Target
    BY <1>2, <2>1, CommandStep
  <2>3. CallLocks' /\ Target' = Target /\ (Programmed => Programmed')
    BY <2>1, <2>2, Kept
  <2>4. ~late' => drive'.track = currentTrack' /\ TransferAt(r + 1)'
    <3>1. ~late' => TransferUnderWay'
      BY <1>3, <1>9, <2>2, <2>3 DEF TransferAt, TransferUnderWay
    <3>2. QED
      BY <1>3, <1>9, <2>2, <2>3, <3>1 DEF TransferAt
  <2>5. TransferringAt(r + 1, e)'
    BY <1>3, <1>9, <2>2, <2>3, <2>4 DEF TransferringAt
  <2>6. QED
    BY <1>4, <1>9, <2>2, <2>5
<1>10. CASE r = 6
  <2>1. WaitIRQ /\ CallLocks
    BY <1>1, <1>2, <1>10, HeadsOfParts, StepOfHead DEF TransferringAt
  <2>2. /\ Types' /\ todo' = Rest(Transfer, r + 1, e)
        /\ UNCHANGED <<call, currentTrack, status, page, buffer, motorEnabled, dma, medium, drive,
                       fdc, late>>
    BY <1>2, <2>1, WaitStep
  <2>3. CallLocks'
    BY <2>1, <2>2, Kept
  <2>4. ~late' => drive'.track = currentTrack' /\ TransferAt(r + 1)'
    BY <1>3, <1>10, <2>2, TransferKept
  <2>5. TransferringAt(r + 1, e)'
    BY <1>3, <1>10, <2>2, <2>3, <2>4 DEF TransferringAt
  <2>6. QED
    BY <1>4, <1>10, <2>2, <2>5
<1>11. CASE r = 7
  <2>1. Result /\ CallLocks
    BY <1>1, <1>2, <1>11, HeadsOfParts, StepOfHead DEF TransferringAt
  <2>2. /\ Types'
        /\ UNCHANGED <<buffer, motorEnabled, currentTrack, page, drive, medium>>
        /\ call'.op = call.op /\ call'.lba = call.lba
        /\ ~late' => ~late /\ fdc.phase = "result" /\ fdc'.phase = "idle" /\ call'.ok = fdc.ok
        /\ \/ call'.ok /\ status' = "ready" /\ todo' = Tail(todo)
           \/ ~call'.ok /\ todo' = Failed(todo)
    BY <1>3, <2>1, ResultStep
  <2>3. CallLocks' /\ Quiet' /\ (Moved => Moved')
    BY <2>1, <2>2, Kept DEF Quiet
  <2>4. CASE call'.ok /\ status' = "ready" /\ todo' = Tail(todo)
    <3>1. ~late' => Moved
      <4>1. ~late' => TransferUnderWay /\ fdc.phase = "result"
        BY <1>3, <1>11, <2>2 DEF TransferAt
      <4>2. ~late' => fdc.ok
        BY <2>2, <2>4, Zenon
      <4>3. "result" # "busy"
        OBVIOUS
      <4>4. QED
        BY <4>1, <4>2, <4>3, Zenon DEF TransferUnderWay
    <3>2. ~late' => drive'.track = currentTrack' /\ TransferAt(r + 1)'
      BY <1>3, <1>11, <2>2, <2>3, <3>1 DEF TransferAt
    <3>3. TransferringAt(r + 1, e)'
      BY <1>2, <1>3, <1>11, <2>2, <2>3, <2>4, <3>2 DEF TransferringAt
    <3>4. QED
      BY <1>4, <1>11, <2>2, <3>3
  <2>5. CASE ~call'.ok /\ todo' = Failed(todo)
    <3>1. PICK f \in ReturnEnds : Failed(todo) = Rest(FailSteps, 1, f)
      BY FailedRest
    <3>2. TrackKnown'
      BY <1>3, <2>2 DEF TrackKnown
    <3>3. FailingAt(1, f)'
      BY <2>3, <2>5, <3>1, <3>2 DEF FailingAt
    <3>4. QED
      BY <2>2, <3>1, <3>3 DEF FloppyInv, Phases, Failing
  <2>6. QED
    BY <2>2, <2>4, <2>5
<1>12. CASE r = 8
  <2>1. MotorOff /\ CallLocks /\ Quiet
    BY <1>1, <1>2, <1>12, HeadsOfParts, StepOfHead DEF TransferringAt
  <2>2. /\ Types' /\ todo' = e /\ motorEnabled' = motorEnabled - 1
        /\ UNCHANGED <<call, buffer, currentTrack, status, page, medium, fdc, late>>
        /\ drive'.track = drive.track
    <3>1. Tail(todo) = e
      BY <1>2, <1>12
    <3>2. QED
      BY <1>3, <2>1, <3>1, MotorOffStep
  <2>3. Locks' /\ Quiet' /\ (Moved => Moved') /\ Target' = Target
    BY <2>1, <2>2, Kept
  <2>4. TrackKnown'
    BY <1>3, <2>2 DEF TrackKnown
  <2>5. ~late => Moved /\ (call.op = "Write" => page = buffer)
    BY <1>3, <1>12 DEF TransferAt
  <2>6. CASE e = <<"Return">>
    <3>1. ~late' => Target' \in Places /\ medium'[Target'] = buffer'
      BY <1>3, <2>2, <2>3, <2>5, <2>6 DEF Moved
    <3>2. Returning'
      BY <2>2, <2>3, <2>4, <2>6, <3>1 DEF Returning, ReturnEnds
    <3>3. QED
      BY <2>2, <3>2 DEF FloppyInv, Phases
  <2>7. CASE e # <<"Return">>
    <3>1. e \in CopyEnds
      BY <1>1, <2>7 DEF TransferEnds
    <3>2. Copying'
      BY <1>3, <2>2, <2>3, <2>4, <2>5, <2>7, <3>1 DEF Copying
    <3>3. QED
      BY <2>2, <3>2 DEF FloppyInv, Phases
  <2>8. QED
    BY <2>6, <2>7
<1>13. QED
  BY <1>1, <1>5, <1>6, <1>7, <1>8, <1>9, <1>10, <1>11, <1>12

LEMMA SeekingStep ==
  ASSUME Types, Seeking, DriverStep
  PROVE  FloppyInv'
<1>1. PICK r \in 1..4, e \in TransferEnds : SeekingAt(r, e)
  BY DEF Seeking
<1> DEFINE x == Rest(Transfer, 3, e)
<1>2. /\ Head(todo) = SeekSteps[r] /\ Tail(todo) = Rest(SeekSteps, r + 1, x)
      /\ Rest(SeekSteps, 5, x) = x
  <2>1. x \in Programs
    <3>1. Walks(Transfer, 8, e)
      BY <1>1, Ends, NextOfPart
    <3>2. QED
      BY <3>1 DEF Walks
  <2>2. todo = Rest(SeekSteps, r, x)
    BY <1>1 DEF SeekingAt
  <2> HIDE DEF x
  <2>3. Walks(SeekSteps, 4, x)
    BY <2>1, NextOfPart
  <2>4. Rest(SeekSteps, 5, x) = x
    BY <2>3 DEF Walks
  <2>5. r \in 1..4
    BY <1>1
  <2>6. Head(todo) = SeekSteps[r] /\ Tail(todo) = Rest(SeekSteps, r + 1, x)
    BY <2>2, <2>3, <2>5, WalkOn
  <2>7. QED
    BY <2>4, <2>6
<1>3. /\ status = "ready" /\ CallLocks
      /\ call.op = IF e = <<"Return">> THEN "Write" ELSE "Read"
      /\ call.op \in {"Read", "Write"}
      /\ ~late /\ call.op = "Write" => page = buffer
  BY <1>1 DEF SeekingAt
<1>4. ASSUME r # 4, Types', SeekingAt(r + 1, e)'
      PROVE  FloppyInv'
  <2>1. r + 1 \in 1..4 /\ e \in TransferEnds
    BY <1>1, <1>4
  <2>2. QED
    BY <1>4, <2>1 DEF FloppyInv, Phases, Seeking
<1>5. CASE r = 1
  <2>1. Simple /\ Quiet
    BY <1>1, <1>2, <1>5, HeadsOfParts, StepOfHead DEF SeekingAt
  <2>2. /\ Types' /\ Quiet' /\ todo' = Rest(SeekSteps, r + 1, x)
        /\ UNCHANGED <<call, status, page, buffer, motorEnabled>> /\ (late => late')
    BY <1>2, <2>1, SimpleStep
  <2>3. CallLocks'
    BY <1>3, <2>2, Kept
  <2>4. SeekingAt(r + 1, e)'
    BY <1>3, <1>5, <2>2, <2>3 DEF SeekingAt
  <2>5. QED
    BY <1>4, <1>5, <2>2, <2>4
<1>6. CASE r = 2
  <2>1. Command /\ Head(todo) = "SeekTo"
    BY <1>1, <1>2, <1>6, HeadsOfParts, StepOfHead
  <2>2. /\ Types' /\ todo' = Rest(SeekSteps, r + 1, x)
        /\ UNCHANGED <<call, status, page, buffer, motorEnabled>>
        /\ ~late' => ~late /\ fdc'.phase = "busy" /\ fdc'.command = <<"Seek", Target[1]>>
    BY <1>2, <2>1, CommandStep
  <2>3. CallLocks' /\ Target' = Target
    BY <1>3, <2>2, Kept
  <2>4. ~late' => SeekUnderWay(Target[1])'
    BY <2>2, <2>3 DEF SeekUnderWay
  <2>5. SeekingAt(r + 1, e)'
    BY <1>3, <1>6, <2>2, <2>3, <2>4 DEF SeekingAt
  <2>6. QED
    BY <1>4, <1>6, <2>2, <2>5
<1>7. CASE r = 3
  <2>1. WaitIRQ /\ (~late => SeekUnderWay(Target[1]))
    BY <1>1, <1>2, <1>7, HeadsOfParts, StepOfHead DEF SeekingAt
  <2>2. /\ Types' /\ todo' = Rest(SeekSteps, r + 1, x)
        /\ UNCHANGED <<call, status, page, buffer, motorEnabled, fdc, drive, late>>
    BY <1>2, <2>1, WaitStep
  <2>3. CallLocks' /\ Target' = Target
    BY <1>3, <2>2, Kept
  <2>4. ~late' => SeekUnderWay(Target[1])'
    BY <2>1, <2>2, <2>3 DEF SeekUnderWay
  <2>5. SeekingAt(r + 1, e)'
    BY <1>3, <1>7, <2>2, <2>3, <2>4 DEF SeekingAt
  <2>6. QED
    BY <1>4, <1>7, <2>2, <2>5
<1>8. CASE r = 4
  <2>1. SeekResult /\ (~late => SeekUnderWay(Target[1]))
    BY <1>1, <1>2, <1>8, HeadsOfParts, StepOfHead DEF SeekingAt
  <2>2. /\ Types' /\ todo' = x
        /\ UNCHANGED <<call, page, buffer, motorEnabled, drive>>
        /\ ~late' => ~late /\ fdc.phase = "sense" /\ fdc'.phase = "idle"
        /\ status' = "ready" => currentTrack' = Target[1]
    <3>1. Tail(todo) = x
      BY <1>2, <1>8
    <3>2. call.op # "Init"
      BY <1>3
    <3> HIDE DEF x
    <3>3. QED
      BY <2>1, <3>1, <3>2, SeekResultStep
  <2>3. CallLocks' /\ Target' = Target /\ Quiet'
    BY <1>3, <2>2, Kept DEF Quiet
  <2>4. ~late' /\ status' = "ready" => drive'.track = currentTrack' /\ TransferAt(3)'
    <3>1. ~late' => drive.track = Target[1]
      BY <2>1, <2>2 DEF SeekUnderWay
    <3>2. ~late' /\ call'.op = "Write" => page' = buffer'
      BY <1>3, <2>2
    <3>3. QED
      BY <2>2, <2>3, <3>1, <3>2 DEF TransferAt
  <2>5. TransferringAt(3, e)'
    BY <1>3, <2>2, <2>3, <2>4 DEF TransferringAt
  <2>6. e \in TransferEnds
    BY <1>1
  <2>7. QED
    BY <2>2, <2>5, <2>6 DEF FloppyInv, Phases, Transferring
<1>9. QED
  BY <1>1, <1>5, <1>6, <1>7, <1>8

LEMMA FillingStep ==
  ASSUME Types, Filling, DriverStep
  PROVE  FloppyInv'
<1> DEFINE e == <<"Return">>
           x == Rest(Transfer, 1, e)
<1>1. x \in Programs /\ "Fill" \in StepNames
  <2>1. Walks(Transfer, 8, e)
    BY Ends, NextOfPart DEF ReturnEnds
  <2> HIDE DEF e
  <2>2. QED
    BY <2>1 DEF Walks, StepNames
<1>2. Head(todo) = "Fill" /\ Tail(todo) = x
  <2>1. todo = <<"Fill">> \o x /\ x \in Seq(StepNames)
    BY <1>1 DEF Filling, Programs
  <2> HIDE DEF x
  <2>2. QED
    BY <1>1, <2>1, Pushed
<1>3. Copy
  BY <1>2, StepOfHead
<1>4. /\ Types' /\ todo' = x /\ page' = buffer'
      /\ UNCHANGED <<call, motorEnabled, currentTrack, status, fdc, drive, late>>
  <2> HIDE DEF x
  <2>1. QED
    BY <1>2, <1>3, CopyStep
<1>5. Locks' /\ Quiet' /\ TrackKnown' /\ call'.op = "Write" /\ status' = "ready"
  BY <1>4, Kept DEF Filling
<1>6. ~late' => drive'.track = currentTrack' /\ TransferAt(1)'
  BY <1>4, <1>5 DEF TrackKnown, TransferAt
<1>7. TransferringAt(1, e)'
  BY <1>4, <1>5, <1>6 DEF TransferringAt
<1>8. QED
  BY <1>4, <1>7 DEF FloppyInv, Phases, Transferring, TransferEnds

LEMMA CopyingStep ==
  ASSUME Types, Copying, DriverStep
  PROVE  FloppyInv'
<1>1. Head(todo) = "Copy" /\ Tail(todo) \in ReturnEnds
  BY Ends DEF Copying
<1>2. Copy
  BY <1>1, StepOfHead
<1>3. /\ Types' /\ todo' \in ReturnEnds /\ page' = buffer' /\ page' = page
      /\ UNCHANGED <<call, motorEnabled, currentTrack, status, fdc, drive, late, medium>>
  BY <1>1, <1>2, CopyStep
<1>4. Locks' /\ Quiet' /\ TrackKnown' /\ Target' = Target
  BY <1>3, Kept DEF Copying
<1>5. ~late' => Target' \in Places /\ medium'[Target'] = buffer'
  BY <1>3, <1>4 DEF Copying, Moved
<1>6. QED
  BY <1>3, <1>4, <1>5 DEF FloppyInv, Phases, Returning

LEMMA ReturningStep ==
  ASSUME Types, Returning, DriverStep
  PROVE  FloppyInv'
<1>1. Head(todo) = "Return" /\ Tail(todo) \in {<<>>, <<"ScanMBR">>}
  BY Ends DEF Returning
<1>2. Return
  BY <1>1, StepOfHead
<1>3. /\ Types' /\ todo' \in {<<>>, <<"ScanMBR">>}
      /\ UNCHANGED <<motorEnabled, currentTrack, status, fdc, drive, late>>
  BY <1>1, <1>2, ReturnStep
<1>4. Locks' /\ Quiet' /\ TrackKnown'
  BY <1>3, Kept DEF Returning
<1>5. todo' # <<"MotorOn">> /\ todo' # <<"MotorOff">>
  BY <1>3
<1>6. QED
  BY <1>3, <1>4, <1>5 DEF FloppyInv, Phases, Between

LEMMA BetweenStep ==
  ASSUME Types, Between, DriverStep
  PROVE  FloppyInv'
<1>1. todo \in {<<"ScanMBR">>, <<"MotorOn">>, <<"MotorOff">>}
  BY StepOfHead DEF Between
<1>2. Tail(todo) = <<>>
  <2>1. \A step \in StepNames : Tail(<<step>>) = <<>>
    OBVIOUS
  <2>2. \E step \in StepNames : todo = <<step>>
    BY <1>1 DEF StepNames
  <2>3. QED
    BY <2>1, <2>2
<1>3. Locks /\ Quiet /\ TrackKnown /\ motorEnabled \in Nat /\ MaxLocks \in Nat
  BY FloppyAssumption DEF Between, Locks
<1>4. /\ Types' /\ Quiet' /\ TrackKnown' /\ Locks' /\ todo' = <<>>
  <2>1. CASE todo = <<"ScanMBR">>
    <3>1. ScanMBR
      BY <2>1, StepOfHead
    <3>2. /\ Types' /\ todo' = <<>>
          /\ UNCHANGED <<motorEnabled, currentTrack, status, fdc, drive, late>>
      BY <1>2, <3>1, ScanMBRStep
    <3>3. QED
      BY <1>3, <3>2, Kept
  <2>2. CASE todo = <<"MotorOn">>
    <3>1. MotorOn /\ motorEnabled < MaxLocks
      BY <2>2, StepOfHead DEF Between
    <3>2. /\ Types' /\ todo' = <<>> /\ motorEnabled' = motorEnabled + 1
          /\ UNCHANGED <<currentTrack, status, fdc, late>> /\ drive'.track = drive.track
      BY <1>2, <1>3, <3>1, MotorOnStep DEF Locks
    <3>3. Locks'
      BY <1>3, <3>1, <3>2 DEF Locks
    <3>4. QED
      BY <1>3, <3>2, <3>3, Kept
  <2>3. CASE todo = <<"MotorOff">>
    <3>1. MotorOff
      BY <2>3, StepOfHead
    <3>2. /\ Types' /\ todo' = <<>> /\ motorEnabled > 0 /\ motorEnabled' = motorEnabled - 1
          /\ UNCHANGED <<currentTrack, status, fdc, late>> /\ drive'.track = drive.track
      BY <1>2, <1>3, <3>1, MotorOffStep
    <3>3. Locks'
      BY <1>3, <3>2 DEF Locks
    <3>4. QED
      BY <1>3, <3>2, <3>3, Kept
  <2>4. QED
    BY <1>1, <2>1, <2>2, <2>3
<1>5. <<>> # <<"MotorOn">> /\ <<>> # <<"MotorOff">>
  OBVIOUS
<1>6. QED
  BY <1>4, <1>5 DEF FloppyInv, Phases, Between

LEMMA DriverKeepsInv ==
  ASSUME FloppyInv, DriverStep
  PROVE  FloppyInv'
BY StartingStep, CalibratingStep, TransferringStep, SeekingStep, FillingStep, CopyingStep,
   FailingStep, ReturningStep, BetweenStep DEF FloppyInv, Phases

\* No call is on while nothing is left to do.
LEMMA IdleBetween ==
  ASSUME FloppyInv, todo = <<>>
  PROVE  Between
<1>1. ~Starting
  <2>1. ASSUME NEW r \in 1..6, StartingAt(r) PROVE FALSE
    <3> DEFINE x == Rest(Calibration, 1, FirstRead)
    <3>1. Walks(Reset, 6, x) /\ todo = Rest(Reset, r, x)
      BY <2>1, WholePrograms, NextOfPart DEF StartingAt
    <3> HIDE DEF x
    <3>2. QED
      BY <3>1, WalkOn
  <2>2. QED
    BY <2>1 DEF Starting
<1>2. ~Calibrating
  <2>1. ASSUME NEW r \in 1..8, CalibratingAt(r) PROVE FALSE
    <3>1. Walks(Calibration, 8, FirstRead) /\ todo = Rest(Calibration, r, FirstRead)
      BY <2>1, WholePrograms, NextOfPart DEF CalibratingAt
    <3>2. QED
      BY <3>1, WalkOn
  <2>2. QED
    BY <2>1 DEF Calibrating
<1>3. ~Transferring
  <2>1. ASSUME NEW r \in 1..8, NEW e \in TransferEnds, TransferringAt(r, e) PROVE FALSE
    <3>1. Walks(Transfer, 8, e) /\ todo = Rest(Transfer, r, e)
      BY <2>1, Ends, NextOfPart DEF TransferringAt
    <3>2. QED
      BY <3>1, WalkOn
  <2>2. QED
    BY <2>1 DEF Transferring
<1>4. ~Seeking
  <2>1. ASSUME NEW r \in 1..4, NEW e \in TransferEnds, SeekingAt(r, e) PROVE FALSE
    <3> DEFINE x == Rest(Transfer, 3, e)
    <3>1. x \in Programs
      <4>1. Walks(Transfer, 8, e)
        BY Ends, NextOfPart
      <4>2. QED
        BY <4>1 DEF Walks
    <3>2. todo = Rest(SeekSteps, r, x)
      BY <2>1 DEF SeekingAt
    <3> HIDE DEF x
    <3>3. Walks(SeekSteps, 4, x)
      BY <3>1, NextOfPart
    <3>4. QED
      BY <3>2, <3>3, WalkOn
  <2>2. QED
    BY <2>1 DEF Seeking
<1>5. ~Filling
  <2> DEFINE e == <<"Return">>
             x == Rest(Transfer, 1, e)
  <2>1. x \in Seq(StepNames) /\ "Fill" \in StepNames
    <3>1. Walks(Transfer, 8, e)
      BY Ends, NextOfPart DEF ReturnEnds
    <3> HIDE DEF e
    <3>2. QED
      BY <3>1 DEF Walks, StepNames, Programs
  <2>2. Filling => todo = <<"Fill">> \o x
    BY DEF Filling
  <2> HIDE DEF x
  <2>3. QED
    BY <2>1, <2>2, Pushed
<1>6. ~Copying /\ ~Returning
  BY Ends DEF Copying, Returning
<1>7. ~Failing
  <2>1. ASSUME NEW r \in 1..7, NEW e \in ReturnEnds, FailingAt(r, e) PROVE FALSE
    <3>1. Walks(FailSteps, 7, e) /\ todo = Rest(FailSteps, r, e)
      BY <2>1, Ends, NextOfPart DEF FailingAt
    <3>2. QED
      BY <3>1, WalkOn
  <2>2. QED
    BY <2>1 DEF Failing
<1>8. QED
  BY <1>1, <1>2, <1>3, <1>4, <1>5, <1>6, <1>7 DEF FloppyInv, Phases

LEMMA BeginKeepsInv ==
  ASSUME NEW op \in {"Read", "Write"}, NEW p \in partitions, NEW lba \in 0..Total,
         FloppyInv, Begin(op, p, lba)
  PROVE  FloppyInv'
<1>1. Between /\ Types /\ ~late /\ status = "ready" /\ todo = <<>>
  BY IdleBetween DEF Begin, Idle, FloppyInv
<1>2. /\ Types'
      /\ UNCHANGED <<motorEnabled, currentTrack, page, dma, medium, fdc, drive, late>>
      /\ \/ todo' = todo
         \/ todo' = Steps(op) /\ call'.op = op /\ status' = status
  BY <1>1, BeginStep
<1>3. Locks' /\ Quiet' /\ TrackKnown'
  BY <1>1, <1>2, Kept DEF Between, TrackKnown
<1>4. CASE todo' = todo
  <2>1. todo' = <<>> /\ <<>> # <<"MotorOn">> /\ <<>> # <<"MotorOff">>
    BY <1>1, <1>4
  <2>2. QED
    BY <1>2, <1>3, <2>1 DEF FloppyInv, Phases, Between
<1>5. CASE todo' = Steps(op) /\ call'.op = op /\ status' = status
  <2>1. CASE op = "Read"
    <3> DEFINE e == <<"Copy", "Return">>
    <3>1. todo' = Rest(Transfer, 1, e) /\ e \in TransferEnds /\ e # <<"Return">>
      BY <1>5, <2>1, WholePrograms DEF TransferEnds, CopyEnds
    <3> HIDE DEF e
    <3>2. TransferringAt(1, e)'
      BY <1>1, <1>3, <1>5, <2>1, <3>1 DEF TransferringAt, TransferAt, TrackKnown
    <3>3. QED
      BY <1>2, <3>1, <3>2 DEF FloppyInv, Phases, Transferring
  <2>2. CASE op = "Write"
    <3>1. Filling'
      BY <1>1, <1>3, <1>5, <2>2, WholePrograms DEF Filling
    <3>2. QED
      BY <1>2, <3>1 DEF FloppyInv, Phases
  <2>3. QED
    BY <2>1, <2>2
<1>6. QED
  BY <1>2, <1>4, <1>5

LEMMA LocksKeepInv ==
  ASSUME FloppyInv, Lock \/ Unlock
  PROVE  FloppyInv'
<1>1. Between /\ Types
  BY IdleBetween DEF Lock, Unlock, Idle, FloppyInv
<1>2. /\ UNCHANGED <<call, buffer, motorEnabled, currentTrack, retryCounter, partitions, status,
                     page, state, raised, dma, fdc, drive, medium, late, dropped>>
      /\ \/ todo' = <<"MotorOn">> /\ motorEnabled < MaxLocks
         \/ todo' = <<"MotorOff">> /\ motorEnabled > 0
  BY DEF Lock, Unlock
<1>3. Types'
  BY <1>1, <1>2, SameTypes DEF Types, data
<1>4. Locks' /\ Quiet' /\ TrackKnown'
  BY <1>1, <1>2, Kept DEF Between
<1>5. <<"MotorOn">> # <<"MotorOff">>
  OBVIOUS
<1>6. Between'
  BY <1>2, <1>4, <1>5 DEF Between
<1>7. QED
  BY <1>3, <1>6 DEF FloppyInv, Phases

-----------------------------------------------------------------------------
(* The interrupts and the drive.                                           *)

\* A command that is under way is a seek, or a transfer of its kind.
LEMMA Kinds ==
  ASSUME NEW c \in Commands
  PROVE  IF c[1] = "Seek" THEN c[2] \in 0..255
         ELSE /\ c[1] \in {"Init", "Read", "Write"} /\ c[2] \in 0..255
              /\ Tail(c) = <<c[2], c[3], c[4]>>
<1>1. CASE c \in {<<"Seek", track>> : track \in 0..255}
  <2>1. PICK track \in 0..255 : c = <<"Seek", track>>
    BY <1>1
  <2>2. QED
    BY <2>1
<1>2. CASE c \in {"Init", "Read", "Write"} \X (0..255) \X (0..1) \X (1..Sectors)
  <2>1. PICK op \in {"Init", "Read", "Write"}, track \in 0..255, head \in 0..1,
             sector \in 1..Sectors : c = <<op, track, head, sector>>
    BY <1>2
  <2>2. /\ c[1] = op /\ c[2] = track /\ c[3] = head /\ c[4] = sector
        /\ Tail(c) = <<track, head, sector>>
    BY <2>1
  <2>3. QED
    BY <2>2
<1>3. QED
  BY <1>1, <1>2 DEF Commands

LEMMA InterruptStep ==
  ASSUME Types, ISR \/ ResetDone
  PROVE  /\ Types' /\ UNCHANGED <<driver, page, dma, drive, medium, late>>
         /\ fdc'.command = fdc.command /\ fdc'.ok = fdc.ok
         /\ fdc'.phase = fdc.phase \/ (fdc.phase = "reset" /\ fdc'.phase = "idle")
<1>1. CASE ISR
  <2>1. /\ UNCHANGED <<driver, page, dma, drive, medium, late, dropped>>
        /\ fdc' = [fdc EXCEPT !.irq = FALSE]
        /\ state' \in {state, "Running"} /\ raised' \in {TRUE, FALSE}
    BY <1>1 DEF ISR
  <2>2. DataTypes' /\ MotorTurns'
    BY <2>1, SameTypes DEF Types, data, driver
  <2>3. /\ DeviceTypes' /\ fdc'.command = fdc.command /\ fdc'.ok = fdc.ok
        /\ fdc'.phase = fdc.phase
    BY <2>1 DEF Types, DeviceTypes
  <2>4. FlagTypes'
    BY <2>1 DEF Types, FlagTypes
  <2>5. QED
    BY <2>1, <2>2, <2>3, <2>4 DEF Types
<1>2. CASE ResetDone
  <2>1. /\ UNCHANGED <<driver, page, dma, drive, medium, late, dropped, state, raised>>
        /\ fdc.phase = "reset" /\ fdc' = [fdc EXCEPT !.phase = "idle", !.irq = TRUE]
    BY <1>2 DEF ResetDone
  <2>2. DataTypes' /\ MotorTurns' /\ FlagTypes'
    BY <2>1, SameTypes DEF Types, data, driver
  <2>3. /\ DeviceTypes' /\ fdc'.command = fdc.command /\ fdc'.ok = fdc.ok
        /\ fdc'.phase = "idle"
    BY <2>1 DEF Types, DeviceTypes
  <2>4. QED
    BY <2>1, <2>2, <2>3 DEF Types
<1>3. QED
  BY <1>1, <1>2

LEMMA SeekDoneStep ==
  ASSUME Types, SeekDone
  PROVE  /\ Types' /\ UNCHANGED <<driver, page, dma, medium, late>>
         /\ fdc.phase = "busy" /\ fdc.command[1] = "Seek"
         /\ fdc'.phase = "sense" /\ drive'.track = fdc.command[2]
<1>1. PICK ok \in BOOLEAN : fdc' = [phase |-> "sense", irq |-> TRUE, ok |-> ok, command |-> <<>>]
  BY DEF SeekDone
<1>2. /\ UNCHANGED <<driver, page, dma, medium, late, dropped, state, raised>>
      /\ fdc.phase = "busy" /\ fdc.command[1] = "Seek"
      /\ drive' = [drive EXCEPT !.track = fdc.command[2]]
  BY DEF SeekDone
<1>3. fdc.command[2] \in 0..255
  <2>1. fdc.command \in Commands
    BY <1>2 DEF Types, DeviceTypes
  <2>2. QED
    BY <1>2, <2>1, Kinds
<1>4. DataTypes' /\ FlagTypes'
  BY <1>2, SameTypes DEF Types, data, driver
<1>5. DeviceTypes' /\ drive'.track = fdc.command[2] /\ drive'.motor = drive.motor
  <2>1. drive' \in [motor: BOOLEAN, track: 0..255]
        /\ drive'.track = fdc.command[2] /\ drive'.motor = drive.motor
    BY <1>2, <1>3 DEF Types, DeviceTypes
  <2>2. fdc' \in [phase: {"idle", "off", "reset", "busy", "sense", "result"},
                  command: {<<>>} \cup Commands, ok: BOOLEAN, irq: BOOLEAN]
        /\ fdc'.phase = "sense"
    BY <1>1
  <2>3. QED
    BY <1>2, <2>1, <2>2 DEF Types, DeviceTypes
<1>6. MotorTurns'
  BY <1>2, <1>5 DEF Types, MotorTurns, driver
<1>7. QED
  BY <1>1, <1>2, <1>4, <1>5, <1>6 DEF Types

LEMMA TransferDoneStep ==
  ASSUME Types, TransferDone
  PROVE  /\ Types' /\ UNCHANGED <<driver, drive, late>>
         /\ fdc.phase = "busy" /\ fdc.command[1] # "Seek" /\ fdc'.phase = "result"
         /\ fdc.command[1] = "Write" => page' = page
         /\ fdc'.ok => LET place == Tail(fdc.command)
                       IN place \in Places /\ medium'[place] = page'
<1> DEFINE place == Tail(fdc.command)
<1>1. /\ UNCHANGED <<driver, drive, late, dropped, state, raised>>
      /\ fdc.phase = "busy" /\ fdc.command[1] # "Seek"
      /\ dma' = [dma EXCEPT !.masked = TRUE]
  BY DEF TransferDone
<1>2. \E ok \in BOOLEAN :
        /\ fdc' = [phase |-> "result", irq |-> TRUE, ok |-> ok, command |-> <<>>]
        /\ page' \in Values /\ medium' \in [Places -> Values]
        /\ fdc.command[1] = "Write" => page' = page
        /\ ok => place \in Places /\ medium'[place] = page'
  <2>1. page \in Values /\ medium \in [Places -> Values]
    BY DEF Types, DataTypes
  <2>2. CASE /\ place \in Places
             /\ fdc' = [phase |-> "result", irq |-> TRUE, ok |-> TRUE, command |-> <<>>]
             /\ IF fdc.command[1] = "Read" THEN page' = medium[place] /\ UNCHANGED medium
                ELSE medium' = [medium EXCEPT ![place] = page] /\ UNCHANGED page
    <3> HIDE DEF place
    <3>1. CASE fdc.command[1] = "Read"
      BY <2>1, <2>2, <3>1
    <3>2. CASE fdc.command[1] # "Read"
      BY <2>1, <2>2, <3>2
    <3>3. QED
      BY <3>1, <3>2
  <2>3. CASE /\ fdc' = [phase |-> "result", irq |-> TRUE, ok |-> FALSE, command |-> <<>>]
             /\ page' \in (IF fdc.command[1] = "Read" THEN Values ELSE {page})
             /\ UNCHANGED medium
    <3> HIDE DEF place
    <3>1. page' \in Values /\ (fdc.command[1] = "Write" => page' = page)
      BY <2>1, <2>3
    <3>2. QED
      BY <2>1, <2>3, <3>1
  <2>4. QED
    BY <2>2, <2>3 DEF TransferDone
<1>3. FlagTypes' /\ MotorTurns'
  BY <1>1, SameTypes DEF Types, driver
<1>4. DataTypes'
  BY <1>1, <1>2 DEF Types, DataTypes, driver
<1>5. DeviceTypes' /\ fdc'.phase = "result"
  <2>1. dma' \in [address: Nat, dir: {"none", "Init", "Read", "Write"}, masked: BOOLEAN]
    BY <1>1 DEF Types, DeviceTypes
  <2>2. fdc' \in [phase: {"idle", "off", "reset", "busy", "sense", "result"},
                  command: {<<>>} \cup Commands, ok: BOOLEAN, irq: BOOLEAN]
        /\ fdc'.phase = "result"
    BY <1>2
  <2>3. QED
    BY <1>1, <2>1, <2>2 DEF Types, DeviceTypes
<1>6. fdc'.ok => place \in Places /\ medium'[place] = page'
  <2>1. PICK ok \in BOOLEAN :
          /\ fdc' = [phase |-> "result", irq |-> TRUE, ok |-> ok, command |-> <<>>]
          /\ ok => place \in Places /\ medium'[place] = page'
    BY <1>2
  <2> HIDE DEF place
  <2>2. fdc'.ok = ok
    BY <2>1
  <2>3. QED
    BY <2>1, <2>2, Zenon
<1>7. QED
  BY <1>1, <1>2, <1>3, <1>4, <1>5, <1>6 DEF Types

LEMMA DriveTypes ==
  ASSUME Types, DriveStep
  PROVE  Types' /\ UNCHANGED <<driver, late>>
BY InterruptStep, SeekDoneStep, TransferDoneStep DEF DriveStep

\* While no command is under way the drive does nothing.
LEMMA QuietDrive ==
  ASSUME Types, Quiet, DriveStep
  PROVE  Quiet' /\ (~late => UNCHANGED <<page, medium, drive, dma>>)
<1>1. CASE ISR \/ ResetDone
  BY <1>1, InterruptStep DEF Quiet
<1>2. CASE SeekDone \/ TransferDone
  <2>1. late /\ late'
    BY <1>2, SeekDoneStep, TransferDoneStep DEF Quiet
  <2>2. QED
    BY <2>1 DEF Quiet
<1>3. QED
  BY <1>1, <1>2 DEF DriveStep

\* A seek that is under way ends at its track.
LEMMA SeekGoesOn ==
  ASSUME NEW track, Types, SeekUnderWay(track), DriveStep
  PROVE  UNCHANGED <<page, medium, dma>> /\
         \/ fdc'.phase = "busy" /\ fdc'.command = <<"Seek", track>>
         \/ fdc'.phase = "sense" /\ drive'.track = track
<1>1. CASE ISR \/ ResetDone
  BY <1>1, InterruptStep DEF SeekUnderWay
<1>2. CASE SeekDone
  BY <1>2, SeekDoneStep DEF SeekUnderWay
<1>3. CASE TransferDone
  BY <1>3, TransferDoneStep DEF SeekUnderWay
<1>4. QED
  BY <1>1, <1>2, <1>3 DEF DriveStep

\* A transfer that is under way moves the sector of the call.
LEMMA TransferGoesOn ==
  ASSUME Types, TransferUnderWay, DriveStep, call.op \in {"Read", "Write"}
  PROVE  TransferUnderWay' /\ UNCHANGED drive /\ (call.op = "Write" => page' = page)
<1> DEFINE a == Target[1]
           b == Target[2]
           c == Target[3]
<1>1. /\ <<call.op>> \o Target = <<call.op, a, b, c>> /\ Target = <<a, b, c>>
  <2>1. call \in Calls /\ call.lba \in 0..(2 * Total - 1)
    BY DEF Types, DataTypes, Calls
  <2>2. Target \in (0..255) \X (0..1) \X (1..Sectors)
    BY <2>1, Addressed DEF Target
  <2>3. QED
    BY <2>1, <2>2, CommandTypes
<1> HIDE DEF a, b, c
<1>2. UNCHANGED call /\ Target' = Target
  BY DriveTypes, Kept DEF driver
<1>3. fdc.phase = "busy" => fdc.command[1] = call.op /\ Tail(fdc.command) = Target
  <2>1. <<call.op, a, b, c>>[1] = call.op /\ Tail(<<call.op, a, b, c>>) = <<a, b, c>>
    OBVIOUS
  <2>2. QED
    BY <1>1, <2>1 DEF TransferUnderWay
<1>4. CASE ISR \/ ResetDone
  <2>1. /\ UNCHANGED <<page, medium, drive, dma>> /\ fdc'.phase = fdc.phase
        /\ fdc'.command = fdc.command /\ fdc'.ok = fdc.ok
    BY <1>4, InterruptStep DEF TransferUnderWay
  <2>2. (Programmed => Programmed') /\ (Moved => Moved')
    BY <1>2, <2>1, Kept
  <2>3. TransferUnderWay'
    BY <1>2, <2>1, <2>2 DEF TransferUnderWay
  <2>4. QED
    BY <2>1, <2>3
<1>5. CASE SeekDone
  BY <1>3, <1>5, SeekDoneStep
<1>6. CASE TransferDone
  <2>1. /\ fdc.phase = "busy" /\ UNCHANGED drive /\ fdc'.phase = "result"
        /\ fdc.command[1] = "Write" => page' = page
        /\ fdc'.ok => Tail(fdc.command) \in Places /\ medium'[Tail(fdc.command)] = page'
    BY <1>6, TransferDoneStep
  <2>2. fdc'.ok => Moved'
    BY <1>2, <1>3, <2>1 DEF Moved
  <2>3. TransferUnderWay'
    BY <2>1, <2>2 DEF TransferUnderWay
  <2>4. QED
    BY <1>3, <2>1, <2>3
<1>7. QED
  BY <1>4, <1>5, <1>6 DEF DriveStep

LEMMA DriveKeepsInv ==
  ASSUME FloppyInv, DriveStep
  PROVE  FloppyInv'
<1>1. Types /\ Types' /\ UNCHANGED <<driver, late>>
  BY DriveTypes DEF FloppyInv
<1>2. UNCHANGED <<todo, call, buffer, motorEnabled, currentTrack, retryCounter, partitions, status>>
  BY <1>1 DEF driver
<1>3. (Locks => Locks') /\ (CallLocks => CallLocks') /\ Target' = Target
  BY <1>2, Kept
<1>4. Quiet => /\ Quiet' /\ (TrackKnown => TrackKnown')
               /\ ~late => UNCHANGED <<page, medium, drive, dma>>
  <2>1. Quiet => Quiet' /\ (~late => UNCHANGED <<page, medium, drive, dma>>)
    BY <1>1, QuietDrive
  <2>2. QED
    BY <1>1, <1>2, <2>1 DEF TrackKnown
<1>5. CASE Starting
  <2>1. PICK r \in 1..6 : StartingAt(r)
    BY <1>5 DEF Starting
  <2>2. StartingAt(r)'
    BY <1>2, <1>3, <1>4, <2>1 DEF StartingAt
  <2>3. QED
    BY <1>1, <2>1, <2>2 DEF FloppyInv, Phases, Starting
<1>6. CASE Calibrating
  <2>1. PICK r \in 1..8 : CalibratingAt(r)
    BY <1>6 DEF Calibrating
  <2>2. IF r \in 4..5 THEN ~late' => SeekUnderWay(0)' ELSE Quiet'
    <3>1. CASE r \in 4..5
      <4>1. ~late => SeekUnderWay(0)
        BY <2>1, <3>1 DEF CalibratingAt
      <4>2. ~late' => SeekUnderWay(0)'
        BY <1>1, <4>1, SeekGoesOn DEF SeekUnderWay
      <4>3. QED
        BY <3>1, <4>2
    <3>2. CASE r \notin 4..5
      BY <1>4, <2>1, <3>2 DEF CalibratingAt
    <3>3. QED
      BY <3>1, <3>2
  <2>3. CalibratingAt(r)'
    BY <1>2, <1>3, <1>4, <2>1, <2>2 DEF CalibratingAt
  <2>4. QED
    BY <1>1, <2>1, <2>3 DEF FloppyInv, Phases, Calibrating
<1>7. CASE Transferring
  <2>1. PICK r \in 1..8, e \in TransferEnds : TransferringAt(r, e)
    BY <1>7 DEF Transferring
  <2>2. /\ r \notin 6..7 => Quiet'
        /\ ~late' /\ status' = "ready" => drive'.track = currentTrack' /\ TransferAt(r)'
    <3>1. CASE r \in 6..7
      <4>1. call.op \in {"Read", "Write"}
        BY <2>1 DEF TransferringAt
      <4>2. ~late /\ status = "ready" => /\ drive.track = currentTrack /\ TransferUnderWay
                                         /\ currentTrack = Target[1]
                                         /\ call.op = "Write" => page = buffer
        BY <2>1, <3>1 DEF TransferringAt, TransferAt
      <4>3. ~late /\ status = "ready" => /\ TransferUnderWay' /\ UNCHANGED drive
                                         /\ call.op = "Write" => page' = page
        BY <1>1, <4>1, <4>2, TransferGoesOn
      <4>4. QED
        BY <1>1, <1>2, <1>3, <3>1, <4>2, <4>3 DEF TransferAt
    <3>2. CASE r \notin 6..7
      <4>1. Quiet
        BY <2>1, <3>2 DEF TransferringAt
      <4>2. Quiet' /\ (~late => UNCHANGED <<page, medium, drive, dma>>)
        BY <1>4, <4>1
      <4>3. ~late => (Programmed => Programmed') /\ (Moved => Moved')
        BY <1>2, <4>2, Kept
      <4>4. QED
        BY <1>1, <1>2, <1>3, <2>1, <3>2, <4>2, <4>3 DEF TransferringAt, TransferAt
    <3>3. QED
      BY <3>1, <3>2
  <2>3. TransferringAt(r, e)'
    BY <1>2, <1>3, <2>1, <2>2 DEF TransferringAt
  <2>4. QED
    BY <1>1, <2>1, <2>3 DEF FloppyInv, Phases, Transferring
<1>8. CASE Seeking
  <2>1. PICK r \in 1..4, e \in TransferEnds : SeekingAt(r, e)
    BY <1>8 DEF Seeking
  <2>2. /\ IF r \in 3..4 THEN ~late' => SeekUnderWay(Target[1])' ELSE Quiet'
        /\ ~late => UNCHANGED page
    <3>1. CASE r \in 3..4
      <4>1. ~late => SeekUnderWay(Target[1])
        BY <2>1, <3>1 DEF SeekingAt
      <4>2. ~late => SeekUnderWay(Target[1])' /\ UNCHANGED page
        BY <1>1, <1>3, <4>1, SeekGoesOn DEF SeekUnderWay
      <4>3. QED
        BY <1>1, <3>1, <4>2
    <3>2. CASE r \notin 3..4
      BY <1>4, <2>1, <3>2 DEF SeekingAt
    <3>3. QED
      BY <3>1, <3>2
  <2>3. SeekingAt(r, e)'
    BY <1>1, <1>2, <1>3, <2>1, <2>2 DEF SeekingAt
  <2>4. QED
    BY <1>1, <2>1, <2>3 DEF FloppyInv, Phases, Seeking
<1>9. CASE Filling
  <2>1. Filling'
    BY <1>2, <1>3, <1>4, <1>9 DEF Filling
  <2>2. QED
    BY <1>1, <2>1 DEF FloppyInv, Phases
<1>10. CASE Copying
  <2>1. ~late' => Moved'
    BY <1>1, <1>2, <1>4, <1>10, Kept DEF Copying
  <2>2. Copying'
    BY <1>2, <1>3, <1>4, <1>10, <2>1 DEF Copying
  <2>3. QED
    BY <1>1, <2>2 DEF FloppyInv, Phases
<1>11. CASE Failing
  <2>1. PICK r \in 1..7, e \in ReturnEnds : FailingAt(r, e)
    BY <1>11 DEF Failing
  <2>2. FailingAt(r, e)'
    BY <1>2, <1>3, <1>4, <2>1 DEF FailingAt
  <2>3. QED
    BY <1>1, <2>1, <2>2 DEF FloppyInv, Phases, Failing
<1>12. CASE Returning
  <2>1. ~late' /\ call'.ok => Target' \in Places /\ medium'[Target'] = buffer'
    BY <1>1, <1>2, <1>3, <1>4, <1>12 DEF Returning
  <2>2. Returning'
    BY <1>2, <1>3, <1>4, <1>12, <2>1 DEF Returning
  <2>3. QED
    BY <1>1, <2>2 DEF FloppyInv, Phases
<1>13. CASE Between
  <2>1. Between'
    BY <1>2, <1>3, <1>4, <1>13 DEF Between
  <2>2. QED
    BY <1>1, <2>1 DEF FloppyInv, Phases
<1>14. QED
  BY <1>5, <1>6, <1>7, <1>8, <1>9, <1>10, <1>11, <1>12, <1>13 DEF FloppyInv, Phases

-----------------------------------------------------------------------------
(* The invariant, and what follows from it.                                *)

LEMMA FloppyInvInit ==
  ASSUME FloppyInit
  PROVE  FloppyInv
<1>1. /\ todo = Init /\ call = NoCall /\ buffer \in Values /\ page \in Values
      /\ motorEnabled = 0 /\ currentTrack = 0
      /\ retryCounter = [op \in {"Read", "Write"} |-> 0]
      /\ state = "Running" /\ raised = FALSE /\ late = FALSE /\ dropped = FALSE
      /\ dma = [address |-> 0, dir |-> "none", masked |-> TRUE]
      /\ partitions = {} /\ status = "ready"
      /\ fdc = [phase |-> "idle", command |-> <<>>, ok |-> TRUE, irq |-> FALSE]
      /\ drive \in [motor : BOOLEAN, track : 0..(Cylinders - 1)]
      /\ medium \in Media
  BY DEF FloppyInit
<1>2. /\ Media \subseteq [Places -> Values] /\ Cylinders \in 1..128
      /\ MaxRetries \in Nat /\ MaxLocks \in Nat
  BY FloppyAssumption
<1>3. DataTypes
  <2>1. call \in Calls
    BY <1>1, Sizes DEF Rated, Calls, NoCall
  <2>2. /\ retryCounter \in [{"Read", "Write"} -> 0..(MaxRetries + 1)]
        /\ \A op \in {"Read", "Write"} : retryCounter[op] <= MaxRetries
    BY <1>1, <1>2
  <2>3. QED
    BY <1>1, <1>2, <2>1, <2>2 DEF DataTypes
<1>4. FlagTypes
  BY <1>1 DEF FlagTypes
<1>5. DeviceTypes
  <2>1. drive \in [motor: BOOLEAN, track: 0..255]
    <3>1. drive.motor \in BOOLEAN /\ drive.track \in 0..(Cylinders - 1)
          /\ drive = [motor |-> drive.motor, track |-> drive.track]
      BY <1>1
    <3>2. drive.track \in 0..255
      BY <1>2, <3>1
    <3>3. QED
      BY <3>1, <3>2
  <2>2. fdc \in [phase: {"idle", "off", "reset", "busy", "sense", "result"},
                 command: {<<>>} \cup Commands, ok: BOOLEAN, irq: BOOLEAN]
        /\ fdc.phase = "idle"
    BY <1>1
  <2>3. QED
    BY <1>1, <2>1, <2>2 DEF DeviceTypes
<1>6. MotorTurns /\ Locks /\ Quiet
  BY <1>1, <1>2 DEF MotorTurns, Locks, Quiet
<1>7. StartingAt(1)
  BY <1>1, <1>6, WholePrograms DEF StartingAt, NoCall
<1>8. QED
  BY <1>3, <1>4, <1>5, <1>6, <1>7 DEF FloppyInv, Phases, Types, Starting

LEMMA FloppyInvNext ==
  ASSUME FloppyInv, [FloppyNext]_floppyVars
  PROVE  FloppyInv'
<1>1. CASE DriverStep
  BY <1>1, DriverKeepsInv
<1>2. CASE DriveStep
  BY <1>2, DriveKeepsInv
<1>3. ASSUME NEW op \in {"Read", "Write"}, NEW p \in partitions, NEW lba \in 0..Total,
             Begin(op, p, lba)
      PROVE  FloppyInv'
  BY <1>3, BeginKeepsInv
<1>4. CASE Lock \/ Unlock
  BY <1>4, LocksKeepInv
<1>5. CASE UNCHANGED floppyVars
  <2>1. Types'
    BY <1>5, SameTypes DEF FloppyInv, Types, data, floppyVars, driver
  <2>2. UNCHANGED <<driver, page, dma, fdc, drive, medium, late>>
    BY <1>5 DEF floppyVars
  <2>3. /\ Target' = Target /\ (Moved <=> Moved') /\ (Programmed <=> Programmed')
        /\ (TransferUnderWay <=> TransferUnderWay') /\ (Quiet <=> Quiet')
        /\ (TrackKnown <=> TrackKnown') /\ (Locks <=> Locks') /\ (CallLocks <=> CallLocks')
    BY <2>2 DEF Target, Moved, Programmed, TransferUnderWay, Quiet, TrackKnown, Locks, CallLocks,
                driver
  <2>4. /\ \A r \in 1..8 : TransferAt(r) <=> TransferAt(r)'
        /\ \A track : SeekUnderWay(track) <=> SeekUnderWay(track)'
    BY <2>2, <2>3 DEF TransferAt, SeekUnderWay, driver
  <2>5. Starting \/ Calibrating => Starting' \/ Calibrating'
    BY <2>2, <2>3, <2>4 DEF driver, Starting, StartingAt, Calibrating, CalibratingAt
  <2>6. Transferring => Transferring'
    BY <2>2, <2>3, <2>4 DEF driver, Transferring, TransferringAt
  <2>7. Seeking => Seeking'
    BY <2>2, <2>3, <2>4 DEF driver, Seeking, SeekingAt
  <2>8. Filling \/ Copying \/ Returning \/ Between => Filling' \/ Copying' \/ Returning' \/ Between'
    BY <2>2, <2>3 DEF driver, Filling, Copying, Returning, Between
  <2>9. Failing => Failing'
    BY <2>2, <2>3 DEF driver, Failing, FailingAt
  <2>10. QED
    BY <2>1, <2>5, <2>6, <2>7, <2>8, <2>9 DEF FloppyInv, Phases
<1>6. QED
  BY <1>1, <1>2, <1>3, <1>4, <1>5 DEF FloppyNext

LEMMA FloppyInvariant == FloppySpec => []FloppyInv
<1>1. FloppyInit => FloppyInv
  BY FloppyInvInit
<1>2. FloppyInv /\ [FloppyNext]_floppyVars => FloppyInv'
  BY FloppyInvNext
<1>3. QED
  BY <1>1, <1>2, PTL DEF FloppySpec

\* The counter of the motor, whatever failed: one more than the locks while a
\* call uses the drive, and the locks themselves between the calls.
THEOREM FloppyTypes == FloppySpec => []FloppyTypeOK
<1>1. ASSUME FloppyInv PROVE FloppyTypeOK
  <2>1. Types /\ MaxLocks \in Nat
    BY <1>1, FloppyAssumption DEF FloppyInv
  <2>2. motorEnabled \in 0..(MaxLocks + 1)
    <3>1. Locks \/ CallLocks
      BY <1>1 DEF FloppyInv, Phases, Starting, StartingAt, Calibrating, CalibratingAt,
                  Transferring, TransferringAt, Seeking, SeekingAt, Filling, Copying, Failing,
                  FailingAt, Returning, Between
    <3>2. QED
      BY <2>1, <3>1 DEF Locks, CallLocks
  <2>3. todo = <<>> => motorEnabled \in 0..MaxLocks
    BY <1>1, IdleBetween DEF Between, Locks
  <2>4. {raised, late, dropped} \subseteq BOOLEAN
    BY <2>1 DEF Types, FlagTypes
  <2>5. QED
    BY <2>1, <2>2, <2>3, <2>4 DEF FloppyTypeOK, Types, DataTypes, FlagTypes
<1>2. QED
  BY <1>1, FloppyInvariant, PTL

\* The motor turns, the head stands at the track and the DMA controller is
\* programmed whenever the controller transfers, unless it did not listen in
\* time or a reset has turned the motor off under a lock.
THEOREM TransfersPrepared == FloppySpec => []CommandPrepared
<1>1. ASSUME FloppyInv PROVE CommandPrepared
  <2> SUFFICES ASSUME fdc.phase = "busy", fdc.command[1] # "Seek", ~late, ~dropped
               PROVE  Prepared
    BY DEF CommandPrepared
  <2>1. ~Quiet
    BY DEF Quiet
  <2>2. \A track : ~SeekUnderWay(track)
    BY DEF SeekUnderWay
  <2>3. PICK r \in 1..8, e \in TransferEnds : TransferringAt(r, e)
    <3>1. ~Starting /\ ~Filling /\ ~Copying /\ ~Failing /\ ~Returning /\ ~Between
      BY <2>1 DEF Starting, StartingAt, Filling, Copying, Failing, FailingAt, Returning, Between
    <3>2. ~Calibrating /\ ~Seeking
      BY <2>1, <2>2 DEF Calibrating, CalibratingAt, Seeking, SeekingAt
    <3>3. QED
      BY <1>1, <3>1, <3>2 DEF FloppyInv, Phases, Transferring
  <2>4. /\ r \in 6..7 /\ status = "ready" /\ CallLocks /\ call \in Calls
        /\ drive.track = currentTrack /\ currentTrack = Target[1]
        /\ fdc.command = <<call.op>> \o Target /\ Programmed
    BY <1>1, <2>1, <2>3 DEF TransferringAt, TransferAt, TransferUnderWay, FloppyInv, Types, DataTypes
  <2>5. fdc.command[1] = call.op /\ fdc.command[2] = Target[1]
    <3> DEFINE a == Target[1]
               b == Target[2]
               c == Target[3]
    <3>1. fdc.command = <<call.op, a, b, c>>
      BY <2>4, CommandTypes
    <3> HIDE DEF a, b, c
    <3>2. fdc.command[1] = call.op /\ fdc.command[2] = a
      BY <3>1
    <3>3. QED
      BY <3>2 DEF a
  <2>6. drive.motor
    BY <1>1, <2>4 DEF FloppyInv, Types, MotorTurns, CallLocks
  <2>7. QED
    BY <2>4, <2>5, <2>6 DEF Prepared, Programmed
<1>2. QED
  BY <1>1, FloppyInvariant, PTL

\* The steps that are left of a part that is not a call's end do not begin with Return.
LEMMA NoReturn ==
  /\ \A r \in 1..6 : Reset[r] # "Return"
  /\ \A r \in 1..8 : Calibration[r] # "Return" /\ Transfer[r] # "Return"
  /\ \A r \in 1..4 : SeekSteps[r] # "Return"
  /\ \A r \in 1..7 : FailSteps[r] # "Return"
BY HeadsOfParts

LEMMA ReturnsReturning ==
  ASSUME FloppyInv, todo # <<>>, Head(todo) = "Return"
  PROVE  Returning
<1>1. ~Starting
  <2>1. ASSUME NEW r \in 1..6, StartingAt(r) PROVE FALSE
    <3> DEFINE x == Rest(Calibration, 1, FirstRead)
    <3>1. Walks(Reset, 6, x) /\ todo = Rest(Reset, r, x)
      BY <2>1, WholePrograms, NextOfPart DEF StartingAt
    <3> HIDE DEF x
    <3>2. Head(todo) = Reset[r]
      BY <3>1, WalkOn
    <3>3. QED
      BY <3>2, NoReturn
  <2>2. QED
    BY <2>1 DEF Starting
<1>2. ~Calibrating
  <2>1. ASSUME NEW r \in 1..8, CalibratingAt(r) PROVE FALSE
    <3>1. Walks(Calibration, 8, FirstRead) /\ todo = Rest(Calibration, r, FirstRead)
      BY <2>1, WholePrograms, NextOfPart DEF CalibratingAt
    <3>2. Head(todo) = Calibration[r]
      BY <3>1, WalkOn
    <3>3. QED
      BY <3>2, NoReturn
  <2>2. QED
    BY <2>1 DEF Calibrating
<1>3. ~Transferring
  <2>1. ASSUME NEW r \in 1..8, NEW e \in TransferEnds, TransferringAt(r, e) PROVE FALSE
    <3>1. Walks(Transfer, 8, e) /\ todo = Rest(Transfer, r, e)
      BY <2>1, Ends, NextOfPart DEF TransferringAt
    <3>2. Head(todo) = Transfer[r]
      BY <3>1, WalkOn
    <3>3. QED
      BY <3>2, NoReturn
  <2>2. QED
    BY <2>1 DEF Transferring
<1>4. ~Seeking
  <2>1. ASSUME NEW r \in 1..4, NEW e \in TransferEnds, SeekingAt(r, e) PROVE FALSE
    <3> DEFINE x == Rest(Transfer, 3, e)
    <3>1. x \in Programs
      <4>1. Walks(Transfer, 8, e)
        BY Ends, NextOfPart
      <4>2. QED
        BY <4>1 DEF Walks
    <3>2. todo = Rest(SeekSteps, r, x)
      BY <2>1 DEF SeekingAt
    <3> HIDE DEF x
    <3>3. Walks(SeekSteps, 4, x)
      BY <3>1, NextOfPart
    <3>4. QED
      BY <3>2, <3>3, WalkOn, NoReturn, SMTT(30)
  <2>2. QED
    BY <2>1 DEF Seeking
<1>5. ~Filling
  <2> DEFINE e == <<"Return">>
             x == Rest(Transfer, 1, e)
  <2>1. x \in Seq(StepNames) /\ "Fill" \in StepNames
    <3>1. Walks(Transfer, 8, e)
      BY Ends, NextOfPart DEF ReturnEnds
    <3> HIDE DEF e
    <3>2. QED
      BY <3>1 DEF Walks, StepNames, Programs
  <2>2. Filling => todo = <<"Fill">> \o x
    BY DEF Filling
  <2> HIDE DEF x
  <2>3. QED
    BY <2>1, <2>2, Pushed
<1>6. ~Copying
  BY Ends DEF Copying
<1>7. ~Failing
  <2>1. ASSUME NEW r \in 1..7, NEW e \in ReturnEnds, FailingAt(r, e) PROVE FALSE
    <3>1. Walks(FailSteps, 7, e) /\ todo = Rest(FailSteps, r, e)
      BY <2>1, Ends, NextOfPart DEF FailingAt
    <3>2. Head(todo) = FailSteps[r]
      BY <3>1, WalkOn
    <3>3. QED
      BY <3>2, NoReturn
  <2>2. QED
    BY <2>1 DEF Failing
<1>8. ~Between
  BY DEF Between
<1>9. QED
  BY <1>1, <1>2, <1>3, <1>4, <1>5, <1>6, <1>7, <1>8 DEF FloppyInv, Phases

\* A call that returns success has moved its own sector.
THEOREM TransfersRight == FloppySpec => []TransferRight
<1>1. ASSUME FloppyInv PROVE TransferRight
  <2> SUFFICES ASSUME todo # <<>>, Head(todo) = "Return", call.ok, ~late
               PROVE  \E place \in Places :
                        /\ medium[place] = buffer
                        /\ call.lba = (place[1] * Heads + place[2]) * Sectors + place[3] - 1
    BY DEF TransferRight
  <2>1. Returning
    BY <1>1, ReturnsReturning
  <2>2. Target \in Places /\ medium[Target] = buffer
    BY <2>1 DEF Returning
  <2>3. call.lba \in 0..(2 * Total - 1)
    BY <1>1 DEF FloppyInv, Types, DataTypes, Calls
  <2>4. call.lba = (Target[1] * Heads + Target[2]) * Sectors + Target[3] - 1
    BY <2>3, Addressed DEF Target
  <2>5. QED
    BY <2>2, <2>4
<1>2. QED
  BY <1>1, FloppyInvariant, PTL

=============================================================================
