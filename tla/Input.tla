-------------------------------- MODULE Input --------------------------------
(***************************************************************************)
(* Keyboard and mouse behind the PS/2 controller (kernel/Input: PS2.cpp,   *)
(* Keyboard.cpp, Mouse.cpp).  The controller holds one byte and interrupts *)
(* when it gets it; the handlers put events into lists that two threads    *)
(* empty, instruction by instruction and with interrupts on.  Handlers are *)
(* atomic: what may nest in them is a handler of the other device, which   *)
(* changes other data.                                                     *)
(***************************************************************************)
EXTENDS List, Functions

CONSTANTS Keys,       \* keys that have a code
          Shift,      \* the one of them that is a modifier
          Buttons,    \* the buttons of the mouse, in the order of the code
          Packets,    \* what the mouse may tell: the buttons that are down and whether it moves
          MaxKeyBytes, MaxBytes, MaxLost   \* bounds, MaxBytes on keyboard and mouse together

Movement == "movement"

ASSUME InputAssumption ==
  /\ Shift \in Keys
  /\ Buttons \in Seq(Range(Buttons)) /\ Movement \notin Range(Buttons)
  /\ Packets \subseteq [down : SUBSET Range(Buttons), moves : BOOLEAN]

VARIABLES output,       \* the byte in the controller, if any
          irq,          \* an interrupt is due
          answers,      \* to commands, on their way to output
          present,      \* there is a mouse
          streaming,    \* it was told to send
          keyboardIrq,  \* the controller's configuration: it interrupts for the keyboard
          keyBytes,     \* how many the keyboard has sent
          nth,          \* how many bytes the mouse has sent, lost ones too
          packet,       \* the packet that it is sending
          lost,         \* how many bytes of the mouse were lost
          step,         \* of PS2::Init and Mouse::Init
          ctrlConf,     \* the configuration that Mouse::Init has read, of which keyboardIrq
          keyboardEnabled, mouseEnabled, handleData,
          keysMap, keyEvents, keyRaised, keyWaits,
          dataBuffer, buttonsStates, mouseEvents, mouseRaised, mouseWaits,
          reader,       \* WaitAndReadEvent: place, item and the next one
          task,         \* HandlerTask: place and item
          decoded,      \* the events of the keyboard so far
          read,         \* those that were read
          told,         \* the state of the buttons, as the handlers were told
          misread,      \* packets of which not all bytes belong together
          early,        \* the byte in output came when nobody takes it
          keysTorn, mouseTorn   \* an event came in the middle of a removal

keyVars == <<keysMap, keyEvents, keyRaised, keyWaits, reader, decoded, read, keysTorn>>
mouseVars == <<dataBuffer, buttonsStates, mouseEvents, mouseRaised, mouseWaits, task, told,
               misread, mouseTorn>>
initVars == <<step, ctrlConf, keyboardEnabled, mouseEnabled, handleData>>
bufferVars == <<output, irq, early>>
controllerVars == <<answers, present, streaming, keyboardIrq>>
deviceVars == <<controllerVars, keyBytes, nth, packet, lost>>
inputVars == <<keyVars, mouseVars, initVars, bufferVars, deviceVars>>

NoByte == [kind |-> "none"]

-----------------------------------------------------------------------------
\* The devices.  A code is that of a key, pressed or released, or one that is
\* ignored: without a key, or the prefix 0xE0.
Codes == [kind : {"key"}, key : Keys, pressed : BOOLEAN] \cup {[kind |-> "ignored"]}

Sends(byte) == output = NoByte /\ output' = byte /\ irq' = TRUE /\ UNCHANGED early

\* The keyboard is silent from the beginning of PS2::Init until it is enabled.
KeyByte ==
  /\ keyBytes < MaxKeyBytes /\ keyBytes + nth < MaxBytes
  /\ step \in {"disable", "enableMouse", "handle", "done"}
  /\ output = NoByte
  /\ output' \in Codes
  /\ irq' = keyboardIrq /\ early' = ~keyboardIrq
  /\ keyBytes' = keyBytes + 1
  /\ UNCHANGED <<keyVars, mouseVars, initVars, controllerVars, nth, packet, lost>>

\* Three bytes: the buttons, with a bit that is always set, and two movements, small
\* enough to lack that bit.
PacketByte == [kind |-> "mouse", of |-> nth \div 3, sync |-> nth % 3 = 0,
               down |-> packet.down, moves |-> packet.moves]

\* A byte may be lost.
MouseByte ==
  /\ keyBytes + nth < MaxBytes /\ streaming /\ answers = <<>>
  /\ nth' = nth + 1
  /\ packet' \in IF nth % 3 = 2 THEN Packets ELSE {packet}
  /\ \/ Sends(PacketByte) /\ UNCHANGED lost
     \/ lost < MaxLost /\ lost' = lost + 1 /\ UNCHANGED bufferVars
  /\ UNCHANGED <<keyVars, mouseVars, initVars, controllerVars, keyBytes>>

\* Answers come in the order of the commands, and before anybody gives up waiting.
Conf == [kind |-> "conf"]
Ack == [kind |-> "ack"]
Id == [kind |-> "id"]

Answer ==
  /\ answers # <<>> /\ Sends(Head(answers))
  /\ answers' = Tail(answers)
  /\ UNCHANGED <<keyVars, mouseVars, initVars, present, streaming, keyboardIrq, keyBytes, nth,
                 packet, lost>>

-----------------------------------------------------------------------------
\* Mouse::Init, each step named for what it is about to do.  It returns false when
\* the controller does not accept a command in time, where it looks.
Goes(from, to) == step = from /\ step' = to

Returns(found) == step' = "enableKeyboard" /\ mouseEnabled' = found

\* SendCmd and SendControllerCmd, accepted; what the mouse answers, if there is one.
Accepts(given) == answers' = answers \o given
FromMouse(given) == IF present THEN given ELSE <<>>

\* ReadData: the byte that is there, whosever it is, or none in time.  One that the
\* mouse had sent by itself is lost to its packet.
ReadData ==
  /\ output # NoByte \/ answers = <<>>
  /\ output' = NoByte /\ irq' = FALSE /\ early' = FALSE
  /\ lost' = lost + IF output.kind = "mouse" THEN 1 ELSE 0
  /\ UNCHANGED <<controllerVars, keyBytes, nth, packet>>

Commands(from, to, given) ==
  /\ step = from
  /\ \/ Accepts(given) /\ step' = to /\ UNCHANGED mouseEnabled
     \/ Returns(FALSE) /\ UNCHANGED answers

\* The loop until a byte is not an acknowledgement: that none comes is as good.
Acknowledged(from, to) == step = from /\ step' = IF output = Ack THEN from ELSE to

GetStatus ==
  /\ Goes("getStatus", "readStatus")
  /\ Accepts(<<Conf>>) \/ UNCHANGED answers
  /\ UNCHANGED <<ctrlConf, mouseEnabled, present, streaming, keyboardIrq>>

ReadStatus ==
  /\ Goes("readStatus", "setStatus") /\ ReadData
  /\ ctrlConf' \in IF output = Conf THEN {keyboardIrq} ELSE BOOLEAN
  /\ UNCHANGED mouseEnabled

SetStatus ==
  /\ Commands("setStatus", "getId", <<>>)
  /\ keyboardIrq' = IF step' = "getId" THEN ctrlConf ELSE keyboardIrq
  /\ UNCHANGED <<ctrlConf, present, streaming>>

GetId ==
  /\ \/ Commands("getId", "readAck", FromMouse(<<Ack, Id>>))
     \/ Commands("setDefaults", "awaitDefaults", FromMouse(<<Ack>>))
  /\ UNCHANGED <<ctrlConf, present, streaming, keyboardIrq>>

ReadAnswer ==
  /\ \/ Goes("readAck", "readId")
     \/ Goes("readId", "setDefaults")
     \/ Acknowledged("awaitDefaults", "enableStreaming")
  /\ ReadData
  /\ UNCHANGED <<ctrlConf, mouseEnabled>>

EnableStreaming ==
  /\ Goes("enableStreaming", "awaitStreaming")
  /\ \/ Accepts(FromMouse(<<Ack>>)) /\ streaming' = present
     \/ UNCHANGED <<answers, streaming>>
  /\ UNCHANGED <<ctrlConf, mouseEnabled, present, keyboardIrq>>

AwaitStreaming ==
  /\ Acknowledged("awaitStreaming", "enableKeyboard") /\ ReadData
  /\ mouseEnabled' = (output # Ack)
  /\ UNCHANGED ctrlConf

MouseInit ==
  /\ \/ /\ GetStatus \/ SetStatus \/ GetId \/ EnableStreaming
        /\ UNCHANGED <<bufferVars, keyBytes, nth, packet, lost>>
     \/ ReadStatus \/ ReadAnswer \/ AwaitStreaming
  /\ UNCHANGED <<keyboardEnabled, handleData>>

\* PS2::Init around it.
Enable ==
  \/ /\ Goes("disable", "getStatus")
     /\ keyboardEnabled' = TRUE
     /\ UNCHANGED handleData
  \/ /\ Goes("enableKeyboard", IF mouseEnabled THEN "enableMouse" ELSE "handle")
     /\ UNCHANGED <<keyboardEnabled, handleData>>
  \/ /\ Goes("enableMouse", "handle")
     /\ UNCHANGED <<keyboardEnabled, handleData>>
  \/ /\ Goes("handle", "done")
     /\ handleData' = TRUE
     /\ UNCHANGED keyboardEnabled

PS2Init ==
  /\ \/ MouseInit
     \/ Enable /\ UNCHANGED <<ctrlConf, mouseEnabled, bufferVars, deviceVars>>
  /\ UNCHANGED <<keyVars, mouseVars>>

-----------------------------------------------------------------------------
\* The handlers.  Raise wakes the thread that waits, or is remembered.

KeyFIFOAdd(code) ==
  LET map == IF code.pressed THEN keysMap \cup {code.key} ELSE keysMap \ {code.key}
      event == [key |-> code.key, pressed |-> code.pressed, shift |-> Shift \in map]
  IN IF code.kind # "key" THEN UNCHANGED keyVars
     ELSE /\ keysMap' = map
          /\ keyEvents' = PushBack(keyEvents, event)
          /\ decoded' = Append(decoded, event)
          /\ keysTorn' = (keysTorn \/ (reader.place \in {"store", "clearTail"} /\ reader.next = Null))
          /\ keyRaised' = ~keyWaits
          /\ keyWaits' = FALSE
          /\ UNCHANGED <<reader, read>>

\* A packet puts an event for each button that has changed, in their order, and one
\* for its movement, into the list.
Changed(b, byte) == (b \in byte.down) # (b \in buttonsStates)

Tells(byte) == byte.moves \/ \E i \in DOMAIN Buttons : Changed(Buttons[i], byte)

PushButtons(l, byte) ==
  LET pushed[k \in 0..Len(Buttons)] ==
        IF k = 0 THEN l
        ELSE IF Changed(Buttons[k], byte)
        THEN PushBack(pushed[k - 1], [button |-> Buttons[k], down |-> Buttons[k] \in byte.down])
        ELSE pushed[k - 1]
  IN pushed[Len(Buttons)]

PushEvents(l, byte) ==
  IF byte.moves THEN PushBack(PushButtons(l, byte), [button |-> Movement, down |-> FALSE])
  ELSE PushButtons(l, byte)

\* A packet begins with the bit set: had that not been tested.
MutantBegins(byte) == TRUE

Begins(byte) == byte.sync

\* The thread has told the last event and not yet ended Clear.
Closing == task.place \in {"clear", "reset"} \/ (task.place = "tell" /\ task.item = Null)

\* Three bytes are a packet, if the first has the bit; otherwise the first goes.
MouseFIFOAdd(byte) ==
  LET bytes == Append(dataBuffer, byte)
  IN IF Len(bytes) < 3
     THEN dataBuffer' = bytes
          /\ UNCHANGED <<buttonsStates, mouseEvents, mouseRaised, mouseWaits, misread, mouseTorn>>
     ELSE IF ~Begins(bytes[1])
     THEN dataBuffer' = Tail(bytes)
          /\ UNCHANGED <<buttonsStates, mouseEvents, mouseRaised, mouseWaits, misread, mouseTorn>>
     ELSE /\ dataBuffer' = <<>>
          /\ mouseEvents' = PushEvents(mouseEvents, bytes[1])
          /\ buttonsStates' = bytes[1].down
          /\ misread' = misread + IF \A i \in 1..3 : bytes[i].of = bytes[1].of THEN 0 ELSE 1
          /\ mouseTorn' = (mouseTorn \/ (Closing /\ Tells(bytes[1])))
          /\ mouseRaised' = ~mouseWaits
          /\ mouseWaits' = FALSE

\* Keyboard and mouse have handlers of their own.  The controller's own answer counts
\* as a byte of the keyboard.
OfMouse(byte) == byte.kind \in {"mouse", "ack", "id"}

Handle ==
  /\ irq /\ irq' = FALSE
  /\ IF handleData /\ (IF OfMouse(output) THEN mouseEnabled ELSE keyboardEnabled)
     THEN /\ output' = NoByte
          /\ IF OfMouse(output) THEN MouseFIFOAdd(output) /\ UNCHANGED keyVars
             ELSE (\E code \in IF output = Conf THEN Codes ELSE {output} : KeyFIFOAdd(code))
                  /\ UNCHANGED <<dataBuffer, buttonsStates, mouseEvents, mouseRaised, mouseWaits,
                                 misread, mouseTorn>>
          /\ UNCHANGED early
     ELSE early' = TRUE /\ UNCHANGED <<output, keyVars, dataBuffer, buttonsStates, mouseEvents,
                                       mouseRaised, mouseWaits, misread, mouseTorn>>
  /\ UNCHANGED <<task, told, initVars, deviceVars>>

-----------------------------------------------------------------------------
\* The reader of the keyboard: WaitAndReadEvent over and over.

\* Wait, had it forgotten a signal that was raised before.
MutantWait(raised) == FALSE

Remembered(raised) == raised

Reader(place) == reader.place = place /\ ~keyWaits /\ ~keyEvents.broken

ReaderTest ==
  /\ Reader("test")
  /\ reader' = [reader EXCEPT !.place = IF keyEvents.size = 0 THEN "wait" ELSE "load"]
  /\ UNCHANGED <<keyEvents, keyRaised, keyWaits, read>>

ReaderWait ==
  /\ Reader("wait")
  /\ reader' = [reader EXCEPT !.place = "test"]
  /\ keyWaits' = ~Remembered(keyRaised)
  /\ keyRaised' = FALSE
  /\ UNCHANGED <<keyEvents, read>>

\* head->data and head->next; then head itself is written.
ReaderLoad ==
  /\ Reader("load")
  /\ LET item == keyEvents.head
     IN IF item \in DOMAIN keyEvents.items
        THEN /\ reader' = [place |-> "store", item |-> item, next |-> keyEvents.items[item].next]
             /\ UNCHANGED keyEvents
        ELSE keyEvents' = [keyEvents EXCEPT !.broken = TRUE] /\ UNCHANGED reader
  /\ UNCHANGED <<keyRaised, keyWaits, read>>

ReaderStore ==
  /\ Reader("store")
  /\ keyEvents' = [keyEvents EXCEPT !.head = reader.next]
  /\ reader' = [reader EXCEPT !.place = IF keyEvents.tail = reader.item THEN "clearTail" ELSE "delete"]
  /\ UNCHANGED <<keyRaised, keyWaits, read>>

ReaderClearTail ==
  /\ Reader("clearTail")
  /\ keyEvents' = [keyEvents EXCEPT !.tail = Null]
  /\ reader' = [reader EXCEPT !.place = "delete"]
  /\ UNCHANGED <<keyRaised, keyWaits, read>>

ReaderDelete ==
  /\ Reader("delete")
  /\ keyEvents' = [Delete(keyEvents, reader.item) EXCEPT !.size = @ - 1]
  /\ read' = Append(read, keyEvents.items[reader.item].data)
  /\ reader' = [place |-> "test", item |-> Null, next |-> Null]
  /\ UNCHANGED <<keyRaised, keyWaits>>

ReadKey ==
  /\ ReaderTest \/ ReaderWait \/ ReaderLoad \/ ReaderStore \/ ReaderClearTail \/ ReaderDelete
  /\ UNCHANGED <<keysMap, decoded, keysTorn, mouseVars, initVars, bufferVars, deviceVars>>

-----------------------------------------------------------------------------
\* The thread of the mouse: it tells the handlers, clears the list and waits.
Task(place) == task.place = place /\ ~mouseWaits /\ ~mouseEvents.broken

TaskTell ==
  /\ Task("tell")
  /\ IF task.item = Null
     THEN task' = [task EXCEPT !.place = "clear"] /\ UNCHANGED told
     ELSE LET item == mouseEvents.items[task.item]
          IN /\ told' = IF item.data.down THEN told \cup {item.data.button}
                        ELSE told \ {item.data.button}
             /\ task' = [task EXCEPT !.item = item.next]
  /\ UNCHANGED <<mouseEvents, mouseRaised, mouseWaits>>

\* Item by item; size and tail at the end.
TaskClear ==
  /\ Task("clear")
  /\ IF mouseEvents.head = Null THEN task' = [task EXCEPT !.place = "reset"] /\ UNCHANGED mouseEvents
     ELSE /\ mouseEvents' = [Delete(mouseEvents, mouseEvents.head)
                             EXCEPT !.head = mouseEvents.items[mouseEvents.head].next]
          /\ UNCHANGED task
  /\ UNCHANGED <<told, mouseRaised, mouseWaits>>

TaskReset ==
  /\ Task("reset")
  /\ mouseEvents' = [mouseEvents EXCEPT !.size = 0, !.tail = Null]
  /\ task' = [task EXCEPT !.place = "wait"]
  /\ UNCHANGED <<told, mouseRaised, mouseWaits>>

TaskWait ==
  /\ Task("wait")
  /\ task' = [task EXCEPT !.place = "woken"]
  /\ mouseWaits' = ~mouseRaised
  /\ mouseRaised' = FALSE
  /\ UNCHANGED <<mouseEvents, told>>

TaskWoken ==
  /\ Task("woken")
  /\ task' = [place |-> "tell", item |-> mouseEvents.head]
  /\ UNCHANGED <<mouseEvents, told, mouseRaised, mouseWaits>>

HandlerTask ==
  /\ mouseEnabled
  /\ TaskTell \/ TaskClear \/ TaskReset \/ TaskWait \/ TaskWoken
  /\ UNCHANGED <<keyVars, dataBuffer, buttonsStates, misread, mouseTorn, initVars, bufferVars,
                 deviceVars>>

-----------------------------------------------------------------------------
InputInit ==
  /\ output = NoByte /\ irq = FALSE /\ keyBytes = 0 /\ nth = 0 /\ lost = 0
  /\ packet \in Packets
  /\ answers = <<>> /\ present \in BOOLEAN /\ streaming = FALSE /\ keyboardIrq = TRUE
  /\ step = "disable" /\ ctrlConf = TRUE /\ keyboardEnabled = FALSE /\ mouseEnabled = FALSE /\ handleData = FALSE
  /\ keysMap = {} /\ keyEvents = EmptyList /\ keyRaised = FALSE /\ keyWaits = FALSE
  /\ dataBuffer = <<>> /\ buttonsStates = {} /\ mouseEvents = EmptyList
  /\ mouseRaised = FALSE /\ mouseWaits = FALSE
  /\ reader = [place |-> "test", item |-> Null, next |-> Null]
  /\ task = [place |-> "woken", item |-> Null]
  /\ decoded = <<>> /\ read = <<>> /\ told = {} /\ misread = 0
  /\ early = FALSE /\ keysTorn = FALSE /\ mouseTorn = FALSE

InputNext == KeyByte \/ MouseByte \/ Answer \/ PS2Init \/ Handle \/ ReadKey \/ HandlerTask

\* The interrupt comes, commands are answered and the threads are scheduled; the
\* devices may be silent.
InputSpec ==
  /\ InputInit /\ [][InputNext]_inputVars
  /\ WF_inputVars(Answer) /\ WF_inputVars(PS2Init) /\ WF_inputVars(Handle)
  /\ WF_inputVars(ReadKey) /\ WF_inputVars(HandlerTask)

-----------------------------------------------------------------------------
\* Between two reads the list of the keyboard's events is sound and holds, after
\* those that were read, every event in its order, whenever the handler came:
\* except while the last event was being taken out.
KeyEventsKept ==
  ~keysTorn =>
    /\ ~keyEvents.broken
    /\ reader.place \in {"test", "wait", "load"} => Sound(keyEvents) /\ decoded = read \o Elements(keyEvents)

\* What the handlers know of the buttons that are down once they were told the events.
KnownAfter(events) ==
  {b \in Range(Buttons) :
     LET about == {i \in DOMAIN events : events[i].button = b}
     IN IF about = {} THEN b \in told
        ELSE \E i \in about : events[i].down /\ \A j \in about : j <= i}

\* The list of the mouse's events is sound, and with what is in it the handlers
\* will know of every button whether it is down: unless a packet came between
\* the last event that they were told and the end of Clear.
MouseEventsKept ==
  ~mouseTorn =>
    /\ ~mouseEvents.broken
    /\ task.place \in {"wait", "woken"} =>
         Sound(mouseEvents) /\ KnownAfter(Elements(mouseEvents)) = buttonsStates

\* After a lost byte the driver finds the beginning of a packet again: it takes no
\* more packets for what they are not than bytes were lost.
MouseRealigns == misread <= lost

\* Every byte is taken out of the controller and every key that was decoded is
\* read: unless the list was torn, or a byte came before PS2::Init was ready for
\* it, which stays for ever.
Outstanding == output # NoByte \/ Len(read) < Len(decoded)
EventsRead == Outstanding ~> (~Outstanding \/ keysTorn \/ early)
=============================================================================
