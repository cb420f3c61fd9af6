----------------------------- MODULE SerialCom ------------------------------
(***************************************************************************)
(* A micro:bit's end of the serial line (source/SerialCom.cpp,             *)
(* inc/SerialCom.h).  Messages to the host wait in out, and a chain of     *)
(* SERIAL_DATA_READY events takes them to the driver, which may accept a   *)
(* part of one only.  Messages from the host are read by four handlers,    *)
(* each of which fires the event of the next.                              *)
(*                                                                         *)
(* Fibers are cooperative: a handler is one action up to where it sleeps,  *)
(* in serial.send and serial.read.  recv_payload does not sleep when a     *)
(* read returns 0: no other fiber runs until it has its bytes, only the    *)
(* driver's interrupts do.  A length takes one byte of the model where it  *)
(* takes four on the line.                                                 *)
(***************************************************************************)
EXTENDS Naturals, Sequences

CONSTANTS
  OutMessage,  \* the messages that are sent, [id, value, payload]
  InMessage,   \* the messages the host sends
  Listener,    \* the <<id, value>> that addListener was called with
  Garbage,     \* a byte of new uint8_t[len] that was not written
  RxCap,       \* the size of the driver's receive buffer
  MaxOut,      \* bound: messages sent
  MaxIn,       \* bound: messages the host sends
  MaxInUse,    \* bound: refusals of the driver to send
  MaxNoData    \* bound: reads of the driver that find nothing

Message == [id : Nat, value : Nat, payload : Seq(Nat)]

ASSUME MessageAssumption == OutMessage \subseteq Message /\ InMessage \subseteq Message
ASSUME GarbageAssumption == Garbage \notin Nat
ASSUME SerialBounds ==
  /\ RxCap \in Nat \ {0} /\ MaxOut \in Nat /\ MaxIn \in Nat
  /\ MaxInUse \in Nat /\ MaxNoData \in Nat

VARIABLES
  out,         \* the queue of messages to send
  sent,        \* the bytes of the first one that are out
  ready,       \* SERIAL_DATA_READY events on the bus
  taken,       \* bytes the driver took from the handler that sleeps in it, or 0
  line,        \* the bytes that went out
  stream,      \* history: the bytes of all messages sent
  stage,       \* what the next event, or the handler that waits, reads; of
               \* recv_payload, whether it is in its loop or in its sleep
  id, value, len, buf, \* of the message that is being read
  rx,          \* the driver's receive buffer
  wire,        \* what the host sent and did not arrive yet
  got,         \* history: what the listeners were called with
  hostSent,    \* history: what the host sent
  due,         \* history: those of it that a listener waits for
  broken,      \* history: a byte was dropped, or a read found nothing
  used         \* how much of each bound is used

outVars == <<out, sent, ready, taken, line, stream>>
inVars == <<stage, id, value, len, buf, rx, wire, got, hostSent, due, broken>>
vars == <<outVars, inVars, used>>

\* send(id, value, buf, len): the header and the payload in one buffer.
Frame(m) == <<m.id, m.value, Len(m.payload)>> \o m.payload

Init ==
  /\ out = <<>> /\ sent = 0 /\ ready = 0 /\ taken = 0 /\ line = <<>> /\ stream = <<>>
  /\ stage = "first" /\ id = 0 /\ value = 0 /\ len = 0 /\ buf = <<>>
  /\ rx = <<>> /\ wire = <<>> /\ got = <<>>
  /\ hostSent = <<>> /\ due = <<>> /\ broken = FALSE
  /\ used = [out |-> 0, inUse |-> 0, noData |-> 0]

\* A fiber can run: recv_payload is not in its loop.
Yields == stage # "spinning"

-----------------------------------------------------------------------------
(* Sending.                                                                *)

\* send(ManagedBuffer): the event is fired for the first message of a queue.
AlwaysReady == 1                            \* mutant: for each message
FirstReady == IF out = <<>> THEN 1 ELSE 0

Send(m) ==
  /\ Yields /\ used.out < MaxOut
  /\ used' = [used EXCEPT !.out = @ + 1]
  /\ out' = Append(out, [bytes |-> Frame(m), at |-> Len(stream)])
  /\ stream' = stream \o Frame(m)
  /\ ready' = ready + FirstReady
  /\ UNCHANGED <<sent, taken, line, inVars>>

\* send_to_serial up to serial.send, which takes k bytes and sleeps.
NotFromSent(k) == SubSeq(Head(out).bytes, 1, k)     \* mutant: from the start again
FromSent(k) == SubSeq(Head(out).bytes, sent + 1, sent + k)

SendToSerial ==
  /\ Yields /\ ready > 0 /\ taken = 0 /\ out # <<>>
  /\ ready' = ready - 1
  /\ \E k \in 1 .. Len(Head(out).bytes) - sent : taken' = k /\ line' = line \o FromSent(k)
  /\ UNCHANGED <<out, sent, stream, inVars, used>>

\* MICROBIT_SERIAL_IN_USE: the event is fired again.
SendToSerialInUse ==
  /\ Yields /\ ready > 0 /\ taken = 0 /\ used.inUse < MaxInUse
  /\ used' = [used EXCEPT !.inUse = @ + 1]
  /\ UNCHANGED <<outVars, inVars>>

\* send_to_serial after serial.send. The queue may have grown meanwhile.
Complete == sent + taken = Len(Head(out).bytes)

NotForRest == IF Complete /\ Len(out) > 1 THEN 1 ELSE 0  \* mutant: not for a part
NextReady == IF Complete /\ Len(out) = 1 THEN 0 ELSE 1

KeepsSent == sent + taken                   \* mutant: sent is not reset
SentAfter == IF Complete THEN 0 ELSE sent + taken

SendReturns ==
  /\ Yields /\ taken > 0
  /\ out' = IF Complete THEN Tail(out) ELSE out
  /\ sent' = SentAfter
  /\ ready' = ready + NextReady
  /\ taken' = 0
  /\ UNCHANGED <<line, stream, inVars, used>>

-----------------------------------------------------------------------------
(* Receiving.                                                              *)

\* A listener was added for the first two fields of m.
HasListener(m) == <<m.id, m.value>> \in Listener

HostWrites(m) ==
  /\ Len(hostSent) < MaxIn
  /\ hostSent' = Append(hostSent, m)
  /\ due' = IF HasListener(m) THEN Append(due, m) ELSE due
  /\ wire' = wire \o Frame(m)
  /\ UNCHANGED <<outVars, stage, id, value, len, buf, rx, got, broken, used>>

\* There is no flow control: a byte that finds the buffer full is dropped.
OneTooMany == Len(rx) <= RxCap              \* mutant: the buffer overflows
HasRoom == Len(rx) < RxCap

ByteArrives ==
  /\ wire # <<>>
  /\ wire' = Tail(wire)
  /\ IF HasRoom THEN rx' = Append(rx, Head(wire)) /\ UNCHANGED broken
                ELSE broken' = TRUE /\ UNCHANGED rx
  /\ UNCHANGED <<outVars, stage, id, value, len, buf, got, hostSent, due, used>>

\* A handler that reads one field waits for it and fires the next event.
RecvFirstByte ==
  /\ stage = "first" /\ rx # <<>>
  /\ id' = Head(rx) /\ rx' = Tail(rx) /\ stage' = "second"
  /\ UNCHANGED <<outVars, value, len, buf, wire, got, hostSent, due, broken, used>>

RecvSecondByte ==
  /\ stage = "second" /\ rx # <<>>
  /\ value' = Head(rx) /\ rx' = Tail(rx) /\ stage' = "length"
  /\ UNCHANGED <<outVars, id, len, buf, wire, got, hostSent, due, broken, used>>

RecvLength ==
  /\ stage = "length" /\ rx # <<>>
  /\ len' = Head(rx) /\ rx' = Tail(rx) /\ stage' = "payload"
  /\ UNCHANGED <<outVars, id, value, buf, wire, got, hostSent, due, broken, used>>

\* The end of recv_payload: the listeners of the message are called with it,
\* buf is deleted, and the first event of the chain is fired.
CallListeners(payload) ==
  got' = IF <<id, value>> \in Listener
         THEN Append(got, [id |-> id, value |-> value, payload |-> payload]) ELSE got
KeepsBuf(payload) ==                        \* mutant: buf is not deleted
  CallListeners(payload) /\ stage' = "first" /\ UNCHANGED buf
Deliver(payload) == CallListeners(payload) /\ stage' = "first" /\ buf' = <<>>

Missing == IF Len(buf) < len THEN len - Len(buf) ELSE 0

\* The loop of recv_payload takes what has arrived, until it has all.
Available == IF Len(rx) < Missing THEN Len(rx) ELSE Missing

\* It is entered when the event comes, and goes round without a sleep while
\* reads return 0.
OnlyIfSome == stage \in {"payload", "spinning"} /\ Available > 0  \* mutant: a payload has a byte
Progresses == stage = "payload" \/ (stage = "spinning" /\ Available > 0)

RecvPayload ==
  /\ Progresses
  /\ rx' = SubSeq(rx, Available + 1, Len(rx))
  /\ LET read == buf \o SubSeq(rx, 1, Available)
     IN IF Available = Missing THEN Deliver(read)
        ELSE buf' = read /\ stage' = "spinning" /\ UNCHANGED got
  /\ UNCHANGED <<outVars, id, value, len, wire, hostSent, due, broken, used>>

\* A read may also return MICROBIT_NO_DATA, and recv_payload sleeps.
RecvPayloadNoData ==
  /\ stage \in {"payload", "spinning"} /\ Missing > 0 /\ rx = <<>>
  /\ used.noData < MaxNoData
  /\ used' = [used EXCEPT !.noData = @ + 1]
  /\ stage' = "asleep" /\ broken' = TRUE
  /\ UNCHANGED <<outVars, id, value, len, buf, rx, wire, got, hostSent, due>>

\* MICROBIT_NO_DATA is negative and is added to read, which then is larger than
\* any len as an unsigned number: the loop ends, the rest is not read.
RecvPayloadWakes ==
  /\ stage = "asleep"
  /\ Deliver(buf \o [i \in 1 .. Missing |-> Garbage])
  /\ UNCHANGED <<outVars, id, value, len, rx, wire, hostSent, due, broken, used>>

-----------------------------------------------------------------------------
SendStep == SendToSerial \/ SendToSerialInUse \/ SendReturns
RecvStep ==
  \/ RecvFirstByte \/ RecvSecondByte \/ RecvLength \/ RecvPayload \/ RecvPayloadWakes

Next ==
  \/ \E m \in OutMessage : Send(m)
  \/ SendStep
  \/ \E m \in InMessage : HostWrites(m)
  \/ ByteArrives \/ RecvStep \/ RecvPayloadNoData

Spec == Init /\ [][Next]_vars

\* While a fiber can run the bus delivers every event and the driver sends what
\* it took; the driver hands over what it has, to recv_payload in its loop too;
\* what the host sent arrives or is dropped.
Fairness == WF_vars(SendStep) /\ WF_vars(RecvStep) /\ WF_vars(ByteArrives)

FairSpec == Spec /\ Fairness

-----------------------------------------------------------------------------
(* Properties.                                                             *)

OutEntry == [bytes : Seq(Nat), at : Nat]

\* Types of the variables.
TypeOK ==
  /\ out \in Seq(OutEntry) /\ {sent, ready, taken} \subseteq Nat
  /\ line \in Seq(Nat) /\ stream \in Seq(Nat)
  /\ stage \in {"first", "second", "length", "payload", "spinning", "asleep"}
  /\ {id, value, len} \subseteq Nat /\ buf \in Seq(Nat)
  /\ rx \in Seq(Nat) /\ Len(rx) <= RxCap /\ wire \in Seq(Nat)
  /\ got \in Seq([id : Nat, value : Nat, payload : Seq(Nat \cup {Garbage})])
  /\ hostSent \in Seq(InMessage) /\ due \in Seq(InMessage) /\ broken \in BOOLEAN
  /\ used \in [out : Nat, inUse : Nat, noData : Nat]

\* While a message waits there is exactly one SERIAL_DATA_READY on the bus or a
\* handler in serial.send, and none when nothing waits: without it the queue
\* would sleep, with two front() would be sent twice or taken from an empty
\* queue (send, send_to_serial).
OneWakeup ==
  ready + (IF taken > 0 THEN 1 ELSE 0) = IF out = <<>> THEN 0 ELSE 1

Rest == out[1].at + sent + taken

\* What waits is what is missing on the line: the messages of the queue follow
\* each other in the stream up to its end, and the line ends inside the first
\* of them, where sent (and, in serial.send, taken) says.
QueueIsRest ==
  /\ \A i \in 1 .. Len(out) :
       /\ Len(out[i].bytes) > 0 /\ out[i].at + Len(out[i].bytes) <= Len(stream)
       /\ \A j \in 1 .. Len(out[i].bytes) : out[i].bytes[j] = stream[out[i].at + j]
       /\ i < Len(out) => out[i + 1].at = out[i].at + Len(out[i].bytes)
       /\ i = Len(out) => Len(stream) = out[i].at + Len(out[i].bytes)
  /\ Len(line) <= Len(stream) /\ \A j \in 1 .. Len(line) : line[j] = stream[j]
  /\ IF out = <<>> THEN sent = 0 /\ Len(line) = Len(stream)
     ELSE /\ Len(line) = Rest /\ sent < Len(out[1].bytes)
          /\ sent + taken <= Len(out[1].bytes)

\* Whatever part of a message the driver takes each time, and whatever is queued
\* while the handler sleeps, the line carries the messages whole, in order and
\* without a gap (sent, out).
Stream == INSTANCE ByteStream WITH Chunk <- {Frame(m) : m \in OutMessage}
SendsStream == Stream!Spec

\* And all of them in the end, unless a byte was dropped and recv_payload goes
\* round for ever for the one that is missing, when no fiber runs again.
SendsAll == Stream!Fairness \/ <>[](broken /\ ~Yields)

\* The listeners are called with the messages the host sent, whole and in order,
\* whatever parts they arrive in (recv_first_byte .. recv_payload), unless the
\* receive buffer overflowed or a read found nothing: the framing has nothing to
\* find the start of a message by.
ReceivesWhole ==
  ~broken => Len(got) <= Len(due) /\ got = SubSeq(due, 1, Len(got))

\* And each of them gets to its listener: the chain of events never ends.
ReceivesAll ==
  \A n \in 1 .. MaxIn : Len(due) >= n ~> (Len(got) >= n \/ broken)
=============================================================================
