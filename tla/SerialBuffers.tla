--------------------------- MODULE SerialBuffers ----------------------------
(***************************************************************************)
(* SerialCom over ManagedBuffer: who holds a handle of which buffer, from  *)
(* send to the last byte on the line, and from recv_payload to the         *)
(* listeners.  A listener keeps its argument: NetworkLayer assigns it to   *)
(* serial_received, ApplicationLayer gives it to a fiber.                  *)
(*                                                                         *)
(* Each action is SerialCom's and what it does to the buffers.             *)
(***************************************************************************)
EXTENDS SerialCom, ManagedBuffer, SequencesExt

CONSTANT InSlot   \* the messages whose listener assigns them to one variable

ASSUME InSlotAssumption == InSlot \subseteq Listener

VARIABLES
  heap,           \* address -> [refs, bytes]
  queue,          \* the handles in out
  toSend,         \* the handle of send_to_serial while it sleeps, or 0
  slot,           \* serial_received
  tasks           \* the handles of the fibers that serve a request

bufVars == <<heap, queue, toSend, slot, tasks>>
allVars == <<vars, bufVars>>

BInit ==
  /\ Init
  /\ heap = Construct(<<>>, 1, <<>>) /\ slot = 1
  /\ queue = <<>> /\ toSend = 0 /\ tasks = <<>>

-----------------------------------------------------------------------------
\* send(id, value, buf, len) constructs a buffer, calls send(ManagedBuffer),
\* which pushes a copy, and destroys it.
BSend(m) ==
  /\ Send(m)
  /\ LET a == NewBlock(heap)
         Push(h) == Copy(h, a)
     IN /\ heap' = Destroy(Called(Construct(heap, a, Frame(m)), a, Push), a)
        /\ queue' = Append(queue, a)
  /\ UNCHANGED <<toSend, slot, tasks>>

\* send_to_serial holds a handle of its own while it sleeps, and destroys it
\* after pop destroyed the queue's.
BSendToSerial ==
  /\ SendToSerial
  /\ toSend' = Head(queue) /\ heap' = Copy(heap, Head(queue))
  /\ UNCHANGED <<queue, slot, tasks>>

BSendToSerialInUse == SendToSerialInUse /\ UNCHANGED bufVars

BSendReturns ==
  /\ SendReturns
  /\ IF Complete
     THEN heap' = Destroy(Destroy(heap, Head(queue)), toSend) /\ queue' = Tail(queue)
     ELSE heap' = Destroy(heap, toSend) /\ UNCHANGED queue
  /\ toSend' = 0
  /\ UNCHANGED <<slot, tasks>>

-----------------------------------------------------------------------------
\* recv_from_serial(ManagedBuffer) of NetworkLayer: serial_received = received.
Slotted(b, payload) ==
  LET Listen(h) == Assign(h, slot, b)
  IN /\ heap' = Destroy(Called(Construct(heap, b, payload), b, Listen), b)
     /\ slot' = b /\ UNCHANGED tasks

\* recv_sensing_req of ApplicationLayer: tmp->msg = buf, where tmp is new.
Tasked(b, payload) ==
  LET c(h) == NewBlock(h)
      Listen(h) == Assign(Construct(h, c(h), <<>>), c(h), b)
  IN /\ heap' = Destroy(Called(Construct(heap, b, payload), b, Listen), b)
     /\ tasks' = Append(tasks, [buf |-> b, payload |-> payload]) /\ UNCHANGED slot

\* Nothing is kept of a request that comes while waiting_ack is set.
Refused(b, payload) ==
  LET Listen(h) == h
  IN /\ heap' = Destroy(Called(Construct(heap, b, payload), b, Listen), b)
     /\ UNCHANGED <<slot, tasks>>

\* The buffer of a message is constructed, given to its listener, if any, and
\* destroyed.
BDelivered ==
  /\ LET b == NewBlock(heap)
         payload == Last(got').payload
     IN IF Len(got') = Len(got) THEN UNCHANGED <<heap, slot, tasks>>
        ELSE IF <<id, value>> \in InSlot THEN Slotted(b, payload)
        ELSE Tasked(b, payload) \/ Refused(b, payload)
  /\ UNCHANGED <<queue, toSend>>

BRecvStep == RecvStep /\ BDelivered
BRecvPayloadNoData == RecvPayloadNoData /\ BDelivered

\* send_sensing_req copies msg, deletes tmp and at its end destroys the copy.
TaskEnds(i) ==
  /\ Yields
  /\ heap' = Destroy(Destroy(Copy(heap, tasks[i].buf), tasks[i].buf), tasks[i].buf)
  /\ tasks' = RemoveAt(tasks, i)
  /\ UNCHANGED <<vars, queue, toSend, slot>>

-----------------------------------------------------------------------------
BSendStep == BSendToSerial \/ BSendToSerialInUse \/ BSendReturns
BByteArrives == ByteArrives /\ UNCHANGED bufVars

BNext ==
  \/ \E m \in OutMessage : BSend(m)
  \/ BSendStep
  \/ \E m \in InMessage : HostWrites(m) /\ UNCHANGED bufVars
  \/ BByteArrives \/ BRecvStep \/ BRecvPayloadNoData
  \/ \E i \in DOMAIN tasks : TaskEnds(i)

BSpec == BInit /\ [][BNext]_allVars

\* The fairness of SerialCom: buffers disable none of its steps.
BFairSpec == BSpec /\ Fairness

-----------------------------------------------------------------------------
\* How many handles block a has.
Handles(a) ==
  Cardinality({i \in DOMAIN queue : queue[i] = a}) + (IF toSend = a THEN 1 ELSE 0)
    + (IF slot = a THEN 1 ELSE 0) + Cardinality({i \in DOMAIN tasks : tasks[i].buf = a})

\* A block counts its handles: none is freed while the queue, a handler that
\* sleeps in serial.send, a fiber or serial_received has one, and none outlives
\* them (ManagedBuffer, RefCounted).
CountsHandles ==
  /\ \A i \in DOMAIN queue : queue[i] \in DOMAIN heap
  /\ \A i \in DOMAIN tasks : tasks[i].buf \in DOMAIN heap
  /\ slot \in DOMAIN heap /\ toSend \in DOMAIN heap \cup {0}
  /\ \A a \in DOMAIN heap : heap[a].refs = Handles(a) /\ Handles(a) > 0

\* The messages for the slot.
ForSlot(m) == <<m.id, m.value>> \in InSlot

\* What a handle refers to stays what it was when the handle was taken, although
\* blocks are freed and used again (send, send_to_serial, recv_payload); the slot
\* has the last message for it.
KeepsBytes ==
  /\ Len(queue) = Len(out)
  /\ \A i \in DOMAIN queue : heap[queue[i]].bytes = out[i].bytes
  /\ taken > 0 => heap[toSend].bytes = Head(out).bytes
  /\ \A i \in DOMAIN tasks : heap[tasks[i].buf].bytes = tasks[i].payload
  /\ (\A i \in DOMAIN got : ~ForSlot(got[i])) => heap[slot].bytes = <<>>
  /\ \A i \in DOMAIN got :
       ForSlot(got[i]) /\ (\A j \in i + 1 .. Len(got) : ~ForSlot(got[j]))
         => heap[slot].bytes = got[i].payload
=============================================================================
