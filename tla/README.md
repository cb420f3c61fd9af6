# PLANTS: TLA+ models of the network stack

PLANTS connects micro:bits that watch over plants. One of them, the sink, is
wired to a host by a serial line; the others reach it over several radio hops.
The code is a stack of three layers on every micro:bit, with the serial line at
the sink beside it, and all of it is in `src/`. This directory models the three
layers, the serial line and the buffers they share, and checks and proves
properties of them.

## 1. Inventory

| Part | Source | State | Operations |
|---|---|---|---|
| MacLayer | `source/MacLayer.cpp`, `inc/MacLayer.h` | `seq_number`; `outBuffer` (packets to send); `waiting` (hash -> packet sent, not acknowledged); `waiting_for_ack` (sequence number -> acknowledgements counted); `receive_buffer` (source, number -> fragments); `inBuffer`; `disconnected_destination` | `send`, `recv`, `getDisconnectedDestination`; handlers `send_to_radio`, `recv_from_radio`; `idleTick` |
| NetworkLayer | `source/NetworkLayer.cpp`, `inc/NetworkLayer.h` | the tree: `broadcast_counter`, `rely`, `rt_formed`; sending: `send_state`, `sending_to`, `outBufferPackets`; for the application: `inBufferPackets`, `inBufferNodes`; at the sink: the serial exchange (`serial_*`), `fast_rt_init`, and the counter in the flash | `send`, `send(payload, destination)`, `recv`, `recv_connection`; handlers `send_to_mac`, `recv_from_mac`, `packet_sent`, `packet_timeout`, `incr_broadcast_counter`, `send_to_serial`, `recv_from_serial`; `idleTick` |
| ApplicationLayer | `source/ApplicationLayer.cpp`, `inc/ApplicationLayer.h` | sensing rates and gradients of each sensor; at the sink `waiting_ack`, `dest`, `serving` | requests of the host, acknowledgements and their timeout, one sensing loop per sensor |
| SerialCom | `source/SerialCom.cpp`, `inc/SerialCom.h` | `out`, `sent`; the message being read (`id`, `value`, `len`, `buf`) | `send`, listeners, `send_to_serial`, `recv_first_byte` ... `recv_payload` |
| ManagedBuffer | `source/ManagedBuffer.cpp` | a reference-counted byte buffer: `ptr`, the address of the block | construction, copy, assignment, destruction |
| MemberFunctionCallbackSerial | `source/MemberFunctionCallbackSerial.cpp` | a method pointer | none of its own |
| main | `source/main.cpp` | - | set-up, sensor drivers |
| micro:bit runtime, host | not in `src/` | message bus, cooperative fibers, radio, flash; routes | external |

**How they interact.** A layer calls `send` of the layer below, and is told of
what comes back by events on the micro:bit's message bus, which carry no data:
`MAC_LAYER_PACKET_RECEIVED`, `_PACKET_SENT`, `_TIMEOUT`,
`NETWORK_LAYER_PACKET_READY_TO_SEND` and so on; the handler then reads the state
of the layer. SerialCom calls a listener when it has read a whole message.
Every layer has an `idleTick`, which the idle fiber runs and which stands for
its timers. Fibers are cooperative: a handler that does not sleep is atomic, but
between a decision and the event that acts on it any other handler may run.

**What is hard here.**

* An event is fired in one handler and consumed in another, and the queue it is
  about may be filled, emptied or deleted between the two.
* The events SENT and TIMEOUT do not say which message they are about.
* A packet belongs to two containers of MacLayer at once, and is deleted by an
  acknowledgement or a timeout.
* The tree is rebuilt by waves of `RT_INIT` that overlap, while data,
  acknowledgements and commands travel on the previous tree.
* Datagrams are lost, repeated and reordered; nodes lose power; only the sink's
  counter is persistent; the host restarts in the middle of an exchange.
* A fiber sleeps in `send(payload, destination)` until the host answers, and the
  sink does nothing else meanwhile. A fiber in `send_sensing_req` sleeps, and
  another one may take over `waiting_ack`, `dest` and `serving` before it wakes.
* The serial driver takes and hands over parts of messages, and a handler sleeps
  in it while the queue grows; nothing in the stream marks the start of a message.

**What makes each part correct.** MacLayer: a message is answered once and
truthfully, is put together whole, and is not delivered again while it is
remembered; its queue never sleeps with a packet in it. NetworkLayer: the relies
form a tree, every wave is new, routes and commands are consistent with it, data
keeps its order, a lost rely leaves no packets behind, every request for a route
ends. ApplicationLayer: a request gets exactly one answer, from the node it was
for; a sensor that should sample has exactly one fiber. SerialCom: messages go out
whole and in order, and every whole message gets to its listener. ManagedBuffer:
no block is freed while it has a handle, and none outlives its handles. `PROJECT.json` lists the hazards, each at its line, with
the properties that guard against it.

## 2. Modules

| Module | Content |
|---|---|
| `MacLayer` | the MAC layer of all nodes and the radio between them |
| `MacService` | abstract: what the MAC layer promises the layer above |
| `MacRefinement` | `MacLayer` implements `MacService` |
| `MacLayerProofs` | theorems about `MacLayer`, checked by TLAPS: its queue, its map and its events |
| `MacDeliveryProofs` | theorems about what `MacLayer` delivers and answers |
| `MacRefinementProofs` | the theorem that it implements `MacService` |
| `NetworkLayer` | the network layer of all nodes, over the MAC service, with the host |
| `NetworkLayerProofs` | theorems about `NetworkLayer`: its types, the waves and the tree |
| `NetworkDeliveryProofs` | theorems about where its packets go: routes, commands, queues, the order of payloads |
| `SerialCom` | both directions of the serial line at the sink |
| `ByteStream` | abstract: what SerialCom promises whoever sends |
| `SerialComProofs` | theorems about `SerialCom`, which implements `ByteStream` |
| `ManagedBuffer` | reference-counted buffers, as operators on a heap |
| `SerialBuffers` | `SerialCom` composed with `ManagedBuffer` and with the listeners that keep buffers |
| `SerialBuffersProofs` | theorems about `SerialBuffers` and the heap |
| `ApplicationLayer` | the sink's requests and the plants' sensing fibers, over an abstract network |
| `ApplicationProofs` | theorems about `ApplicationLayer` |
| `MCMacLayer`, `MCNetworkLayer`, `MCSerialBuffers`, `MCApplicationLayer` | instances for TLC |

### MacLayer

Every variable is a function of the node and keeps the name of the field it
models. A handler is one action: `Send`, `SendToRadio` (with `SendToRadioFails`
for a refusal by the driver and `SendToRadioIdle` for an empty queue),
`recv_from_radio` in four actions by kind of datagram (`RecvData`,
`RecvBroadcast`, `RecvAck`, `RecvOther`), `IdleTick`, `Recv`,
`GetDisconnectedDestination`; `Restart` is a power failure. `ready` counts the
`READY_TO_SEND` events on the bus, `rx` is the driver's queue. The code's vectors
are filled at the front and emptied at the back; in the model the head of a
sequence is the next one out.

Abstractions:

* Time. `IdleTick` finds any set of sent packets due and any set of receive
  records old: `idleTick` has a lower bound on its delays (64 ms and 11 * 64 ms)
  and no upper one. A record may therefore expire before a retransmission comes,
  and `NoRepetition` says what holds then.
* The payload is the number of the message it belongs to, so that a mixture of
  messages is visible; the control byte is its end mark.
* `waiting[hash]` inserts a null pointer for an acknowledgement that comes again,
  as `RecvAck` does. `idleTick` then dereferences it. On the board address 0
  holds the vector table, the first byte of which is not zero, so the null
  packet reads as queued and is skipped; the model does that. Run
  `MacNullEntry` shows that the state is reachable.
* `SeqRetired`, a guard of `Send`: no packet of the message that had this
  sequence number before is still outstanding. It is an assumption about the
  users of the layer (fewer than 256 messages in the time of eleven
  transmissions); the code does not check it.
* A message that is too large is refused without a change of state; left out.
* `log`, `got` and `expired` are history; no action's guard reads them except to
  number messages and to bound them.

### MacService

Two variables: the messages submitted with the events fired for them, and those
delivered. It allows exactly what a user of the layer must be ready for: loss,
delivery a second time, SENT before the end of a *fragmented* message
(acknowledgements are counted, not matched), one TIMEOUT per fragment, even after
such a SENT. For a message of one packet SENT implies delivery and excludes
TIMEOUT. `MacRefinement` maps `log` to it.

### NetworkLayer

`bus[n]` is the FIFO queue of events on node *n*'s bus; an event carries the packet it
is about (for `sent` and `timeout` only as history: the handlers do not read
it). `idleTick` may run between any two events, because the bus stops draining
when a fiber becomes runnable. One action per handler, and `recv_from_mac` in one per type of
packet: the `Accepts...` operators are the code's conditions. `Dispatch` is the
end of `idleTick`, which chooses the state to wait in, whereas the destination of
a packet was chosen when it was queued. `mac[n]` is what the MAC layer still has
to do, with `MacService`'s promises: `MacDeliver`, `MacSent`, `MacTimeout`; a message is
forgotten when nothing more can come of it. `MacRepeat` leaves a second copy of a unicast
message behind, which may arrive at any later time and is answered no more.

`serial` holds the `serial_*` fields of the sink; `RecvInit` and `RecvAnswer` are
`recv_from_serial`, `SinkSend`/`SinkSendReturns` the two halves of
`send(payload, destination)` around the sleep. `Boot` is the part of `init` after
`serial_wait_init`. The host is external: it stores each route it is told of,
answers requests in turn, and may start again, which loses the requests it was
sent but the last `MaxLate` (those that are still on the line).
A received message occupies the bus until its listener ran (`LineRead`), as in
SerialCom's chain of events.

Where the code pops an empty vector nothing can be said of what follows; the
model stops that node there, and `NeverPopsEmpty` says that it does not happen.

`depth`, the counter in LEAVE and the packet in `sent`/`timeout` events are
history. `Frags` = 1 since the usual packet (24 bytes of header and a small
payload) fits one datagram of 116 bytes.

### SerialCom, ByteStream

A handler is one action up to where it sleeps. `SendToSerial` is `send_to_serial`
up to `serial.send`, which takes `taken` bytes and sleeps; `SendReturns` is the
rest. Between the two any message may be queued. `ready` counts the
`SERIAL_DATA_READY` events on the bus. `stage` says which of `RECV_FIRST_BYTE` ...
`RECV_PAYLOAD` is next. The handlers of the header sleep in the driver until their byte
is there, so that their actions are enabled then. A length is one byte of the model.

`recv_payload` reads without waiting. While a read of nothing returns 0 its loop goes round
without a sleep (`stage` = "spinning"): fibers are cooperative, so none of them runs until
the bytes arrive, by the driver's interrupts. `Yields` is the guard this puts on the
steps of the other fibers. A read may also return `MICROBIT_NO_DATA`
(`RecvPayloadNoData`); then the handler sleeps ("asleep"), and others run.

The driver is external: it takes any part of what it is given, may refuse
(`MICROBIT_SERIAL_IN_USE`), drops a byte that finds its buffer full, and a read of
nothing returns 0 or `MICROBIT_NO_DATA`. The latter is negative and is added to the count,
which ends the loop early (`RecvPayloadWakes`). Bytes of `buf` that were not written are
`Garbage`. After a dropped byte or such a read nothing is said of what is received
(`broken`): the code has no way to find the next message. `hostSent` is what the host
sent and `due` those of it that a listener waits for, both history: the handlers see
bytes only.

`ByteStream` has two variables, the bytes handed over and those on the line.
`SendsStream` states that SerialCom implements its safety part, `SendsAll` that it meets its
fairness too, unless `recv_payload` goes round for ever for a byte that was dropped.

### ManagedBuffer, SerialBuffers

A handle is an address; `Construct`, `Copy`, `Assign` and `Destroy` return the heap after
the member function of that name. `RefCounted` is the micro:bit library's: it frees
a block when its count gets to 0. `malloc` takes the lowest free address, so that
an address is used again as soon as possible. `SerialBuffers` adds to each action of
`SerialCom` what it does with handles: the queue's, that of `toSend` while
`send_to_serial` sleeps, and those of the two kinds of listener the code has, one
that assigns its argument to a field (`slot`, NetworkLayer's
`serial_received_buffer`, `Slotted`) and one that gives it to a fiber (`tasks`, ApplicationLayer,
`Tasked`), unless it refuses the request and keeps nothing (`Refused`).

### ApplicationLayer

One fiber per request (`phase`), and at each plant one per sensor (`loops` counts
them, independently of `active_loop`). A handler runs when no fiber that was created has
still to start (`BusRuns`), which is what the micro:bit's scheduler does: so
`recv_sensing_req` reads a `waiting_ack` that the fiber of the request before has set.

Of NetworkLayer the module keeps what its callers share. `route` holds
`serial_send_get_payload` (`payload`), `serial_wait_route_found` (`waits`) and
`serial_route_found`, and `gets`, the requests for a route that the host has still to
answer: `RouteAnswered` sends the last payload to the first destination, as
`recv_from_serial` does. `updates` are the changes of a plant's connection that wait
for `update_connection_status`, `rt_formed` the state of its network layer now.
Messages are bags: they arrive in any order, a bounded number of them twice, or never.

Timers are untimed: a fiber that waits for an acknowledgement may find its time over
at any point. The thresholds and the values of samples are left out, so sensors
only run, and so is `addSensor` after the start. `sample_rate` of a message that
does not set it is 0 or not; `skipped` remembers that a fiber was not started for
this reason. `answers`, `info`, `applied`, `skipped` and `loops` are history, except that
`RecvInfo` needs a MICRO_INFO to be on its way and `SensingLoop` a fiber to run.

## 3. Runs

All bounds are constants that the guards name. Deadlock is not checked in any run: the
bounded system stops when its messages and restarts are used up.

| Run | Instance | Checks |
|---|---|---|
| `MacTwoWay` | two nodes, a message each, a restart of the sender, one radio error | `TypeOK`, `NoLostWakeup`, `QueuedOnce`, `AttemptsBounded`, `NoForgottenMessage` |
| `MacFragments` | three nodes; one message of one or two fragments, one retransmission, fairness | `OneOutcome`, `WholeMessages`, `NoRepetition`, `IgnoresOnlyRepetitions`, `ImplementsService`, `EveryMessageAnswered` |
| `MacReboot` | the sender restarts between two messages | `IgnoresOnlyRepetitions` is violated |
| `MacNullEntry` | two nodes; a message of one or two fragments, up to two retransmissions | `WaitingHoldsPackets` is violated |
| `NetTree` | three nodes in a line, two waves | `LoopFree`, `RoutesArePaths` |
| `NetRelay` | a line; the leaf sends two payloads, a message of the relay is repeated | `DataInOrder` |
| `NetCommands` | a line; one command, one timeout | `TypeOK`, `NothingForLostRely`, `NeverPopsEmpty`, `CommandsArrive` |
| `NetHost` | sink and one node, fairness; two waves, one request, the sink restarts once, the host starts twice | `SendReturns`, `FreshWave` |
| `NetBlocked` | sink and one node, two waves, one timeout | `AwaitsUnicast` is violated |
| `NetTimeout` | three nodes that all hear each other, two waves, one timeout | `DisconnectsWhenLost` is violated |
| `Serial` | two messages out, of two kinds, and two in, of three kinds (for the slot, for a fiber, without a listener), of three to five bytes; a receive buffer of five bytes, one refusal, one read of nothing, fairness | `TypeOK`, `OneWakeup`, `QueueIsRest`, `ReceivesWhole`, `SendsStream`, `SendsAll`, `ReceivesAll`; `KeepsBytes`, `CountsHandles` |
| `App` | two plants with a sensor each; two requests, three changes of one plant's connection, one plant reported lost, one message that arrives twice, fairness | `TypeOK`, `NoRequestForgotten`, `FineFromDest`, `OneLoop`, `SensingHasLoop`, `PlantKnown`, `EveryRequestAnswered` |

**Why the bounds are enough to be interesting.** Sequence numbers are 0..2 and
start at 2, so the first message wraps as 255 -> 0 does. Two fragments give every
order of a "first" and a "last" one, of loss and of repetition. One or two
retransmissions separate a first sending, a repetition and giving up. The driver's
queue holds one or two datagrams, so that acknowledgements and retransmissions
cross in it and it overflows. Three nodes are the least with a relay, two waves
the least that overlap, two payloads the least that can change order. A timeout, a
restart or a repetition happens at any point, once. Above the MAC layer only `NetRelay` repeats a
message, one of the relay's; a relay that forwards a JOIN, or more repetitions, beside the traffic of
`NetRelay`, `NetTree` or `NetCommands` multiplies their states beyond what is practical.
In `Serial` a message is longer than the parts the driver takes and the receive
buffer holds no two messages, so that each is cut at every place, the
queue grows during a sleep, the buffer overflows, and the payload of a message looks
like a header. In `App` two requests are the least that share the sink's variables, for
two plants, one of whose gradients sets no rate and one a rate that is raised;
three changes make a plant connect, lose its tree and connect again.
Each property of a passing
run has a mutant in `PROJECT.json`, a plausible mistake in the code that
violates it under the same bounds.

**Premises of the passing runs.** Some properties hold only under conditions that
the configurations state by their bounds:

* `OneOutcome`, `WholeMessages`, `NoRepetition`, `IgnoresOnlyRepetitions`,
  `ImplementsService`: while no two messages of a node have the same number. A record, an
  acknowledgement and a packet on the air name their message by its number only, so a
  number that comes back after a restart (`MacReboot`) or after 256 messages
  (`MacLayer.cpp:461`) breaks each of them.
* `LoopFree`, `RoutesArePaths`: without restarts of nodes. A node that restarts has counter 0, and
  a delayed `RT_INIT` of its own subtree becomes its rely.
* `NeverPopsEmpty`: without restarts of the host after its first start, and one fragment per message. With a host
  restart and two requests the sink may send a request twice, and the second
  answer ends the next request; with fragmented messages the TIMEOUT of a second
  fragment has the same effect on the queue of packets.
* `CommandsArrive`: one fiber in `send(payload, destination)`. The payload is in a
  field that a second fiber overwrites.
* `SendReturns`: no answer of the host comes that the sink does not wait for
  (`UnawaitedAnswer`, the premise in the formula). With the exchange of a `PUT` or two, a `GET` and
  a restart of the host, `recv_from_serial` sends a request again that `send_to_serial`
  is just sending; its second answer ends the next exchange, the true answer is
  taken in `DD_SERIAL_READY_TO_SEND`, and the fiber sleeps for ever: the
  application keeps `waiting_ack` set and refuses every request from then on.
* `ReceivesWhole`, `ReceivesAll`: no byte was dropped and no read found nothing.
* `SendsAll`: `recv_payload` does not go round for ever for a byte that was dropped. While
  it does, no `SERIAL_DATA_READY` is handled (`SerialCom.cpp:118`).
* `SensingHasLoop`: the sensor got no gradient without a rate that was taken for one with rate 0.
* `FineFromDest` says that the plant carried out *a* request. An acknowledgement has no
  number, and one that comes after its request was given up answers the next
  request to the same plant, so "fine" (`inc/ApplicationLayer.h:42`) may be said of a
  gradient that was never set.

**Fairness.** `MacLayer!Fairness`: the bus delivers every event, the driver every
datagram in its queue, the idle fiber runs again and again. Nothing is assumed of
the radio, which may lose everything, nor of the driver accepting a datagram it
refused. `NetworkLayer!Fairness`: each node's bus is drained, its `idleTick` runs,
a fiber woken by a notification returns, and a host that runs answers. Nothing is assumed of
the applications, the timers or the radio. `SerialCom!Fairness`: while a
fiber can run (`Yields`) events are delivered and the driver sends what it took; the driver
hands over the bytes it has, and what the host sent arrives (or is dropped); nothing is
assumed of those who send. `ApplicationLayer!Fairness`: fibers
that can run do, time passes, and the network layer answers for the host; nothing is
assumed of the plants and of the network. These are properties of the micro:bit's
scheduler: its idle fiber runs whenever nothing else can, and it wakes every sleeping
fiber whose event was fired.

## 4. Disagreements between code and comments

* `MacReboot`. The list of received packets is "used to ignore retransmitted
  packets" (`inc/MacLayer.h:207-208`). After a reboot the numbers start at 248
  again, and new messages are taken for repetitions: acknowledged and dropped.
* `MacNullEntry`. `waiting` holds "packets sent which we are waiting for an ack"
  (`inc/MacLayer.h:120`); a repeated acknowledgement puts a null pointer in it.
* `NetBlocked`. Of a broadcast no acknowledgement is awaited: "in questo caso non viene
  atteso un ack, ne in caso di ricezione, inviato" (`project.md:51`). The state to wait in is
  chosen when a packet is dispatched, by `rt_formed`. In the run a TIMEOUT disconnects the node while a
  newer `RT_INIT` is on its bus; the CONNECTION_LOST that `rt_disconnect` queues keeps the queue
  busy, `idleTick` queues a JOIN for everyone behind it, the node takes the new rely, and
  the JOIN is dispatched under `DD_WAIT_TO_SINK`. The MAC layer answers no broadcast, so
  only an event about an earlier message could end that wait.
* `NetTimeout`. `rt_disconnect` is "called when the node lost the connection to
  its rely" (`inc/NetworkLayer.h:278`). It is called for any TIMEOUT while the node
  waits for its rely, also when the message was for the previous rely.

Others, most of them listed as hazards without a property of their own:

* A radio error leaves the queue asleep (`NoLostWakeup` makes the exception explicit).
* LEAVE has no counter.
* A JOIN that is dispatched just before the node takes a rely is broadcast although it is
  connected; `inc/NetworkLayer.h:73` says "(to rely) if (rt_formed)". A CONNECTION_LOST can
  be waited for as the JOIN of `NetBlocked` is.
* A payload that is late stops all fibers while reads return 0 (`SendsAll` makes the exception
  explicit).
* A gradient may go to the wrong plant when a disconnection ends a request in the middle of `send`.
* `main.cpp` lacks a semicolon after its call of `addSensor("heart_rate", ...)`.

## 5. Proofs

All theorems hold for every value of the constants that satisfies the named
assumptions of the module they are about, and rest on nothing else.

| Module | Theorem | Statement |
|---|---|---|
| `MacLayerProofs` | `TypeCorrect` | `Spec => []TypeOK` |
| | `WakeupKept` | `Spec => []NoLostWakeup` |
| | `QueueConsistent` | `Spec => []QueuedOnce` |
| | `AttemptsKept` | `Spec => []AttemptsBounded` |
| `NetworkLayerProofs` | `TypeCorrect` | `Spec => []TypeOK` |
| | `WavesAreFresh` | `Spec => FreshWave` |
| | `RelyTree` | `OnlySinkRestarts => (Spec => []LoopFree)` |
| | `QueueWithoutRely` | `Spec => []NothingForLostRely` |
| `MacDeliveryProofs` | `NothingForgotten` | `Spec => []NoForgottenMessage` |
| | `OutcomesAgree` | `Spec => [](NumbersUnique => OneOutcome)` |
| | `MessagesWhole` | `Spec => [](NumbersUnique => WholeMessages)` |
| | `NothingRepeated` | `Spec /\ []NumbersUnique => NoRepetition` |
| | `OnlyRepetitionsIgnored` | `Spec /\ []NumbersUnique => IgnoresOnlyRepetitions` |
| | `NumbersStayUnique` | `ASSUME NumbersLast PROVE Spec => []NumbersUnique` |
| `MacRefinementProofs` | `Implements` | `Spec /\ []NumbersUnique => ImplementsService` |
| `NetworkDeliveryProofs` | `AcksGatherPaths` | `OnlySinkRestarts => (Spec => []RoutesArePaths)` |
| | `QueuesHaveWork` | `Frags = 1 => (Spec /\ []~UnawaitedAnswer => []NeverPopsEmpty)` |
| | `CommandsGetThere` | `OneCaller => (Spec /\ []~UnawaitedAnswer => []CommandsArrive)` |
| | `DataKeepsOrder` | `Frags = 1 => (Spec /\ []Steady /\ RelyStays => []DataInOrder)` |
| `SerialComProofs` | `TypeCorrect` | `Spec => []TypeOK` |
| | `WakeupOnce` | `Spec => []OneWakeup` |
| | `QueueKept` | `Spec => []QueueIsRest` |
| | `StreamImplemented` | `Spec => SendsStream` |
| | `MessagesReceived` | `Spec => []ReceivesWhole` |
| `SerialBuffersProofs` | `HandlesCounted` | `BSpec => []CountsHandles` |
| | `BytesKept` | `BSpec => []KeepsBytes` |
| | `BufferedSerialCom` | `BSpec => Spec` |
| `ApplicationProofs` | `TypeCorrect` | `Spec => []TypeOK` |
| | `RequestsAreKept` | `Spec => []NoRequestForgotten` |
| | `FineIsTrue` | `Spec => []FineFromDest` |
| | `LoopsAreSingle` | `Spec => []OneLoop` |
| | `LoopsAreRunning` | `Spec => []SensingHasLoop` |
| | `PlantsAreKnown` | `Spec => []PlantKnown` |

**MacLayer.** The inductive invariant is `IInv == TypeOK /\ NoLostWakeup /\ QueuedOnce /\
AttemptsBounded`, all of which `MacTwoWay` checks. It is one invariant because the parts need
each other. `TypeOK` needs `QueuedOnce`: what `IdleTick` puts into
`disconnected_destination` is a node only because the packets in `waiting` are
unicast. `AttemptsBounded` needs `QueuedOnce`: `SendToRadio` increments the count
of the packet it finds in the queue, and that packet was marked queued, hence below the
bound, because the queue and the marks agree. `QueuedOnce` itself needs that
`Send` takes a number no outstanding packet has (`SeqRetired`), and that
`Ordered` visits each due hash once. `WakeupKept` follows from the shape of
`Wakes` and the four places that change the length of the queue.

`MacLayerProofs` is laid out as lemmas on concatenation, removal and partial
functions, then one lemma per action and part of the invariant, then `NextIInv`.

**What the MAC layer delivers.** `DInv` has two parts. `General` holds of every behaviour,
restarts and reused numbers included: every packet in a queue or in `waiting` is a
fragment of the message of `log` it names, and the entry of `waiting_for_ack` counts
what was acknowledged, so that the acknowledgements with the packets still waiting make
up the fragments of the message (`CountsWell`). `NoForgottenMessage` follows: an
unanswered message whose count is not full has a packet. `WhileUnique` needs
`NumbersUnique`, no two messages of a node with the same number: then a datagram on the
air, a receive record and an acknowledgement tell one message from another, an
acknowledgement of a message of one packet shows that it was delivered, a record that is
kept after the delivery makes `checkRepetition` true, and the fragments in a record are of
one message. The invariant is `General /\ (NumbersUnique => WhileUnique)`, so the premise
is about the present state only; for the action properties and the refinement it is a premise on
the behaviour. It is not vacuous: `NumbersStayUnique` derives it from the bounds
`NumbersLast`, at most as many messages as numbers (256 in the code) and a restart only of nodes
that send one message. `EntryAssumption` says that a null pointer is not an entry of `waiting`.

`Implements` shows, action by action, that `MacLayer` submits, delivers, fires SENT,
TIMEOUT or does nothing that `MacService` sees. The steps that matter are a delivery
(to the destination of an entry of `log`, by `RecordsWell`), SENT (only after a delivery
if the message is one packet) and TIMEOUT (at most one per fragment, since each
takes a packet out of `waiting`).

**NetworkLayer.** `IInv` is a stronger type invariant with the facts that the
fields of the queues need: each queue, bus and list is a sequence of entries of its kind,
and every counter a node or a packet holds is at most `stored`, the one in the flash, which is
the sink's own while it is up. That the counter is in the flash before a wave
with it is announced is what makes this inductive, and `FreshWave` follows:
the next counter is above all of them. `RelyTree` rests on `Climbs`: the counter of a
node's rely is newer than its own, or the same with a smaller depth. A cycle
of relies would have a node that is least in this order (well-foundedness of the
naturals), whose rely would be less still. The order is on the history variable `depth`, which a
wave carries and no action reads. A restart of a node takes its counter back to 0, hence
`OnlySinkRestarts`, a statement on the bound `MaxRestart`. `QueueWithoutRely` needs that what a node queues for its
rely it queues while the tree is formed, and that `rt_disconnect` empties the queue.

`AcksGatherPaths` (`RoutesArePaths`) rests on `Behind`: with the order of `Climbs`, each node on the
route an `RT_ACK` has gathered comes strictly behind the node that is to take it next,
and stays behind when relies change, because counters only grow. A route that is extended
with the receiver therefore visits nobody twice. `PUT` and the routes of the host are taken
from such acknowledgements.

`QueuesHaveWork` (`NeverPopsEmpty`) counts: at each node the READY_TO_SEND, SENT and TIMEOUT events on
the bus, the messages the MAC layer has still to answer (`Open`) and the states that
wait for one agree with `send_state` and the queue, so that there is one token for the
next packet and it is there only while the queue is not empty (`Fine`, `PopsInv`); the same for
the serial exchange (`SerialFine`). `Frags = 1` is needed: with two fragments a second
TIMEOUT, after the first one's READY_TO_SEND, dispatches again. `~UnawaitedAnswer` is needed for the
serial half, as for `SendReturns`.

`CommandsGetThere` (`CommandsArrive`) follows a command from the request to the destination: the payload in
`serial_send_get_payload` is for the node whose route was asked (`Awaited`), the k-th
answer of the host belongs to the k-th request (`PairInv`), and a command on its way is at a node of
the route, with the rest of it to go (`OnRoute`). `OneCaller` says that one fiber at a time
is in `send(payload, destination)`.

`DataKeepsOrder` (`DataInOrder`) gives each node `o` that has a rely a *lane* (`Lane`): the nodes its
payloads go through, each of which but the sink sends to its rely, a node of the lane, and to no
other's. For each node `k` of the lane there are three numbers, which the invariant only says to exist:
`B[k]`, the last payload of `o` that `k` has taken, `Q[k]`, the last it has handed to its MAC
layer, and `L[k]`, the last its rely was delivered. What `k` has queued runs in ascending order from `Q[k]`
to `B[k]`, what its MAC layer may still deliver is after `L[k]` and up to `Q[k]`, and
what is on the bus of its rely runs from the `B` of that rely to `L[k]` (`Run`). So a payload that is
taken is after all that were taken before, hop by hop, up to what the application of the sink is given. Most
steps move no payload of `o` (`WhichMoves`); the four that do, `Send`, `SendToMac`,
`MacDeliver` and `RecvData`, advance one of the numbers. That a MAC layer is never given a payload
before the last one is answered is `PopsInv` of `QueuesHaveWork`. A node without a rely has
sent nothing (`Silent`), and when it takes one its lane is that of its rely, with itself in
front. The premises are about the behaviour: `Steady`, no message was given up or
repeated so far, and `RelyStays`, a node that took a rely keeps it, through any number of waves. They hold
of every behaviour of a line without losses. Without them the order is not promised by the code:
with one TIMEOUT and a second wave on two nodes, or with two fragments on
the line of `NetRelay`, TLC finds `DataInOrder` violated; after a repetition `DataInOrder`
allows a payload to come again, which the run checks and the theorem leaves out; and what is sent to a new rely
may overtake what the old one still holds.

**SerialCom.** `IInv` is `TypeOK`, `OneWakeup` and `QueueIsRest`, which need each
other: `SendReturns` pops a queue that is not empty because a handler that sleeps in
`serial.send` counts as a wake-up, and `sent` is below the length of the first message
because it was reset with it. `StreamImplemented` maps each `SendReturns` and `Send` to a
stutter or a `Write`, and each `SendToSerial` to a `Transmit`: the bytes it puts on the line are the next ones of
the stream by `QueueIsRest`.

`MessagesReceived` (`ReceivesWhole`) needs the position of the handlers in the stream. `InStep` says that
there are positions at which the frames of what the host sent lie in its bytes (`Laid`),
that `rx` and `wire` are the bytes after those the handlers took (`Left`), that the stage, `len` and `buf` fit the
frame the handlers are in (`Reading`), and that `got` is what was due of the frames
before it (`Served`). The positions are quantified: they are a function of what was
sent, and a function defined by recursion over it would be beyond the provers.

**SerialBuffers.** `BInv` is the invariant of `SerialCom` with `Balanced`, the count of each block is the
sum of its handles in the queue, in `toSend`, in `slot` and in the fibers; `Refers`, the bytes of a
block with a handle are those it was taken for; and `Sleeper`, a sleeping `send_to_serial`
holds the first of the queue. `Grown` and `Shrunk` say what one handle more or less does to a
heap: every member function of `ManagedBuffer` is one or two of these, so each action is balanced by
counting its handles. Since a block is in use exactly while its count is above 0, `malloc` never hands out an
address somebody holds. `BufferedSerialCom` carries the theorems about `SerialCom` over.

**ApplicationLayer.** `NoRequestForgotten` needs `OneCreated`: when a fiber that was
created runs, no other is created, since the bus was stopped; so it overwrites
`waiting_ack` and `serving` while nobody is served. `FineFromDest` needs that `dest`
is the plant of the request in `serving` (`DestOfServed`) and that an
acknowledgement on its way comes from a plant that carried out a request
(`AcksApplied`). `SensingHasLoop` rests on `OneLoop`. `PlantKnown` needs that the newest
change a plant has queued is what its network layer holds (`KnownInv`).

Only model-checked: the liveness properties `EveryMessageAnswered`, `SendReturns`,
`SendsAll`, `ReceivesAll` and `EveryRequestAnswered`, under fairness, which the prover does not
reach. Every invariant and action property of a run that passes is stated by a theorem.
The runs that expect a violation show counterexamples.

## 6. Not modelled

* ApplicationLayer: the thresholds and values of samples, the wording of messages
  to the host about plants and samples, sensors added after the start.
* SerialCom: `test_init` and `execute_tasks`, an older version that polls.
* ManagedBuffer: reading, comparing and cutting bytes, which change no other handle.
* Byte layouts (`DDPacket`, `DDNodeRoute`, `DDPayloadWithNodeRoute`, `Message`): records and
  sequences. MemberFunctionCallbackSerial has no state that changes; main and the
  sensor drivers are input and output.
* `DD_SERIAL_CLEAR` is never sent, its only call is commented out; debug messages.
* Real time: the delays of the timers and the random part of them.

## 7. Plan

Done: the three layers, the serial line and its buffers, with the theorems above.
What would come next:

1. `NetworkLayer` over `SerialCom` in place of its own order of messages (`LineRead`), and
   `ApplicationLayer` over `NetworkLayer`: the hazards between them (a disconnection
   during `send`, an unawaited answer) are now seen from each side alone.
2. `MacLayer` with a clock for the receive records: is a window of 11 * 64 ms
   longer than the last retransmission? And with a full lap of sequence numbers.
3. The byte layouts, as functions from records to sequences of bytes and back.
4. Properties of the origin a `PUT` reports (`NetworkLayer.cpp:1172`) and of a late LEAVE
   (`NetworkLayer.cpp:844`), once the repository says what is wanted.
