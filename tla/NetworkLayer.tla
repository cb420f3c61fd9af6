---------------------------- MODULE NetworkLayer ----------------------------
(***************************************************************************)
(* The network layer of every node (source/NetworkLayer.cpp,               *)
(* inc/NetworkLayer.h): the sink floods DD_RT_INIT with a growing counter, *)
(* each node takes as its rely the first neighbour it hears a newer        *)
(* counter from and acknowledges along the relies with the route back; the *)
(* sink stores the routes in the host on its serial line and asks it for   *)
(* one when it sends a command.                                            *)
(*                                                                         *)
(* An event handler runs to completion, so a handler is one action.  The   *)
(* message bus of a node is a FIFO queue; the bus stops draining it when a *)
(* fiber becomes runnable, so idleTick may run between any two events.     *)
(* Timers are untimed.  The MAC layer is the service it promises (see      *)
(* MacService); the host is modelled from the messages this code exchanges *)
(* with it.                                                                *)
(***************************************************************************)
EXTENDS Naturals, Sequences, FiniteSets, SequencesExt

CONSTANTS
  Node,        \* the micro:bits, named by their serial numbers
  Sink,        \* the one in sink mode
  Broadcast,   \* address 0: NETWORK_BROADCAST, and rely before a connection
  NULL,
  InRange,     \* node -> the nodes that hear it
  Avoid,       \* node -> the node avoid_rt_init_from names, or NULL
  Caller,      \* the fibers of the sink that call send(payload, destination)
  Frags,       \* fragments of a message: TIMEOUT may be fired for each
  MaxCounter,  \* bound: the broadcast counter
  MaxJoin,     \* bound: joins each node originates
  MaxData,     \* bound: payloads the application of each node sends
  MaxCommand,  \* bound: commands the sink's application sends
  MaxRestart,  \* bound: restarts of each node
  MaxHostStart,\* bound: starts of the host
  MaxLate,     \* bound: requests on the line when the host starts that it answers
  MaxRepeat,   \* bound: messages of each node that are delivered a second time
  MaxTimeout,  \* bound: TIMEOUT events
  Reader       \* bound: the nodes whose application reads its queues

ASSUME NodeAssumption == Sink \in Node /\ Broadcast \notin Node
ASSUME NullAssumption == NULL \notin Node \cup {Broadcast}
ASSUME TopologyAssumption ==
  /\ InRange \in [Node -> SUBSET Node] /\ Avoid \in [Node -> Node \cup {NULL}]
ASSUME BoundAssumption ==
  /\ Frags \in Nat \ {0} /\ MaxCounter \in Nat /\ MaxCommand \in Nat
  /\ MaxHostStart \in Nat /\ MaxLate \in Nat /\ MaxTimeout \in Nat
  /\ {MaxJoin, MaxData, MaxRestart, MaxRepeat} \subseteq [Node -> Nat]
  /\ Reader \subseteq Node

VARIABLES
  broadcast_counter, rt_formed, rely,       \* the tree, per node
  send_state, sending_to, outBufferPackets, \* sending, per node
  inBufferPackets, inBufferNodes,           \* for the application, per node
  fast_rt_init,                             \* at the sink
  serial,     \* at the sink: the exchange with the host
  stored,     \* the broadcast counter in the sink's flash
  bus,        \* per node: the events on its message bus, with what they carry
  mac,        \* per node: what the MAC layer still has to do
  host,       \* the host: the requests on the serial line, and its routes
  caller,     \* per fiber in Caller: the destination it waits for, or NULL
  used,       \* how much of each bound is used
  depth       \* history: hops to the sink when the rely was taken

treeVars == <<broadcast_counter, rt_formed, rely, depth>>
sendVars == <<send_state, sending_to, outBufferPackets>>
appVars == <<inBufferPackets, inBufferNodes>>
sinkVars == <<fast_rt_init, serial, stored, host, caller>>
vars == <<treeVars, sendVars, appVars, sinkVars, bus, mac, used>>

-----------------------------------------------------------------------------
(* Packets and events.                                                     *)

Type == {"RT_INIT", "DATA", "COMMAND", "RT_ACK", "JOIN", "LEAVE", "CONNECTION_LOST"}

\* DDPacket::of. counter is the payload of RT_INIT and part of RT_ACK's (of
\* LEAVE's only as history), route the node list of RT_ACK and COMMAND, body
\* the other data, depth history.
Packet(n, type, forward, origin) ==
  [type |-> type, source |-> n, forward |-> forward, origin |-> origin,
   counter |-> 0, route |-> <<>>, body |-> NULL, depth |-> 0]

RtInit(n, c, d) ==
  [Packet(n, "RT_INIT", Broadcast, Broadcast) EXCEPT !.counter = c, !.depth = d]
Data(n, origin, body) ==
  [Packet(n, "DATA", rely[n], origin) EXCEPT !.body = body]
RtAck(n, to, c, route, origin) ==
  [Packet(n, "RT_ACK", to, origin) EXCEPT !.counter = c, !.route = route]
Join(n, origin) ==
  Packet(n, "JOIN", IF rt_formed[n] THEN rely[n] ELSE Broadcast, origin)
Leave(n, address, c, origin) ==
  [Packet(n, "LEAVE", rely[n], origin) EXCEPT !.body = address, !.counter = c]
ConnectionLost(n) == Packet(n, "CONNECTION_LOST", Broadcast, n)

\* send_command after DDNodeRoute::take: the first node of the route is where
\* the packet goes, the rest travels with it.
KeepsFirst(n, route, body, origin) ==       \* mutant: take does not remove it
  [Packet(n, "COMMAND", Head(route), origin) EXCEPT !.route = route, !.body = body]
Command(n, route, body, origin) ==
  [Packet(n, "COMMAND", Head(route), origin) EXCEPT !.route = Tail(route), !.body = body]

\* DDNodeRoute::push adds a node at the start.
PushBack(n, route) == Append(route, n)      \* mutant: at the end
Push(n, route) == <<n>> \o route

Event(ev) == [ev |-> ev, pkt |-> NULL]
EventOf(ev, p) == [ev |-> ev, pkt |-> p]

At(n, ev) == bus[n] # <<>> /\ Head(bus[n]).ev = ev
Fire(n, events) == bus' = [bus EXCEPT ![n] = @ \o events]
Handled(n, events) == bus' = [bus EXCEPT ![n] = Tail(@) \o events]

Pending(ev) == Cardinality({i \in DOMAIN bus[Sink] : bus[Sink][i].ev = ev})

Enqueue(n, packets) ==
  outBufferPackets' = [outBufferPackets EXCEPT ![n] = @ \o packets]
Notify(n, status, address) ==
  inBufferNodes' = [inBufferNodes EXCEPT ![n] =
    Append(@, [status |-> status, address |-> address])]

-----------------------------------------------------------------------------
\* ManagedBuffer::EmptyPacket, which recv_from_serial reads as an answer.
EmptyAnswer == [mode |-> "ANSWER", found |-> FALSE, route |-> <<>>]

NoSerial == [initiated |-> FALSE, up |-> FALSE, out |-> <<>>, state |-> "READY",
             in_send |-> NULL, received |-> EmptyAnswer, get_payload |-> NULL,
             put_origin |-> Broadcast, waits |-> FALSE, found |-> FALSE]

\* init, up to serial_wait_init: the sink waits for the host; the other nodes,
\* which have no serial line, are ready.
Init ==
  /\ broadcast_counter = [n \in Node |-> 0]
  /\ rt_formed = [n \in Node |-> FALSE]
  /\ rely = [n \in Node |-> Broadcast]
  /\ send_state = [n \in Node |-> "READY"]
  /\ sending_to = [n \in Node |-> Broadcast]
  /\ outBufferPackets = [n \in Node |-> <<>>]
  /\ inBufferPackets = [n \in Node |-> <<>>]
  /\ inBufferNodes = [n \in Node |-> <<>>]
  /\ fast_rt_init = FALSE
  /\ serial = NoSerial
  /\ stored = 0
  /\ bus = [n \in Node |-> <<>>]
  /\ mac = [n \in Node |-> <<>>]
  /\ host = [to |-> <<>>, routes |-> {}]
  /\ caller = [f \in Caller |-> NULL]
  /\ used = [join |-> [n \in Node |-> 0], data |-> [n \in Node |-> 0],
             restart |-> [n \in Node |-> 0], repeat |-> [n \in Node |-> 0],
             command |-> 0, host |-> 0, timeout |-> 0]
  /\ depth = [n \in Node |-> 0]

Up(n) == n = Sink => serial.up

\* init after serial_wait_init: the counter is read from the flash.
Boot ==
  /\ serial.initiated /\ ~serial.up
  /\ broadcast_counter' = [broadcast_counter EXCEPT ![Sink] = stored]
  /\ serial' = [serial EXCEPT !.up = TRUE, !.in_send = NULL, !.get_payload = NULL,
                              !.received = EmptyAnswer]
  /\ UNCHANGED <<rt_formed, rely, depth, sendVars, appVars, fast_rt_init, stored,
                 host, caller, bus, mac, used>>

-----------------------------------------------------------------------------
(* idleTick.                                                               *)

\* The state entered for the packet at the front, by its type.
NotAwaited(n, p) ==                         \* mutant: data does not wait for its answer
  CASE p.type \in {"RT_ACK", "LEAVE"} -> "SINK"
    [] p.type = "COMMAND" -> "SUBTREE"
    [] OTHER -> "BROADCAST"
StateFor(n, p) ==
  CASE p.type \in {"DATA", "RT_ACK", "LEAVE"} -> "SINK"
    [] p.type = "COMMAND" -> "SUBTREE"
    [] p.type \in {"CONNECTION_LOST", "RT_INIT"} -> "BROADCAST"
    [] p.type = "JOIN" -> IF rt_formed[n] THEN "SINK" ELSE "BROADCAST"

\* The last part of idleTick, when the queue is q and other events were fired.
Dispatch(n, q, fired) ==
  LET goes == send_state[n] = "READY" /\ q # <<>>
  IN /\ fired # <<>> \/ goes \/ q # outBufferPackets[n]
     /\ send_state' = [send_state EXCEPT ![n] = IF goes THEN StateFor(n, Head(q)) ELSE @]
     /\ outBufferPackets' = [outBufferPackets EXCEPT ![n] = q]
     /\ Fire(n, fired \o IF goes THEN <<Event("ready")>> ELSE <<>>)

\* A node that is not connected asks for the tree once per second.
NodeIdleTick(n) ==
  /\ n # Sink
  /\ \E elapsed \in BOOLEAN :
       /\ elapsed => ~rt_formed[n] /\ used.join[n] < MaxJoin[n]
       /\ Dispatch(n, outBufferPackets[n] \o IF elapsed THEN <<Join(n, n)>> ELSE <<>>, <<>>)
       /\ used' = IF elapsed THEN [used EXCEPT !.join[n] = @ + 1] ELSE used
  /\ UNCHANGED <<treeVars, sending_to, appVars, sinkVars, mac>>

\* The sink does nothing else while an exchange with the host is under way, or
\* when one starts.
DispatchesTwice == TRUE                     \* mutant: the state is not looked at
SerialIdle == serial.state = "READY"

SerialIdleTick ==
  /\ serial.up /\ SerialIdle /\ serial.out # <<>>
  /\ serial' = [serial EXCEPT !.state = Head(serial.out).mode]
  /\ Fire(Sink, <<Event("serial_ready")>>)
  /\ UNCHANGED <<treeVars, sendVars, appVars, fast_rt_init, stored, host, caller,
                 mac, used>>

\* After a second of 60 or, when a join was heard, half a second, the sink
\* renews the tree.
SinkIdleTick ==
  /\ serial.up /\ SerialIdle /\ serial.out = <<>>
  /\ \E elapsed \in BOOLEAN :
       /\ elapsed => broadcast_counter[Sink] + Pending("incr") < MaxCounter
       /\ Dispatch(Sink, outBufferPackets[Sink],
                   IF elapsed THEN <<Event("incr")>> ELSE <<>>)
       /\ fast_rt_init' = IF elapsed THEN FALSE ELSE fast_rt_init
  /\ UNCHANGED <<treeVars, sending_to, appVars, serial, stored, host, caller, mac, used>>

-----------------------------------------------------------------------------
(* Sending, and the MAC layer's answers.                                   *)

\* What the MAC layer does with a message: left are the nodes it may still
\* reach; sent and timeouts count the events it fired for it.
MacMessage(n, p) ==
  [pkt |-> p, sent |-> 0, timeouts |-> 0,
   left |-> IF p.forward = Broadcast THEN InRange[n] ELSE {p.forward} \cap InRange[n]]

\* send_to_mac. On an empty queue its front() is undefined and nothing the node
\* does afterwards is known: the model leaves the node there, the event at the
\* head of its bus (NeverPopsEmpty).
SendToMac(n) ==
  /\ At(n, "ready")
  /\ outBufferPackets[n] # <<>>
  /\ LET p == Head(outBufferPackets[n])
     IN /\ sending_to' = [sending_to EXCEPT ![n] = p.forward]
        /\ mac' = [mac EXCEPT ![n] = Append(@, MacMessage(n, p))]
  /\ outBufferPackets' = [outBufferPackets EXCEPT ![n] = Tail(@)]
  /\ send_state' = [send_state EXCEPT ![n] = IF @ = "BROADCAST" THEN "READY" ELSE @]
  /\ Handled(n, <<>>)
  /\ UNCHANGED <<treeVars, appVars, sinkVars, used>>

Waiting(n) == send_state[n] \in {"SINK", "SUBTREE"}

\* packet_sent: whatever message the event is about.
PacketSent(n) ==
  /\ At(n, "sent")
  /\ send_state' = [send_state EXCEPT ![n] = IF Waiting(n) THEN "READY" ELSE @]
  /\ Handled(n, <<>>)
  /\ UNCHANGED <<treeVars, sending_to, outBufferPackets, appVars, sinkVars, mac, used>>

\* rt_disconnect: the queue is emptied, the subtree and the application are told.
KeepsQueue(n) ==                            \* mutant: the queue is not emptied
  /\ rt_formed' = [rt_formed EXCEPT ![n] = FALSE]
  /\ outBufferPackets' = [outBufferPackets EXCEPT ![n] = Append(@, ConnectionLost(n))]
  /\ Notify(n, FALSE, rely[n])
  /\ UNCHANGED <<broadcast_counter, rely, depth>>

RtDisconnect(n) ==
  /\ rt_formed' = [rt_formed EXCEPT ![n] = FALSE]
  /\ outBufferPackets' = [outBufferPackets EXCEPT ![n] = <<ConnectionLost(n)>>]
  /\ Notify(n, FALSE, rely[n])
  /\ UNCHANGED <<broadcast_counter, rely, depth>>

\* send_leave: the sink tells its application, a node tells its rely.
SinkLeavesToo(n) ==                         \* mutant: sink_mode is not looked at
  /\ Enqueue(n, <<Leave(n, sending_to[n], broadcast_counter[n], n)>>)
  /\ UNCHANGED <<inBufferNodes, treeVars>>

SendLeave(n) ==
  /\ IF n = Sink
     THEN Notify(n, FALSE, sending_to[n]) /\ UNCHANGED outBufferPackets
     ELSE /\ Enqueue(n, <<Leave(n, sending_to[n], broadcast_counter[n], n)>>)
          /\ UNCHANGED inBufferNodes
  /\ UNCHANGED treeVars

\* packet_timeout: whatever message the event is about.
PacketTimeout(n) ==
  /\ At(n, "timeout")
  /\ \/ send_state[n] = "SINK" /\ RtDisconnect(n)
     \/ send_state[n] = "SUBTREE" /\ SendLeave(n)
     \/ ~Waiting(n) /\ UNCHANGED <<treeVars, outBufferPackets, inBufferNodes>>
  /\ send_state' = [send_state EXCEPT ![n] = IF Waiting(n) THEN "READY" ELSE @]
  /\ Handled(n, <<>>)
  /\ UNCHANGED <<sending_to, inBufferPackets, sinkVars, mac, used>>

-----------------------------------------------------------------------------
(* recv_from_mac: one action per type of packet that is accepted.          *)

OldToo(n, p) == p.counter >= broadcast_counter[n]  \* mutant: not strictly newer
Newer(n, p) == p.counter > broadcast_counter[n]

AcceptsRtInit(n, p) == n # Sink /\ Newer(n, p) /\ p.source # Avoid[n]
\* DATA and LEAVE, and RT_ACK of the current tree.
AcceptsUp(n, p) == p.forward = n /\ (n # Sink => rt_formed[n])
AcceptsRtAck(n, p) == AcceptsUp(n, p) /\ p.counter = broadcast_counter[n]
AcceptsCommand(n, p) == n # Sink /\ p.forward = n
AcceptsJoin(n, p) == n # Sink => rt_formed[n]
AcceptsConnectionLost(n, p) == n # Sink /\ rt_formed[n] /\ p.source = rely[n]

Accepts(n, p) ==
  CASE p.type = "RT_INIT" -> AcceptsRtInit(n, p)
    [] p.type \in {"DATA", "LEAVE"} -> AcceptsUp(n, p)
    [] p.type = "RT_ACK" -> AcceptsRtAck(n, p)
    [] p.type = "COMMAND" -> AcceptsCommand(n, p)
    [] p.type = "JOIN" -> AcceptsJoin(n, p)
    [] p.type = "CONNECTION_LOST" -> AcceptsConnectionLost(n, p)

\* The packet p of the given type is at the head of the bus and accepted.
Accepted(n, type) ==
  At(n, "recv") /\ Head(bus[n]).pkt.type = type /\ Accepts(n, Head(bus[n]).pkt)

Received(n) == Head(bus[n]).pkt

RecvIgnored(n) ==
  /\ At(n, "recv") /\ ~Accepts(n, Received(n))
  /\ Handled(n, <<>>)
  /\ UNCHANGED <<treeVars, sendVars, appVars, sinkVars, mac, used>>

\* rt_connect, send_rt_ack and send_rt_init.
RecvRtInit(n) ==
  /\ Accepted(n, "RT_INIT")
  /\ LET p == Received(n)
     IN /\ broadcast_counter' = [broadcast_counter EXCEPT ![n] = p.counter]
        /\ rely' = [rely EXCEPT ![n] = p.source]
        /\ rt_formed' = [rt_formed EXCEPT ![n] = TRUE]
        /\ depth' = [depth EXCEPT ![n] = p.depth + 1]
        /\ Notify(n, TRUE, p.source)
        /\ Enqueue(n, <<RtAck(n, p.source, p.counter, <<n>>, n),
                        RtInit(n, p.counter, p.depth + 1)>>)
  /\ Handled(n, <<>>)
  /\ UNCHANGED <<send_state, sending_to, inBufferPackets, sinkVars, mac, used>>

ToApplication(n, p) ==
  inBufferPackets' = [inBufferPackets EXCEPT ![n] =
    Append(@, [source |-> p.origin, body |-> p.body])]

RecvData(n) ==
  /\ Accepted(n, "DATA")
  /\ LET p == Received(n)
     IN IF n = Sink THEN ToApplication(n, p) /\ UNCHANGED outBufferPackets
        ELSE Enqueue(n, <<Data(n, p.origin, p.body)>>) /\ UNCHANGED inBufferPackets
  /\ Handled(n, <<>>)
  /\ UNCHANGED <<treeVars, send_state, sending_to, inBufferNodes, sinkVars, mac, used>>

\* A command is forwarded whether or not the node is connected.
RecvCommand(n) ==
  /\ Accepted(n, "COMMAND")
  /\ LET p == Received(n)
     IN IF p.route = <<>> THEN ToApplication(n, p) /\ UNCHANGED outBufferPackets
        ELSE Enqueue(n, <<Command(n, p.route, p.body, p.origin)>>)
             /\ UNCHANGED inBufferPackets
  /\ Handled(n, <<>>)
  /\ UNCHANGED <<treeVars, send_state, sending_to, inBufferNodes, sinkVars, mac, used>>

\* A node pushes itself on the route and sends the RT_ACK to its rely.
RelayRtAck(n, p) ==
  Enqueue(n, <<RtAck(n, rely[n], p.counter, Push(n, p.route), p.origin)>>)

\* serial_put_node_route, the only writer of serial_send_put_origin.
RecvRtAck(n) ==
  /\ Accepted(n, "RT_ACK")
  /\ LET p == Received(n)
     IN IF n = Sink
        THEN /\ serial' = [serial EXCEPT !.put_origin = p.origin, !.out =
                  Append(@, [mode |-> "PUT", route |-> p.route, dest |-> NULL])]
             /\ UNCHANGED outBufferPackets
        ELSE RelayRtAck(n, p) /\ UNCHANGED serial
  /\ Handled(n, <<>>)
  /\ UNCHANGED <<treeVars, send_state, sending_to, appVars, fast_rt_init, stored, host,
                 caller, mac, used>>

RecvJoin(n) ==
  /\ Accepted(n, "JOIN")
  /\ LET p == Received(n)
     IN IF n = Sink THEN fast_rt_init' = TRUE /\ UNCHANGED outBufferPackets
        ELSE Enqueue(n, <<Join(n, p.origin)>>) /\ UNCHANGED fast_rt_init
  /\ Handled(n, <<>>)
  /\ UNCHANGED <<treeVars, send_state, sending_to, appVars, serial, stored, host,
                 caller, mac, used>>

RecvLeave(n) ==
  /\ Accepted(n, "LEAVE")
  /\ LET p == Received(n)
     IN IF n = Sink THEN Notify(n, FALSE, p.body) /\ UNCHANGED outBufferPackets
        ELSE Enqueue(n, <<Leave(n, p.body, p.counter, p.origin)>>)
             /\ UNCHANGED inBufferNodes
  /\ Handled(n, <<>>)
  /\ UNCHANGED <<treeVars, send_state, sending_to, inBufferPackets, sinkVars, mac, used>>

RecvConnectionLost(n) ==
  /\ Accepted(n, "CONNECTION_LOST")
  /\ RtDisconnect(n)
  /\ Handled(n, <<>>)
  /\ UNCHANGED <<send_state, sending_to, inBufferPackets, sinkVars, mac, used>>

\* incr_broadcast_counter: the counter is stored before it is announced.
NotStored(c) == stored                      \* mutant: put is forgotten
PutStore(c) == c

IncrBroadcastCounter ==
  /\ At(Sink, "incr")
  /\ LET c == broadcast_counter[Sink] + 1
     IN /\ broadcast_counter' = [broadcast_counter EXCEPT ![Sink] = c]
        /\ stored' = PutStore(c)
        /\ Enqueue(Sink, <<RtInit(Sink, c, 0)>>)
  /\ Handled(Sink, <<>>)
  /\ UNCHANGED <<rt_formed, rely, depth, send_state, sending_to, appVars, fast_rt_init,
                 serial, host, caller, mac, used>>

-----------------------------------------------------------------------------
(* The sink's exchange with the host.                                      *)

SendToSerial ==
  /\ At(Sink, "serial_ready")
  /\ serial.out # <<>>
  /\ serial' = [serial EXCEPT !.in_send = Head(serial.out), !.out = Tail(@)]
  /\ host' = [host EXCEPT !.to = Append(@, Head(serial.out))]
  /\ Handled(Sink, <<>>)
  /\ UNCHANGED <<treeVars, sendVars, appVars, fast_rt_init, stored, caller, mac, used>>

NothingResent == <<>>                       \* mutant: the host is only acknowledged
Resent == IF SerialIdle \/ serial.in_send = NULL THEN <<>> ELSE <<serial.in_send>>

\* recv_from_serial of DD_SERIAL_INIT: the host has (re)started, and gets the
\* request that is out once more.
RecvInit ==
  /\ At(Sink, "table") /\ serial.received.mode = "INIT"
  /\ serial' = [serial EXCEPT !.initiated = TRUE]
  /\ host' = [host EXCEPT !.to = @ \o Resent]
  /\ Handled(Sink, <<>>)
  /\ UNCHANGED <<treeVars, sendVars, appVars, fast_rt_init, stored, caller, mac, used>>

\* serial_route_found, and the end of the wait for it.
RouteAnswered(found) ==
  [serial EXCEPT !.state = "READY", !.found = found, !.waits = FALSE]

\* recv_from_serial of an answer, whichever request it answers.
RecvAnswer ==
  /\ At(Sink, "table") /\ serial.received.mode = "ANSWER"
  /\ LET r == serial.received
     IN CASE serial.state = "GET" ->
               /\ serial' = RouteAnswered(r.found)
               /\ Enqueue(Sink, IF r.found
                                THEN <<Command(Sink, r.route, serial.get_payload, Sink)>>
                                ELSE <<>>)
               /\ UNCHANGED inBufferNodes
          [] serial.state = "PUT" ->
               /\ serial' = [serial EXCEPT !.state = "READY"]
               /\ Notify(Sink, TRUE, serial.put_origin)
               /\ UNCHANGED outBufferPackets
          [] serial.state = "READY" -> UNCHANGED <<serial, inBufferNodes, outBufferPackets>>
  /\ Handled(Sink, <<>>)
  /\ UNCHANGED <<treeVars, send_state, sending_to, inBufferPackets, fast_rt_init, stored,
                 host, caller, mac, used>>

-----------------------------------------------------------------------------
(* The application: send, recv and recv_connection.                        *)

Send(n) ==
  /\ n # Sink /\ rt_formed[n] /\ used.data[n] < MaxData[n]
  /\ Enqueue(n, <<Data(n, n, used.data[n] + 1)>>)
  /\ used' = [used EXCEPT !.data[n] = @ + 1]
  /\ UNCHANGED <<treeVars, send_state, sending_to, appVars, sinkVars, bus, mac>>

\* SerialCom::recv_payload calls the listener of a message, whose event goes on
\* the bus ahead of the events that read the next message.
LineRead == Pending("table") + Pending("request") = 0

\* The application of the sink gets its requests from the bus, and has each
\* carried out by a fiber.
Request ==
  /\ serial.up /\ used.command < MaxCommand
  /\ LineRead /\ \E f \in Caller : caller[f] = NULL
  /\ used' = [used EXCEPT !.command = @ + 1]
  /\ Fire(Sink, <<Event("request")>>)
  /\ UNCHANGED <<treeVars, sendVars, appVars, sinkVars, mac>>

\* send(payload, destination): the fiber f asks the host for the route and
\* sleeps until it has the answer.
SinkSend(f) ==
  /\ At(Sink, "request") /\ caller[f] = NULL
  /\ \E d \in Node \ {Sink} :
       /\ serial' = [serial EXCEPT !.get_payload = d, !.waits = TRUE, !.out =
            Append(@, [mode |-> "GET", route |-> <<>>, dest |-> d])]
       /\ caller' = [caller EXCEPT ![f] = d]
  /\ Handled(Sink, <<>>)
  /\ UNCHANGED <<treeVars, sendVars, appVars, fast_rt_init, stored, host, mac, used>>

SinkSendReturns(f) ==
  /\ caller[f] # NULL /\ ~serial.waits
  /\ caller' = [caller EXCEPT ![f] = NULL]
  /\ UNCHANGED <<treeVars, sendVars, appVars, fast_rt_init, serial, stored, host,
                 bus, mac, used>>

Recv(n) ==
  /\ n \in Reader /\ inBufferPackets[n] # <<>>
  /\ inBufferPackets' = [inBufferPackets EXCEPT ![n] = Tail(@)]
  /\ UNCHANGED <<treeVars, sendVars, inBufferNodes, sinkVars, bus, mac, used>>

RecvConnection(n) ==
  /\ n \in Reader /\ inBufferNodes[n] # <<>>
  /\ inBufferNodes' = [inBufferNodes EXCEPT ![n] = Tail(@)]
  /\ UNCHANGED <<treeVars, sendVars, inBufferPackets, sinkVars, bus, mac, used>>

-----------------------------------------------------------------------------
(* The MAC layer: MacService, with what is over forgotten.                 *)

\* Nothing more comes of m.
Over(m) == m.left = {} /\ (m.pkt.forward = Broadcast \/ m.sent = 1 \/ m.timeouts = Frags)

\* The i-th message of n becomes m, and is forgotten when nothing comes of it.
MacBecomes(n, i, m) ==
  mac' = [mac EXCEPT ![n] = IF Over(m) THEN RemoveAt(@, i) ELSE ReplaceAt(@, i, m)]

\* m may still arrive, but is answered no more.
Unanswered(m) == [m EXCEPT !.sent = 1, !.timeouts = Frags]

\* A message reaches a node, or never does.
MacDeliver(n) ==
  \E i \in DOMAIN mac[n] : \E m \in mac[n][i].left :
    /\ Up(m)
    /\ Fire(m, <<EventOf("recv", mac[n][i].pkt)>>)
    /\ MacBecomes(n, i, [mac[n][i] EXCEPT !.left = @ \ {m}])
    /\ UNCHANGED <<treeVars, sendVars, appVars, sinkVars, used>>

\* A unicast message will reach its receiver twice, which forgets it in between:
\* the second time may come long after the message is answered.
MacRepeat(n) ==
  \E i \in DOMAIN mac[n] :
    LET m == mac[n][i]
    IN /\ m.pkt.forward # Broadcast /\ m.left # {} /\ used.repeat[n] < MaxRepeat[n]
       /\ used' = [used EXCEPT !.repeat[n] = @ + 1]
       /\ mac' = [mac EXCEPT ![n] = Append(@, Unanswered(m))]
       /\ UNCHANGED <<treeVars, sendVars, appVars, sinkVars, bus>>

\* MAC_LAYER_PACKET_SENT.
MacSent(n) ==
  \E i \in DOMAIN mac[n] :
    LET m == mac[n][i]
    IN /\ m.pkt.forward # Broadcast /\ m.sent = 0 /\ m.timeouts = 0
       /\ Frags = 1 => m.pkt.forward \in InRange[n] \ m.left
       /\ MacBecomes(n, i, [m EXCEPT !.sent = 1])
       /\ Fire(n, <<EventOf("sent", m.pkt)>>)
       /\ UNCHANGED <<treeVars, sendVars, appVars, sinkVars, used>>

\* MAC_LAYER_TIMEOUT, for one fragment.
MacTimeout(n) ==
  \E i \in DOMAIN mac[n] :
    LET m == mac[n][i]
    IN /\ m.pkt.forward # Broadcast /\ m.timeouts < Frags
       /\ Frags = 1 => m.sent = 0
       /\ used.timeout < MaxTimeout
       /\ used' = [used EXCEPT !.timeout = @ + 1]
       /\ MacBecomes(n, i, [m EXCEPT !.timeouts = @ + 1])
       /\ Fire(n, <<EventOf("timeout", m.pkt)>>)
       /\ UNCHANGED <<treeVars, sendVars, appVars, sinkVars>>

-----------------------------------------------------------------------------
(* The host, which stores the routes it is told of and answers each request *)
(* in turn; and power failures.                                            *)

\* recv_from_serial(ManagedBuffer), the listener SerialCom calls: one slot.
HostDelivers(message) ==
  /\ LineRead
  /\ serial' = [serial EXCEPT !.received = message]
  /\ Fire(Sink, <<Event("table")>>)

\* The host starts, and has forgotten the requests it was sent but the last few.
HostStart ==
  /\ used.host < MaxHostStart
  /\ used' = [used EXCEPT !.host = @ + 1]
  /\ HostDelivers([mode |-> "INIT"])
  /\ \E k \in 0 .. Len(host.to) :
       k <= MaxLate /\ host' = [host EXCEPT !.to = SubSeq(@, Len(@) - k + 1, Len(@))]
  /\ UNCHANGED <<treeVars, sendVars, appVars, fast_rt_init, stored, caller, mac>>

RoutesTo(d) == {r \in host.routes : Last(r) = d}

HostAnswer ==
  /\ host.to # <<>>
  /\ LET q == Head(host.to)
     IN /\ IF q.mode = "GET" /\ RoutesTo(q.dest) # {}
           THEN \E r \in RoutesTo(q.dest) :
                  HostDelivers([mode |-> "ANSWER", found |-> TRUE, route |-> r])
           ELSE HostDelivers(EmptyAnswer)
        /\ host' = [to |-> Tail(host.to),
                    routes |-> host.routes \cup IF q.mode = "PUT" THEN {q.route} ELSE {}]
  /\ UNCHANGED <<treeVars, sendVars, appVars, fast_rt_init, stored, caller, mac, used>>

\* A power failure: only the stored counter survives. What the radio of n has
\* sent may still arrive, but is answered no more; requests that still are in
\* the queue of the serial line are lost.
Restart(n) ==
  /\ used.restart[n] < MaxRestart[n]
  /\ used' = [used EXCEPT !.restart[n] = @ + 1]
  /\ broadcast_counter' = [broadcast_counter EXCEPT ![n] = 0]
  /\ rt_formed' = [rt_formed EXCEPT ![n] = FALSE]
  /\ rely' = [rely EXCEPT ![n] = Broadcast]
  /\ depth' = [depth EXCEPT ![n] = 0]
  /\ send_state' = [send_state EXCEPT ![n] = "READY"]
  /\ sending_to' = [sending_to EXCEPT ![n] = Broadcast]
  /\ outBufferPackets' = [outBufferPackets EXCEPT ![n] = <<>>]
  /\ inBufferPackets' = [inBufferPackets EXCEPT ![n] = <<>>]
  /\ inBufferNodes' = [inBufferNodes EXCEPT ![n] = <<>>]
  /\ bus' = [bus EXCEPT ![n] = <<>>]
  /\ mac' = [mac EXCEPT ![n] = [i \in DOMAIN @ |-> Unanswered(@[i])]]
  /\ IF n = Sink
     THEN /\ fast_rt_init' = FALSE /\ serial' = NoSerial
          /\ caller' = [f \in Caller |-> NULL]
          /\ \E k \in 0 .. Len(host.to) : host' = [host EXCEPT !.to = SubSeq(@, 1, k)]
     ELSE UNCHANGED <<fast_rt_init, serial, caller, host>>
  /\ UNCHANGED stored

-----------------------------------------------------------------------------
BusStep(n) ==
  /\ Up(n)
  /\ \/ SendToMac(n) \/ PacketSent(n) \/ PacketTimeout(n)
     \/ RecvIgnored(n) \/ RecvRtInit(n) \/ RecvData(n) \/ RecvCommand(n) \/ RecvRtAck(n)
     \/ RecvJoin(n) \/ RecvLeave(n) \/ RecvConnectionLost(n)

SinkBusStep ==
  \/ IncrBroadcastCounter \/ SendToSerial \/ RecvInit \/ RecvAnswer
  \/ \E f \in Caller : SinkSend(f)
IdleStep == SerialIdleTick \/ SinkIdleTick \/ \E n \in Node : NodeIdleTick(n)
MacStep(n) == MacDeliver(n) \/ MacRepeat(n) \/ MacSent(n) \/ MacTimeout(n)

Next ==
  \/ \E n \in Node : \/ BusStep(n) \/ MacStep(n)
                     \/ Send(n) \/ Recv(n) \/ RecvConnection(n) \/ Restart(n)
  \/ SinkBusStep \/ IdleStep \/ HostAnswer \/ HostStart \/ Boot \/ Request
  \/ \E f \in Caller : SinkSendReturns(f)

Spec == Init /\ [][Next]_vars

\* The scheduler: the bus is drained, idleTick runs when no fiber can, a fiber
\* that sleeps wakes up; and the host answers. Nothing is assumed of the radio,
\* of the applications or of the timers.
Fairness ==
  /\ \A n \in Node : WF_vars(BusStep(n)) /\ WF_vars(NodeIdleTick(n))
  /\ WF_vars(SinkBusStep) /\ WF_vars(SerialIdleTick) /\ WF_vars(HostAnswer)
  /\ \A f \in Caller : WF_vars(SinkSendReturns(f))

FairSpec == Spec /\ Fairness

-----------------------------------------------------------------------------
(* Properties.                                                             *)

Elements(s) == {s[i] : i \in DOMAIN s}

\* The packets that are queued, handed to the MAC layer, or about to be handled.
PacketsOf(n) ==
  Elements(outBufferPackets[n]) \cup {e.pkt : e \in Elements(mac[n])}
    \cup {e.pkt : e \in {x \in Elements(bus[n]) : x.ev = "recv"}}
Packets == UNION {PacketsOf(n) : n \in Node}

IsPacket(p) ==
  /\ p.type \in Type /\ p.source \in Node /\ p.forward \in Node \cup {Broadcast}
  /\ p.origin \in Node \cup {Broadcast} /\ p.counter \in Nat /\ p.depth \in Nat
  /\ p.route \in Seq(Node) /\ p.body \in Nat \cup Node \cup {NULL, Broadcast}
  /\ IF p.source = Sink THEN p.type \in {"RT_INIT", "COMMAND"}
     ELSE p.type \in {"DATA", "RT_ACK", "COMMAND"} => p.forward \in Node

IsEvent(e) ==
  \/ e.ev \in {"recv", "sent", "timeout"} /\ IsPacket(e.pkt)
  \/ e.ev \in {"ready", "incr", "serial_ready", "table", "request"} /\ e.pkt = NULL

\* Types of the variables, and the states and packets each of them can hold.
TypeOK ==
  /\ {broadcast_counter, depth} \subseteq [Node -> Nat]
  /\ rt_formed \in [Node -> BOOLEAN]
  /\ {rely, sending_to} \subseteq [Node -> Node \cup {Broadcast}]
  /\ send_state \in [Node -> {"READY", "BROADCAST", "SINK", "SUBTREE"}]
  /\ fast_rt_init \in BOOLEAN /\ stored \in Nat
  /\ serial.state \in {"READY", "GET", "PUT"}
  /\ \A n \in Node :
       /\ \A p \in Elements(outBufferPackets[n]) : IsPacket(p)
       /\ \A m \in Elements(mac[n]) : IsPacket(m.pkt) /\ m.left \subseteq Node
       /\ \A e \in Elements(bus[n]) : IsEvent(e)
       /\ \A c \in Elements(inBufferNodes[n]) : c.address \in Node \cup {Broadcast}

\* Each wave of RT_INIT is newer than everything any node has seen or any
\* packet carries, also after the sink lost power (put_store and get_store of
\* the counter): a wave under a counter in use would be ignored by the nodes.
FreshWave ==
  [][IncrBroadcastCounter =>
       /\ \A n \in Node : broadcast_counter[n] < broadcast_counter'[Sink]
       /\ \A p \in Packets : p.counter < broadcast_counter'[Sink]]_vars

\* The relies form no cycle, so what is sent towards the sink gets there or is
\* lost, and never goes round (recv_from_mac of DD_RT_INIT).
LoopFree ==
  \A S \in SUBSET (Node \ {Sink}) : S # {} => \E n \in S : rely[n] \notin S

VisitsOnce(route) == \A i, j \in DOMAIN route : route[i] = route[j] => i = j
IsPath(route, origin) == VisitsOnce(route) /\ Last(route) = origin

\* The route an RT_ACK gathers on its way goes through no node twice and ends at
\* the node it is a route to, and so the host is given no route that goes round.
RoutesArePaths ==
  /\ \A p \in Packets : p.type = "RT_ACK" => IsPath(p.route, p.origin)
  /\ \A r \in host.routes : VisitsOnce(r)

\* A node that lost its rely has nothing left to send to it but what a failed
\* command makes it send (rt_disconnect empties the queue).
NothingForLostRely == \A n \in Node \ {Sink} : ~rt_formed[n] =>
  \A p \in Elements(outBufferPackets[n]) :
    p.type \in {"COMMAND", "LEAVE"} \/ p.forward = Broadcast

\* send_to_mac and send_to_serial find a packet behind each of their events.
NeverPopsEmpty ==
  /\ \A n \in Node : At(n, "ready") => outBufferPackets[n] # <<>>
  /\ At(Sink, "serial_ready") => serial.out # <<>>

\* A command is on a route to its destination that the host knows, and no
\* other node takes it for its own.
CommandsArrive ==
  /\ \A p \in Packets : p.type = "COMMAND" =>
       \E r \in RoutesTo(p.body) : IsSuffix(<<p.forward>> \o p.route, r)
  /\ \A n \in Node \ {Sink} : \A m \in Elements(inBufferPackets[n]) : m.body = n

\* The application of the sink gets the payloads of a node in the order they
\* were sent in, and none twice, but for those that a message was repeated of and
\* that it was given in their place before: a node hands the next packet to the
\* MAC layer when the last one is answered (idleTick, packet_sent), and what a
\* node relays leaves in the order it came.
DataInOrder ==
  LET got == inBufferPackets[Sink]
  IN \A i, j \in DOMAIN got :
       i < j /\ got[i].source = got[j].source =>
         \/ got[i].body < got[j].body
         \/ (\E n \in Node : used.repeat[n] > 0) /\ \E k \in 1 .. i : got[k] = got[j]

\* The host has more to answer than the sink waits for: it was sent a request
\* twice, or before the sink restarted.
UnawaitedAnswer ==
  Len(host.to) + (IF serial.received.mode = "ANSWER" THEN Pending("table") ELSE 0)
    > IF SerialIdle THEN 0 ELSE 1

\* A fiber that calls send(payload, destination) gets an answer, whatever the
\* host finds and although it restarts (recv_from_serial) -- as long as each
\* answer is the one the sink waits for.
SendReturns ==
  []~UnawaitedAnswer => \A f \in Caller : caller[f] # NULL ~> caller[f] = NULL

\* Of a message to everyone no acknowledgement is awaited: send_to_mac does not
\* hand one over and go on to wait.
AwaitsUnicast ==
  [][\A n \in Node : SendToMac(n) /\ Waiting(n) =>
       Head(outBufferPackets[n]).forward # Broadcast]_vars

\* rt_disconnect is "called when the node lost the connection to its rely": a
\* TIMEOUT that disconnects the node is about a message to its rely.
DisconnectsWhenLost ==
  [][\A n \in Node : PacketTimeout(n) /\ send_state[n] = "SINK" =>
       Head(bus[n]).pkt.forward = rely[n]]_vars
=============================================================================
