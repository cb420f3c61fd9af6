------------------------- MODULE NetworkLayerProofs -------------------------
(***************************************************************************)
(* Theorems about NetworkLayer, for every value of its constants: any      *)
(* nodes and radio links, any losses and repetitions, restarts of the host *)
(* and of the sink, and (but for LoopFree) of the other nodes.             *)
(***************************************************************************)
EXTENDS NetworkLayer, TLAPS, SequenceTheorems, WellFoundedInduction

-----------------------------------------------------------------------------
(* The inductive invariant.                                                *)

Plant == Node \ {Sink}

\* What the proof that the relies form no cycle assumes: no node but the sink
\* loses power. (A node that restarts has counter 0 and hears anything.)
OnlySinkRestarts == \A n \in Plant : MaxRestart[n] = 0

\* (c, d) was heard from m: its counter, and its depth for that counter, are not
\* behind.
HeardFrom(m, c, d) ==
  \/ c < broadcast_counter[m]
  \/ c = broadcast_counter[m] /\ depth[m] <= d

RawPacket ==
  [type : Type, source : Node, forward : Node \cup {Broadcast},
   origin : Node \cup {Broadcast}, counter : Nat, route : Seq(Node),
   body : Nat \cup Node \cup {NULL, Broadcast}, depth : Nat]

\* The packets there may be: none carries a counter that was not stored, and an
\* RT_INIT one its source did not have.
Stamped == {p \in RawPacket :
  /\ IsPacket(p)
  /\ p.counter <= stored
  /\ p.type = "RT_ACK" => p.route # <<>>
  /\ p.type = "LEAVE" => p.body \in Node \cup {Broadcast}
  /\ OnlySinkRestarts /\ p.type = "RT_INIT" /\ p.source # Sink =>
       HeardFrom(p.source, p.counter, p.depth)}

From(n) == {p \in Stamped : p.source = n}

\* The events of a node; the sink counts up only when it has read its counter.
EventsOf(n) ==
  [ev : {"recv", "sent", "timeout"}, pkt : Stamped]
    \cup [ev : {"ready", "serial_ready", "table", "request"}, pkt : {NULL}]
    \cup {e \in [ev : {"incr"}, pkt : {NULL}] : n = Sink /\ serial.up}

Message == [pkt : Stamped, left : SUBSET Node, sent : Nat, timeouts : Nat]
Connection == [status : BOOLEAN, address : Node \cup {Broadcast}]

\* What the sink and the host tell each other: routes are never empty.
ToHost == {q \in [mode : {"GET", "PUT"}, route : Seq(Node), dest : Node \cup {NULL}] :
  q.mode = "PUT" => q.route # <<>>}
FromHost == [mode : {"INIT"}] \cup
  {q \in [mode : {"ANSWER"}, found : BOOLEAN, route : Seq(Node)] :
     q.found => q.route # <<>>}

TreeInv ==
  /\ broadcast_counter \in [Node -> Nat]
  /\ depth \in [Node -> Nat]
  /\ rt_formed \in [Node -> BOOLEAN]
  /\ rely \in [Node -> Node \cup {Broadcast}]
  /\ \A n \in Plant : rt_formed[n] => rely[n] \in Node

\* No counter is ahead of the stored one, the sink's is the stored one.
CounterInv ==
  /\ stored \in Nat
  /\ \A n \in Node : broadcast_counter[n] <= stored
  /\ serial.up => broadcast_counter[Sink] = stored

\* A rely is ahead of the nodes that took it: its counter is newer, or the same
\* and it is closer to the sink.
Climbs ==
  OnlySinkRestarts => \A n \in Plant : rely[n] \in Plant =>
    \/ broadcast_counter[n] < broadcast_counter[rely[n]]
    \/ /\ broadcast_counter[n] = broadcast_counter[rely[n]]
       /\ depth[rely[n]] < depth[n]

Queues == DOMAIN outBufferPackets = Node /\ \A n \in Node : outBufferPackets[n] \in Seq(From(n))
Buses == DOMAIN bus = Node /\ \A n \in Node : bus[n] \in Seq(EventsOf(n))
Messages == mac \in [Node -> Seq(Message)]

\* The sink never waits for a rely.
SendInv ==
  /\ send_state \in [Node -> {"READY", "BROADCAST", "SINK", "SUBTREE"}]
  /\ sending_to \in [Node -> Node \cup {Broadcast}]
  /\ send_state[Sink] # "SINK"

NodesInv == inBufferNodes \in [Node -> Seq(Connection)]

SerialInv ==
  /\ serial \in [initiated : BOOLEAN, up : BOOLEAN, out : Seq(ToHost),
                 state : {"READY", "GET", "PUT"}, in_send : ToHost \cup {NULL},
                 received : FromHost, get_payload : Node \cup {NULL},
                 put_origin : Node \cup {Broadcast}, waits : BOOLEAN, found : BOOLEAN]
  /\ fast_rt_init \in BOOLEAN

HostInv == host \in [to : Seq(ToHost), routes : SUBSET (Seq(Node) \ {<<>>})]

Counts ==
  [join : [Node -> Nat], data : [Node -> Nat], restart : [Node -> Nat],
   repeat : [Node -> Nat], command : Nat, host : Nat, timeout : Nat]
UsedInv == used \in Counts

IInv ==
  /\ TreeInv /\ CounterInv /\ Climbs
  /\ Queues /\ Buses /\ Messages
  /\ SendInv /\ NodesInv /\ SerialInv /\ HostInv /\ UsedInv

-----------------------------------------------------------------------------
(* Lemmas about sequences.                                                 *)

LEMMA ConcatIsSeq ==
  ASSUME NEW S, NEW q \in Seq(S), NEW r \in Seq(S)
  PROVE  q \o r \in Seq(S)
  BY ConcatProperties

LEMMA TailIsSeq ==
  ASSUME NEW S, NEW q \in Seq(S), q # <<>>
  PROVE  Tail(q) \in Seq(S) /\ Head(q) \in S
  BY HeadTailProperties

LEMMA AppendIsSeq ==
  ASSUME NEW S, NEW q \in Seq(S), NEW e \in S
  PROVE  Append(q, e) \in Seq(S)
  OBVIOUS

LEMMA EmptyIsSeq ==
  ASSUME NEW S
  PROVE  <<>> \in Seq(S)
  BY EmptySeq

LEMMA RemoveAtIsSeq ==
  ASSUME NEW S, NEW q \in Seq(S), NEW i \in DOMAIN q
  PROVE  RemoveAt(q, i) \in Seq(S)
<1>1. Len(q) \in Nat /\ i \in 1 .. Len(q)
  BY LenProperties
<1>2. SubSeq(q, 1, i - 1) \in Seq(S)
  <2>1. \A j \in 1 .. i - 1 : q[j] \in S
    BY <1>1, ElementOfSeq
  <2> QED  BY <1>1, <2>1, SubSeqProperties
<1>3. SubSeq(q, i + 1, Len(q)) \in Seq(S)
  <2>1. \A j \in i + 1 .. Len(q) : q[j] \in S
    BY <1>1, ElementOfSeq
  <2> QED  BY <1>1, <2>1, SubSeqProperties
<1> QED  BY <1>2, <1>3, ConcatIsSeq DEF RemoveAt

LEMMA ReplaceAtIsSeq ==
  ASSUME NEW S, NEW q \in Seq(S), NEW i \in DOMAIN q, NEW e \in S
  PROVE  ReplaceAt(q, i, e) \in Seq(S)
  BY ExceptSeq, LenProperties DEF ReplaceAt

LEMMA SubSeqIsSeq ==
  ASSUME NEW S, NEW q \in Seq(S), NEW i \in Nat \ {0}
  PROVE  \A j \in 0 .. Len(q) : SubSeq(q, i, j) \in Seq(S)
<1> SUFFICES ASSUME NEW j \in 0 .. Len(q) PROVE SubSeq(q, i, j) \in Seq(S)
  OBVIOUS
<1>1. Len(q) \in Nat /\ i \in Int /\ j \in Int
  BY LenProperties
<1>2. \A k \in i .. j : q[k] \in S
  BY <1>1, ElementOfSeq
<1> QED  BY <1>1, <1>2, SubSeqProperties

-----------------------------------------------------------------------------
(* Lemmas about queues, buses and packets: what was allowed still is, and   *)
(* what is added is allowed.                                               *)

Grows ==
  /\ Stamped \subseteq Stamped'
  /\ \A n \in Node : EventsOf(n) \subseteq EventsOf(n)'

\* Nothing that Stamped and EventsOf depend on changes.
LEMMA SameGrows ==
  ASSUME UNCHANGED <<broadcast_counter, depth, stored>>, serial.up => serial'.up
  PROVE  Grows
<1>1. Stamped' = Stamped
  BY DEF Stamped, HeardFrom
<1> QED  BY <1>1 DEF Grows, EventsOf

LEMMA QueuesKept ==
  ASSUME Queues, Grows, UNCHANGED outBufferPackets
  PROVE  Queues'
<1> SUFFICES ASSUME NEW n \in Node PROVE outBufferPackets[n] \in Seq(From(n)')
  BY DEF Queues
<1>1. From(n) \subseteq From(n)'
  BY DEF From, Grows
<1> QED  BY <1>1, SeqMonotonic DEF Queues

LEMMA EnqueueOk ==
  ASSUME Queues, Grows, NEW n \in Node, NEW r \in Seq(From(n)'), Enqueue(n, r)
  PROVE  Queues'
<1>1. \A k \in Node : outBufferPackets[k] \in Seq(From(k)')
  <2> SUFFICES ASSUME NEW k \in Node PROVE outBufferPackets[k] \in Seq(From(k)')
    OBVIOUS
  <2>1. From(k) \subseteq From(k)'
    BY DEF From, Grows
  <2> QED  BY <2>1, SeqMonotonic DEF Queues
<1>2. outBufferPackets[n] \o r \in Seq(From(n)')
  BY <1>1, ConcatIsSeq
<1> QED  BY <1>1, <1>2 DEF Queues, Enqueue

LEMMA BusesKept ==
  ASSUME Buses, Grows, UNCHANGED bus
  PROVE  Buses'
<1> SUFFICES ASSUME NEW n \in Node PROVE bus[n] \in Seq(EventsOf(n)')
  BY DEF Buses
<1> QED  BY SeqMonotonic DEF Buses, Grows

LEMMA FireOk ==
  ASSUME Buses, Grows, NEW n \in Node, NEW r \in Seq(EventsOf(n)'), Fire(n, r)
  PROVE  Buses'
<1>1. \A k \in Node : bus[k] \in Seq(EventsOf(k)')
  BY SeqMonotonic DEF Buses, Grows
<1>2. bus[n] \o r \in Seq(EventsOf(n)')
  BY <1>1, ConcatIsSeq
<1> QED  BY <1>1, <1>2 DEF Buses, Fire

LEMMA HandledOk ==
  ASSUME Buses, Grows, NEW n \in Node, bus[n] # <<>>, Handled(n, <<>>)
  PROVE  Buses'
<1>1. \A k \in Node : bus[k] \in Seq(EventsOf(k)')
  BY SeqMonotonic DEF Buses, Grows
<1>2. Tail(bus[n]) \o <<>> \in Seq(EventsOf(n)')
  BY <1>1, ConcatIsSeq, TailIsSeq, EmptyIsSeq
<1> QED  BY <1>1, <1>2 DEF Buses, Handled

LEMMA MessagesKept ==
  ASSUME Messages, Grows, UNCHANGED mac
  PROVE  Messages'
<1>1. Message \subseteq Message'
  BY DEF Message, Grows
<1> QED  BY <1>1, SeqMonotonic DEF Messages

\* The event at the head of a bus.
LEMMA HeadEvent ==
  ASSUME Buses, NEW n \in Node, bus[n] # <<>>
  PROVE  /\ Head(bus[n]) \in EventsOf(n)
         /\ Head(bus[n]).ev \in {"recv", "sent", "timeout"} => Head(bus[n]).pkt \in Stamped
         /\ Head(bus[n]).ev = "incr" => n = Sink /\ serial.up
<1>1. Head(bus[n]) \in EventsOf(n)
  BY TailIsSeq DEF Buses
<1> QED  BY <1>1 DEF EventsOf

\* The fields of a packet that is allowed.
LEMMA StampedFields ==
  ASSUME NEW p \in Stamped
  PROVE  /\ p \in RawPacket /\ IsPacket(p) /\ p.counter \in Nat /\ p.counter <= stored
         /\ p.type \in Type /\ p.source \in Node /\ p.forward \in Node \cup {Broadcast}
         /\ p.origin \in Node \cup {Broadcast} /\ p.depth \in Nat /\ p.route \in Seq(Node)
         /\ p.body \in Nat \cup Node \cup {NULL, Broadcast}
         /\ p.type = "RT_ACK" => p.route # <<>>
         /\ p.type = "LEAVE" => p.body \in Node \cup {Broadcast}
         /\ OnlySinkRestarts /\ p.type = "RT_INIT" /\ p.source # Sink =>
              HeardFrom(p.source, p.counter, p.depth)
  BY DEF Stamped, RawPacket

\* What a node makes of what it got.
LEMMA RtInitOk ==
  ASSUME NEW n \in Node, NEW c \in Nat, NEW d \in Nat, c <= stored',
         OnlySinkRestarts /\ n # Sink => HeardFrom(n, c, d)'
  PROVE  RtInit(n, c, d) \in From(n)'
<1> DEFINE p == RtInit(n, c, d)
<1>1. p \in RawPacket /\ IsPacket(p)
  <2>1. <<>> \in Seq(Node)
    BY EmptyIsSeq
  <2>2. p \in RawPacket
    BY <2>1, NodeAssumption DEF RtInit, Packet, RawPacket, Type
  <2>3. IsPacket(p)
    BY <2>1, NodeAssumption DEF RtInit, Packet, IsPacket, Type
  <2> QED  BY <2>2, <2>3
<1>2. /\ p.type = "RT_INIT" /\ p.source = n /\ p.counter = c /\ p.depth = d
  BY DEF RtInit, Packet
<1> HIDE DEF p
<1>3. p \in From(n)'
  BY <1>1, <1>2 DEF From, Stamped
<1> QED  BY <1>3 DEF p

LEMMA OtherOk ==
  ASSUME NEW n \in Node, NEW p \in RawPacket, IsPacket(p), p.source = n,
         p.type # "RT_INIT", p.counter <= stored', p.type = "RT_ACK" => p.route # <<>>,
         p.type = "LEAVE" => p.body \in Node \cup {Broadcast}
  PROVE  p \in From(n)'
  BY DEF From, Stamped

LEMMA DataOk ==
  ASSUME NEW n \in Plant, rely[n] \in Node, stored' \in Nat,
         NEW o \in Node \cup {Broadcast}, NEW b \in Nat \cup Node \cup {NULL, Broadcast}
  PROVE  Data(n, o, b) \in From(n)'
<1> DEFINE p == Data(n, o, b)
<1>0. p = [type |-> "DATA", source |-> n, forward |-> rely[n], origin |-> o,
         counter |-> 0, route |-> <<>>, body |-> b, depth |-> 0]
  BY DEF Data, Packet
<1>1. p \in RawPacket /\ IsPacket(p)
  <2> HIDE DEF p
  <2>1. <<>> \in Seq(Node)
    BY EmptyIsSeq
  <2>2. p \in RawPacket
    BY <1>0, <2>1, NodeAssumption DEF RawPacket, Type, Plant
  <2>3. IsPacket(p)
    BY <1>0, <2>1, NodeAssumption DEF IsPacket, Type, Plant
  <2> QED  BY <2>2, <2>3
<1>2. p.source = n /\ p.type = "DATA" /\ p.counter = 0
  BY DEF Data, Packet
<1> HIDE DEF p
<1>3. p \in From(n)'
  BY <1>1, <1>2, OtherOk DEF Plant
<1> QED  BY <1>3 DEF p

LEMMA RtAckOk ==
  ASSUME NEW n \in Plant, NEW to \in Node, NEW c \in Nat, c <= stored',
         NEW route \in Seq(Node), route # <<>>, NEW o \in Node \cup {Broadcast}
  PROVE  RtAck(n, to, c, route, o) \in From(n)'
<1> DEFINE p == RtAck(n, to, c, route, o)
<1>1. p \in RawPacket /\ IsPacket(p)
  BY NodeAssumption DEF RtAck, Packet, RawPacket, IsPacket, Type, Plant
<1>2. p.source = n /\ p.type = "RT_ACK" /\ p.counter = c /\ p.route = route
  BY DEF RtAck, Packet
<1> HIDE DEF p
<1>3. p \in From(n)'
  BY <1>1, <1>2, OtherOk DEF Plant
<1> QED  BY <1>3 DEF p

LEMMA JoinOk ==
  ASSUME NEW n \in Plant, rely[n] \in Node \cup {Broadcast}, stored' \in Nat,
         NEW o \in Node \cup {Broadcast}
  PROVE  Join(n, o) \in From(n)'
<1> DEFINE p == Join(n, o)
<1>1. p \in RawPacket /\ IsPacket(p)
  BY NodeAssumption DEF Join, Packet, RawPacket, IsPacket, Type, Plant
<1>2. p.source = n /\ p.type = "JOIN" /\ p.counter = 0
  BY DEF Join, Packet
<1> HIDE DEF p
<1>3. p \in From(n)'
  BY <1>1, <1>2, OtherOk DEF Plant
<1> QED  BY <1>3 DEF p

LEMMA LeaveOk ==
  ASSUME NEW n \in Plant, rely[n] \in Node \cup {Broadcast}, NEW c \in Nat, c <= stored',
         NEW o \in Node \cup {Broadcast}, NEW b \in Node \cup {Broadcast}
  PROVE  Leave(n, b, c, o) \in From(n)'
<1> DEFINE p == Leave(n, b, c, o)
<1>1. p \in RawPacket /\ IsPacket(p)
  <2>1. <<>> \in Seq(Node)
    BY EmptyIsSeq
  <2>2. p \in RawPacket
    BY <2>1, NodeAssumption DEF Leave, Packet, RawPacket, Type, Plant
  <2>3. IsPacket(p)
    BY <2>1, NodeAssumption DEF Leave, Packet, IsPacket, Type, Plant
  <2> QED  BY <2>2, <2>3
<1>2. p.source = n /\ p.type = "LEAVE" /\ p.counter = c /\ p.body = b
  BY DEF Leave, Packet
<1> HIDE DEF p
<1>3. p \in From(n)'
  BY <1>1, <1>2, OtherOk DEF Plant
<1> QED  BY <1>3 DEF p

LEMMA ConnectionLostOk ==
  ASSUME NEW n \in Plant, stored' \in Nat
  PROVE  ConnectionLost(n) \in From(n)'
<1> DEFINE p == ConnectionLost(n)
<1>1. p \in RawPacket /\ IsPacket(p)
  BY NodeAssumption DEF ConnectionLost, Packet, RawPacket, IsPacket, Type, Plant
<1>2. p.source = n /\ p.type = "CONNECTION_LOST" /\ p.counter = 0
  BY DEF ConnectionLost, Packet
<1> HIDE DEF p
<1>3. p \in From(n)'
  BY <1>1, <1>2, OtherOk DEF Plant
<1> QED  BY <1>3 DEF p

LEMMA CommandOk ==
  ASSUME NEW n \in Node, stored' \in Nat, NEW route \in Seq(Node), route # <<>>,
         NEW o \in Node \cup {Broadcast}, NEW b \in Nat \cup Node \cup {NULL, Broadcast}
  PROVE  Command(n, route, b, o) \in From(n)'
<1> DEFINE p == Command(n, route, b, o)
<1>1. Head(route) \in Node /\ Tail(route) \in Seq(Node)
  BY TailIsSeq
<1>2. p \in RawPacket /\ IsPacket(p)
  BY <1>1, NodeAssumption DEF Command, Packet, RawPacket, IsPacket, Type
<1>3. p.source = n /\ p.type = "COMMAND" /\ p.counter = 0
  BY DEF Command, Packet
<1> HIDE DEF p
<1>4. p \in From(n)'
  BY <1>2, <1>3, OtherOk
<1> QED  BY <1>4 DEF p

-----------------------------------------------------------------------------
(* The steps. First what most of them leave alone.                         *)

LEMMA TreeFrame ==
  ASSUME IInv, UNCHANGED treeVars, UNCHANGED stored, serial'.up = serial.up
  PROVE  Grows /\ TreeInv' /\ CounterInv' /\ Climbs'
<1>1. Grows
  BY SameGrows DEF treeVars
<1>2. TreeInv'
  BY DEF IInv, TreeInv, treeVars
<1>3. CounterInv'
  BY DEF IInv, CounterInv, treeVars
<1>4. Climbs'
  BY DEF IInv, Climbs, treeVars
<1> QED  BY <1>1, <1>2, <1>3, <1>4

LEMMA SinkFrame ==
  ASSUME IInv, UNCHANGED serial, UNCHANGED host, fast_rt_init' \in BOOLEAN
  PROVE  SerialInv' /\ HostInv'
  BY DEF IInv, SerialInv, HostInv

LEMMA SendFrame ==
  ASSUME IInv, UNCHANGED send_state, UNCHANGED sending_to
  PROVE  SendInv'
  BY DEF IInv, SendInv

LEMMA NodesFrame ==
  ASSUME IInv, UNCHANGED inBufferNodes
  PROVE  NodesInv'
  BY DEF IInv, NodesInv

LEMMA NotifyOk ==
  ASSUME IInv, NEW n \in Node, NEW s \in BOOLEAN, NEW d \in Node \cup {Broadcast},
         Notify(n, s, d)
  PROVE  NodesInv'
<1>1. Append(inBufferNodes[n], [status |-> s, address |-> d]) \in Seq(Connection)
  BY AppendIsSeq DEF IInv, NodesInv, Connection
<1> QED  BY <1>1 DEF IInv, NodesInv, Notify

LEMMA UsedFrame ==
  ASSUME IInv, UNCHANGED used
  PROVE  UsedInv'
  BY DEF IInv, UsedInv

\* One more is counted.
LEMMA CountOne ==
  ASSUME NEW u \in Counts
  PROVE  /\ [u EXCEPT !.command = @ + 1] \in Counts
         /\ [u EXCEPT !.host = @ + 1] \in Counts
         /\ [u EXCEPT !.timeout = @ + 1] \in Counts
         /\ \A n \in Node : /\ [u EXCEPT !.join[n] = @ + 1] \in Counts
                            /\ [u EXCEPT !.data[n] = @ + 1] \in Counts
                            /\ [u EXCEPT !.restart[n] = @ + 1] \in Counts
                            /\ [u EXCEPT !.repeat[n] = @ + 1] \in Counts
                            /\ u.data[n] \in Nat /\ u.restart[n] \in Nat
<1>1. /\ [u EXCEPT !.command = @ + 1] \in Counts
      /\ [u EXCEPT !.host = @ + 1] \in Counts
  BY DEF Counts
<1>2. [u EXCEPT !.timeout = @ + 1] \in Counts
  BY DEF Counts
<1>3. ASSUME NEW n \in Node PROVE [u EXCEPT !.join[n] = @ + 1] \in Counts
  BY DEF Counts
<1>4. ASSUME NEW n \in Node PROVE [u EXCEPT !.data[n] = @ + 1] \in Counts
  BY DEF Counts
<1>5. ASSUME NEW n \in Node PROVE [u EXCEPT !.restart[n] = @ + 1] \in Counts
  BY DEF Counts
<1>6. ASSUME NEW n \in Node PROVE [u EXCEPT !.repeat[n] = @ + 1] \in Counts
  BY DEF Counts
<1>7. ASSUME NEW n \in Node PROVE u.data[n] \in Nat /\ u.restart[n] \in Nat
  BY DEF Counts
<1> QED  BY <1>1, <1>2, <1>3, <1>4, <1>5, <1>6, <1>7

\* What a handler finds that was given a packet.
LEMMA AcceptedPacket ==
  ASSUME IInv, NEW n \in Node, NEW type, Accepted(n, type)
  PROVE  /\ bus[n] # <<>>
         /\ Received(n) \in Stamped
         /\ Received(n).type = type
         /\ Accepts(n, Received(n))
  BY HeadEvent DEF Accepted, At, Received, IInv

\* A handler that changes the tree of no node and leaves the sink alone.
LEMMA ReceiveFrame ==
  ASSUME IInv, NEW n \in Node, bus[n] # <<>>, Handled(n, <<>>),
         UNCHANGED <<treeVars, stored, mac, used>>, serial'.up = serial.up
  PROVE  /\ Grows /\ TreeInv' /\ CounterInv' /\ Climbs'
         /\ Buses' /\ Messages' /\ UsedInv'
<1>1. Grows /\ TreeInv' /\ CounterInv' /\ Climbs'
  BY TreeFrame
<1>2. Buses'
  BY <1>1, HandledOk DEF IInv
<1>3. Messages'
  BY <1>1, MessagesKept DEF IInv
<1>4. UsedInv'
  BY UsedFrame
<1> QED  BY <1>1, <1>2, <1>3, <1>4

\* One packet is queued.
LEMMA EnqueueOneOk ==
  ASSUME IInv, Grows, NEW n \in Node, NEW p \in From(n)', Enqueue(n, <<p>>)
  PROVE  Queues'
<1>1. <<p>> \in Seq(From(n)')
  OBVIOUS
<1> QED  BY <1>1, EnqueueOk DEF IInv

-----------------------------------------------------------------------------
(* The handlers of what the MAC layer received.                            *)

LEMMA RecvIgnoredStep ==
  ASSUME IInv, NEW n \in Node, RecvIgnored(n)
  PROVE  IInv'
<1>1. /\ bus[n] # <<>> /\ Handled(n, <<>>)
      /\ UNCHANGED <<treeVars, sendVars, appVars, sinkVars, mac, used>>
  BY DEF RecvIgnored, At
<1>2. /\ Grows /\ TreeInv' /\ CounterInv' /\ Climbs'
      /\ Buses' /\ Messages' /\ UsedInv'
  BY <1>1, ReceiveFrame DEF sinkVars
<1>3. Queues' /\ SendInv' /\ NodesInv'
  BY <1>1, <1>2, QueuesKept, SendFrame, NodesFrame DEF sendVars, appVars, IInv
<1>4. SerialInv' /\ HostInv'
  BY <1>1, SinkFrame DEF sinkVars, IInv, SerialInv
<1> QED  BY <1>2, <1>3, <1>4 DEF IInv

LEMMA RecvDataStep ==
  ASSUME IInv, NEW n \in Node, RecvData(n)
  PROVE  IInv'
<1> DEFINE p == Received(n)
<1>1. bus[n] # <<>> /\ p \in Stamped /\ Accepts(n, p) /\ p.type = "DATA"
  BY AcceptedPacket DEF RecvData
<1>2. /\ Handled(n, <<>>)
      /\ UNCHANGED <<treeVars, send_state, sending_to, inBufferNodes, sinkVars, mac, used>>
      /\ \/ UNCHANGED outBufferPackets
         \/ n # Sink /\ Enqueue(n, <<Data(n, p.origin, p.body)>>)
  BY DEF RecvData
<1>3. /\ Grows /\ TreeInv' /\ CounterInv' /\ Climbs'
      /\ Buses' /\ Messages' /\ UsedInv'
  BY <1>1, <1>2, ReceiveFrame DEF sinkVars
<1>4. n # Sink => rely[n] \in Node
  BY <1>1 DEF Accepts, AcceptsUp, IInv, TreeInv, Plant
<1>5. Queues'
  <2>1. CASE UNCHANGED outBufferPackets
    BY <1>3, <2>1, QueuesKept DEF IInv
  <2>2. CASE n # Sink /\ Enqueue(n, <<Data(n, p.origin, p.body)>>)
    <3>1. p.origin \in Node \cup {Broadcast} /\ p.body \in Nat \cup Node \cup {NULL, Broadcast}
      BY <1>1, StampedFields
    <3>2. Data(n, p.origin, p.body) \in From(n)'
      BY <1>3, <1>4, <2>2, <3>1, DataOk DEF Plant, CounterInv
    <3> QED  BY <1>3, <2>2, <3>2, EnqueueOneOk
  <2> QED  BY <1>2, <2>1, <2>2
<1>6. SendInv' /\ NodesInv' /\ SerialInv' /\ HostInv'
  BY <1>2, SendFrame, NodesFrame, SinkFrame DEF sinkVars, IInv, SerialInv
<1> QED  BY <1>3, <1>5, <1>6 DEF IInv

LEMMA RecvCommandStep ==
  ASSUME IInv, NEW n \in Node, RecvCommand(n)
  PROVE  IInv'
<1> DEFINE p == Received(n)
<1>1. bus[n] # <<>> /\ p \in Stamped /\ Accepts(n, p) /\ p.type = "COMMAND"
  BY AcceptedPacket DEF RecvCommand
<1>2. /\ Handled(n, <<>>)
      /\ UNCHANGED <<treeVars, send_state, sending_to, inBufferNodes, sinkVars, mac, used>>
      /\ \/ UNCHANGED outBufferPackets
         \/ p.route # <<>> /\ Enqueue(n, <<Command(n, p.route, p.body, p.origin)>>)
  BY DEF RecvCommand
<1>3. /\ Grows /\ TreeInv' /\ CounterInv' /\ Climbs'
      /\ Buses' /\ Messages' /\ UsedInv'
  BY <1>1, <1>2, ReceiveFrame DEF sinkVars
<1>4. Queues'
  <2>1. CASE UNCHANGED outBufferPackets
    BY <1>3, <2>1, QueuesKept DEF IInv
  <2>2. CASE p.route # <<>> /\ Enqueue(n, <<Command(n, p.route, p.body, p.origin)>>)
    <3>1. /\ p.origin \in Node \cup {Broadcast} /\ p.route \in Seq(Node)
          /\ p.body \in Nat \cup Node \cup {NULL, Broadcast}
      BY <1>1, StampedFields
    <3>2. Command(n, p.route, p.body, p.origin) \in From(n)'
      BY <1>3, <2>2, <3>1, CommandOk DEF CounterInv
    <3> QED  BY <1>3, <2>2, <3>2, EnqueueOneOk
  <2> QED  BY <1>2, <2>1, <2>2
<1>5. SendInv' /\ NodesInv' /\ SerialInv' /\ HostInv'
  BY <1>2, SendFrame, NodesFrame, SinkFrame DEF sinkVars, IInv, SerialInv
<1> QED  BY <1>3, <1>4, <1>5 DEF IInv

LEMMA RecvJoinStep ==
  ASSUME IInv, NEW n \in Node, RecvJoin(n)
  PROVE  IInv'
<1> DEFINE p == Received(n)
<1>1. bus[n] # <<>> /\ p \in Stamped
  BY AcceptedPacket DEF RecvJoin
<1>2. /\ Handled(n, <<>>)
      /\ UNCHANGED <<treeVars, send_state, sending_to, appVars, serial, stored, host, mac, used>>
      /\ fast_rt_init' = TRUE \/ UNCHANGED fast_rt_init
      /\ \/ UNCHANGED outBufferPackets
         \/ n # Sink /\ Enqueue(n, <<Join(n, p.origin)>>)
  BY DEF RecvJoin
<1>3. /\ Grows /\ TreeInv' /\ CounterInv' /\ Climbs'
      /\ Buses' /\ Messages' /\ UsedInv'
  BY <1>1, <1>2, ReceiveFrame
<1>4. Queues'
  <2>1. CASE UNCHANGED outBufferPackets
    BY <1>3, <2>1, QueuesKept DEF IInv
  <2>2. CASE n # Sink /\ Enqueue(n, <<Join(n, p.origin)>>)
    <3>1. p.origin \in Node \cup {Broadcast}
      BY <1>1, StampedFields
    <3>2. Join(n, p.origin) \in From(n)'
      BY <1>3, <2>2, <3>1, JoinOk DEF CounterInv, Plant, IInv, TreeInv
    <3> QED  BY <1>3, <2>2, <3>2, EnqueueOneOk
  <2> QED  BY <1>2, <2>1, <2>2
<1>5. SendInv' /\ NodesInv' /\ SerialInv' /\ HostInv'
  BY <1>2, SendFrame, NodesFrame, SinkFrame DEF appVars, IInv, SerialInv
<1> QED  BY <1>3, <1>4, <1>5 DEF IInv

LEMMA RecvLeaveStep ==
  ASSUME IInv, NEW n \in Node, RecvLeave(n)
  PROVE  IInv'
<1> DEFINE p == Received(n)
<1>1. bus[n] # <<>> /\ p \in Stamped /\ Accepts(n, p) /\ p.type = "LEAVE"
  BY AcceptedPacket DEF RecvLeave
<1>2. /\ Handled(n, <<>>)
      /\ UNCHANGED <<treeVars, send_state, sending_to, sinkVars, mac, used>>
      /\ \/ n = Sink /\ Notify(n, FALSE, p.body) /\ UNCHANGED outBufferPackets
         \/ /\ n # Sink /\ Enqueue(n, <<Leave(n, p.body, p.counter, p.origin)>>)
            /\ UNCHANGED inBufferNodes
  BY DEF RecvLeave
<1>3. /\ Grows /\ TreeInv' /\ CounterInv' /\ Climbs'
      /\ Buses' /\ Messages' /\ UsedInv'
  BY <1>1, <1>2, ReceiveFrame DEF sinkVars
<1>4. Queues' /\ NodesInv'
  <2>1. CASE n = Sink /\ Notify(n, FALSE, p.body) /\ UNCHANGED outBufferPackets
    <3>1. p.body \in Node \cup {Broadcast}
      BY <1>1, StampedFields
    <3> QED  BY <1>3, <2>1, <3>1, QueuesKept, NotifyOk DEF IInv
  <2>2. CASE /\ n # Sink /\ Enqueue(n, <<Leave(n, p.body, p.counter, p.origin)>>)
             /\ UNCHANGED inBufferNodes
    <3>1. /\ p.origin \in Node \cup {Broadcast} /\ p.counter \in Nat /\ p.counter <= stored
          /\ p.body \in Node \cup {Broadcast}
      BY <1>1, StampedFields
    <3>2. Leave(n, p.body, p.counter, p.origin) \in From(n)'
      BY <1>2, <2>2, <3>1, LeaveOk DEF IInv, TreeInv, Plant, sinkVars
    <3> QED  BY <1>3, <2>2, <3>2, EnqueueOneOk, NodesFrame
  <2> QED  BY <1>2, <2>1, <2>2
<1>5. SendInv' /\ SerialInv' /\ HostInv'
  BY <1>2, SendFrame, SinkFrame DEF sinkVars, IInv, SerialInv
<1> QED  BY <1>3, <1>4, <1>5 DEF IInv

LEMMA RecvRtAckStep ==
  ASSUME IInv, NEW n \in Node, RecvRtAck(n)
  PROVE  IInv'
<1> DEFINE p == Received(n)
<1>1. /\ bus[n] # <<>> /\ p \in Stamped /\ Accepts(n, p) /\ p.type = "RT_ACK"
  BY AcceptedPacket DEF RecvRtAck, RelayRtAck
<1>2. /\ p.origin \in Node \cup {Broadcast} /\ p.counter \in Nat /\ p.counter <= stored
      /\ p.route \in Seq(Node) /\ p.route # <<>>
  BY <1>1, StampedFields
<1>3. /\ Handled(n, <<>>)
      /\ UNCHANGED <<treeVars, send_state, sending_to, appVars, fast_rt_init, stored, host,
                     mac, used>>
      /\ \/ /\ serial' = [serial EXCEPT !.put_origin = p.origin, !.out =
                 Append(@, [mode |-> "PUT", route |-> p.route, dest |-> NULL])]
            /\ UNCHANGED outBufferPackets
         \/ /\ n # Sink
            /\ Enqueue(n, <<RtAck(n, rely[n], p.counter, Push(n, p.route), p.origin)>>)
            /\ UNCHANGED serial
  BY DEF RecvRtAck, RelayRtAck
<1>4. serial'.up = serial.up
  BY <1>3 DEF IInv, SerialInv
<1>5. /\ Grows /\ TreeInv' /\ CounterInv' /\ Climbs'
      /\ Buses' /\ Messages' /\ UsedInv'
  BY <1>1, <1>3, <1>4, ReceiveFrame
<1>6. Queues' /\ SerialInv' /\ HostInv'
  <2>1. CASE /\ serial' = [serial EXCEPT !.put_origin = p.origin, !.out =
                  Append(@, [mode |-> "PUT", route |-> p.route, dest |-> NULL])]
             /\ UNCHANGED outBufferPackets
    <3>1. [mode |-> "PUT", route |-> p.route, dest |-> NULL] \in ToHost
      BY <1>2 DEF ToHost
    <3>2. Append(serial.out, [mode |-> "PUT", route |-> p.route, dest |-> NULL]) \in Seq(ToHost)
      BY <3>1, AppendIsSeq DEF IInv, SerialInv
    <3>3. SerialInv'
      BY <1>2, <1>3, <2>1, <3>2 DEF IInv, SerialInv
    <3> QED  BY <1>3, <1>5, <2>1, <3>3, QueuesKept DEF IInv, HostInv
  <2>2. CASE /\ n # Sink
             /\ Enqueue(n, <<RtAck(n, rely[n], p.counter, Push(n, p.route), p.origin)>>)
             /\ UNCHANGED serial
    <3>1. rely[n] \in Node
      BY <1>1, <2>2 DEF Accepts, AcceptsRtAck, AcceptsUp, IInv, TreeInv, Plant
    <3>2. Push(n, p.route) \in Seq(Node) /\ Push(n, p.route) # <<>>
      BY <1>2, ConcatProperties, LenProperties DEF Push
    <3>3. RtAck(n, rely[n], p.counter, Push(n, p.route), p.origin) \in From(n)'
      BY <1>2, <1>3, <2>2, <3>1, <3>2, RtAckOk DEF Plant
    <3> QED  BY <1>3, <1>5, <2>2, <3>3, EnqueueOneOk, SinkFrame DEF IInv, SerialInv
  <2> QED  BY <1>3, <2>1, <2>2
<1>7. SendInv' /\ NodesInv'
  BY <1>3, SendFrame, NodesFrame DEF appVars
<1> QED  BY <1>5, <1>6, <1>7 DEF IInv

\* rt_disconnect keeps the counters, and leaves one packet in the queue.
LEMMA RtDisconnectOk ==
  ASSUME IInv, NEW n \in Plant, RtDisconnect(n), UNCHANGED stored, serial'.up = serial.up
  PROVE  Grows /\ TreeInv' /\ CounterInv' /\ Climbs' /\ Queues' /\ NodesInv'
<1>1. Grows
  BY SameGrows DEF RtDisconnect
<1>2. TreeInv'
  BY DEF RtDisconnect, IInv, TreeInv, Plant
<1>3. CounterInv'
  BY DEF RtDisconnect, IInv, CounterInv
<1>4. Climbs'
  BY DEF RtDisconnect, IInv, Climbs
<1>5. NodesInv'
  BY NotifyOk DEF RtDisconnect, IInv, TreeInv, Plant
<1>6. Queues'
  <2>1. ConnectionLost(n) \in From(n)'
    BY <1>3, ConnectionLostOk DEF CounterInv
  <2>2. <<ConnectionLost(n)>> \in Seq(From(n)')
    BY <2>1
  <2>3. \A k \in Node : outBufferPackets[k] \in Seq(From(k)')
    <3> SUFFICES ASSUME NEW k \in Node PROVE outBufferPackets[k] \in Seq(From(k)')
      OBVIOUS
    <3>1. From(k) \subseteq From(k)'
      BY <1>1 DEF From, Grows
    <3> QED  BY <3>1, SeqMonotonic DEF Queues, IInv
  <2>4. outBufferPackets' = [outBufferPackets EXCEPT ![n] = <<ConnectionLost(n)>>]
    BY DEF RtDisconnect
  <2> QED  BY <2>2, <2>3, <2>4 DEF Queues, IInv
<1> QED  BY <1>1, <1>2, <1>3, <1>4, <1>5, <1>6

LEMMA RecvConnectionLostStep ==
  ASSUME IInv, NEW n \in Node, RecvConnectionLost(n)
  PROVE  IInv'
<1>1. bus[n] # <<>> /\ n \in Plant
  <2>1. /\ bus[n] # <<>> /\ Received(n).type = "CONNECTION_LOST"
        /\ Accepts(n, Received(n))
    BY AcceptedPacket DEF RecvConnectionLost
  <2> QED  BY <2>1 DEF Accepts, AcceptsConnectionLost, Plant
<1>2. /\ RtDisconnect(n) /\ Handled(n, <<>>)
      /\ UNCHANGED <<send_state, sending_to, sinkVars, mac, used>>
  BY DEF RecvConnectionLost
<1>3. Grows /\ TreeInv' /\ CounterInv' /\ Climbs' /\ Queues' /\ NodesInv'
  BY <1>1, <1>2, RtDisconnectOk DEF sinkVars
<1>4. Buses' /\ Messages' /\ UsedInv'
  BY <1>1, <1>2, <1>3, HandledOk, MessagesKept, UsedFrame DEF IInv, Plant
<1>5. SendInv' /\ SerialInv' /\ HostInv'
  BY <1>2, SendFrame, SinkFrame DEF sinkVars, IInv, SerialInv
<1> QED  BY <1>3, <1>4, <1>5 DEF IInv

\* A node that takes a rely: its counter grows, and so it stays ahead of those
\* that took it, and behind the one it takes.
LEMMA RecvRtInitStep ==
  ASSUME IInv, NEW n \in Node, RecvRtInit(n)
  PROVE  IInv'
<1> DEFINE p == Received(n)
<1>1. bus[n] # <<>> /\ p \in Stamped /\ Accepts(n, p) /\ p.type = "RT_INIT"
  BY AcceptedPacket DEF RecvRtInit
<1>2. /\ p.counter \in Nat /\ p.counter <= stored /\ p.source \in Node /\ p.depth \in Nat
      /\ OnlySinkRestarts /\ p.source # Sink => HeardFrom(p.source, p.counter, p.depth)
  BY <1>1, StampedFields
<1>3. n \in Plant /\ p.counter > broadcast_counter[n]
  BY <1>1 DEF Accepts, AcceptsRtInit, Newer, Plant
<1>4. /\ broadcast_counter' = [broadcast_counter EXCEPT ![n] = p.counter]
      /\ rely' = [rely EXCEPT ![n] = p.source]
      /\ rt_formed' = [rt_formed EXCEPT ![n] = TRUE]
      /\ depth' = [depth EXCEPT ![n] = p.depth + 1]
      /\ Notify(n, TRUE, p.source)
      /\ Enqueue(n, <<RtAck(n, p.source, p.counter, <<n>>, n),
                      RtInit(n, p.counter, p.depth + 1)>>)
      /\ Handled(n, <<>>)
      /\ UNCHANGED <<send_state, sending_to, inBufferPackets, sinkVars, mac, used>>
  BY DEF RecvRtInit
<1> HIDE DEF p
<1>5. Grows
  <2>1. ASSUME NEW m \in Node, NEW c \in Nat, NEW d \in Nat, HeardFrom(m, c, d)
        PROVE  HeardFrom(m, c, d)'
    BY <1>2, <1>3, <1>4, <2>1 DEF HeardFrom, IInv, TreeInv, Plant
  <2>2. Stamped \subseteq Stamped'
    <3> SUFFICES ASSUME NEW q \in Stamped PROVE q \in Stamped'
      OBVIOUS
    <3>1. OnlySinkRestarts /\ q.type = "RT_INIT" /\ q.source # Sink =>
            HeardFrom(q.source, q.counter, q.depth)'
      BY <2>1, StampedFields DEF RawPacket
    <3>2. stored' = stored
      BY <1>4 DEF sinkVars
    <3> QED  BY <3>1, <3>2 DEF Stamped
  <2> QED  BY <2>2, <1>4 DEF Grows, EventsOf, sinkVars
<1>6. TreeInv'
  BY <1>2, <1>3, <1>4 DEF IInv, TreeInv, Plant
<1>7. CounterInv'
  BY <1>2, <1>3, <1>4 DEF IInv, CounterInv, TreeInv, Plant, sinkVars
<1>8. Climbs'
  <2> SUFFICES ASSUME OnlySinkRestarts, NEW k \in Plant, rely'[k] \in Plant
               PROVE  \/ broadcast_counter'[k] < broadcast_counter'[rely'[k]]
                      \/ /\ broadcast_counter'[k] = broadcast_counter'[rely'[k]]
                         /\ depth'[rely'[k]] < depth'[k]
    BY DEF Climbs, OnlySinkRestarts, Plant
  <2>1. CASE k = n
    <3>1. rely'[k] = p.source /\ p.source \in Plant
      BY <1>3, <1>4, <2>1 DEF IInv, TreeInv, Plant
    <3>2. p.source # n
      BY <1>2, <1>3, <3>1 DEF HeardFrom, Plant, IInv, TreeInv
    <3> QED  BY <1>2, <1>3, <1>4, <2>1, <3>1, <3>2 DEF HeardFrom, IInv, TreeInv, Plant
  <2>2. CASE k # n
    <3>1. rely'[k] = rely[k] /\ rely[k] \in Plant
      BY <1>3, <1>4, <2>2 DEF IInv, TreeInv, Plant
    <3> QED  BY <1>2, <1>3, <1>4, <2>2, <3>1 DEF IInv, TreeInv, Climbs, Plant
  <2> QED  BY <2>1, <2>2
<1>9. Queues'
  <2>1. RtAck(n, p.source, p.counter, <<n>>, n) \in From(n)'
    <3>1. <<n>> \in Seq(Node) /\ <<n>> # <<>> /\ stored' = stored
      BY <1>4 DEF sinkVars
    <3> QED  BY <1>2, <1>3, <3>1, RtAckOk
  <2>2. RtInit(n, p.counter, p.depth + 1) \in From(n)'
    <3>1. PICK c \in Nat, d \in Nat : c = p.counter /\ d = p.depth + 1
      BY <1>2
    <3>2. HeardFrom(n, c, d)'
      BY <1>2, <1>3, <1>4, <3>1 DEF HeardFrom, IInv, TreeInv, Plant
    <3>3. c <= stored'
      BY <1>2, <1>4, <3>1 DEF sinkVars
    <3> QED  BY <3>1, <3>2, <3>3, RtInitOk
  <2>3. <<RtAck(n, p.source, p.counter, <<n>>, n), RtInit(n, p.counter, p.depth + 1)>>
          \in Seq(From(n)')
    BY <2>1, <2>2
  <2> QED  BY <1>4, <1>5, <2>3, EnqueueOk DEF IInv
<1>10. Buses' /\ Messages' /\ UsedInv'
  BY <1>1, <1>4, <1>5, HandledOk, MessagesKept, UsedFrame DEF IInv
<1>11. SendInv' /\ NodesInv' /\ SerialInv' /\ HostInv'
  BY <1>2, <1>4, SendFrame, SinkFrame, NotifyOk DEF sinkVars, IInv, SerialInv
<1> QED  BY <1>5, <1>6, <1>7, <1>8, <1>9, <1>10, <1>11 DEF IInv

\* The sink's next wave.
LEMMA IncrBroadcastCounterStep ==
  ASSUME IInv, IncrBroadcastCounter
  PROVE  IInv'
<1> DEFINE c == broadcast_counter[Sink] + 1
<1>1. /\ bus[Sink] # <<>> /\ Head(bus[Sink]).ev = "incr"
      /\ broadcast_counter' = [broadcast_counter EXCEPT ![Sink] = c]
      /\ stored' = c
      /\ Enqueue(Sink, <<RtInit(Sink, c, 0)>>)
      /\ Handled(Sink, <<>>)
      /\ UNCHANGED <<rt_formed, rely, depth, send_state, sending_to, appVars, fast_rt_init,
                     serial, host, mac, used>>
  BY DEF IncrBroadcastCounter, At, PutStore
<1>2. Sink \in Node /\ serial.up /\ broadcast_counter[Sink] = stored /\ c \in Nat
  BY <1>1, NodeAssumption, HeadEvent DEF IInv, CounterInv, TreeInv
<1>3. stored \in Nat /\ stored <= stored'
  BY <1>1, <1>2 DEF IInv, CounterInv
<1> HIDE DEF c
<1>4. Grows
  <2>1. Stamped \subseteq Stamped'
    <3> SUFFICES ASSUME NEW q \in Stamped PROVE q \in Stamped'
      OBVIOUS
    <3>1. q.source # Sink => (HeardFrom(q.source, q.counter, q.depth)' <=>
                              HeardFrom(q.source, q.counter, q.depth))
      BY <1>1, StampedFields DEF HeardFrom, IInv, TreeInv
    <3>2. q.counter <= stored'
      BY <1>1, <1>2, <1>3, StampedFields
    <3> QED  BY <3>1, <3>2 DEF Stamped
  <2> QED  BY <2>1, <1>1 DEF Grows, EventsOf
<1>5. TreeInv'
  BY <1>1, <1>2 DEF IInv, TreeInv
<1>6. CounterInv'
  BY <1>1, <1>2, <1>3 DEF IInv, CounterInv, TreeInv
<1>7. Climbs'
  BY <1>1, <1>2 DEF IInv, Climbs, TreeInv, Plant
<1>8. Queues'
  <2>1. RtInit(Sink, c, 0) \in From(Sink)'
    BY <1>1, <1>2, RtInitOk
  <2> QED  BY <1>1, <1>2, <1>4, <2>1, EnqueueOneOk
<1>9. Buses' /\ Messages' /\ UsedInv'
  BY <1>1, <1>2, <1>4, HandledOk, MessagesKept, UsedFrame DEF IInv
<1>10. SendInv' /\ NodesInv' /\ SerialInv' /\ HostInv'
  BY <1>1, SendFrame, NodesFrame, SinkFrame DEF appVars, IInv, SerialInv
<1> QED  BY <1>4, <1>5, <1>6, <1>7, <1>8, <1>9, <1>10 DEF IInv

-----------------------------------------------------------------------------
(* Sending, and the events of the MAC layer.                               *)

LEMMA SendToMacStep ==
  ASSUME IInv, NEW n \in Node, SendToMac(n)
  PROVE  IInv'
<1> DEFINE p == Head(outBufferPackets[n])
<1>1. /\ bus[n] # <<>> /\ outBufferPackets[n] # <<>> /\ Handled(n, <<>>)
      /\ sending_to' = [sending_to EXCEPT ![n] = p.forward]
      /\ mac' = [mac EXCEPT ![n] = Append(@, MacMessage(n, p))]
      /\ outBufferPackets' = [outBufferPackets EXCEPT ![n] = Tail(@)]
      /\ send_state' = [send_state EXCEPT ![n] = IF @ = "BROADCAST" THEN "READY" ELSE @]
      /\ UNCHANGED <<treeVars, appVars, sinkVars, used>>
  BY DEF SendToMac, At
<1>2. p \in From(n) /\ Tail(outBufferPackets[n]) \in Seq(From(n))
  BY <1>1, TailIsSeq DEF IInv, Queues
<1>3. p \in Stamped /\ p.forward \in Node \cup {Broadcast}
  BY <1>2, StampedFields DEF From
<1>4. /\ Grows /\ TreeInv' /\ CounterInv' /\ Climbs'
  BY <1>1, TreeFrame DEF sinkVars
<1> HIDE DEF p
<1>5. Messages'
  <2>1. MacMessage(n, p) \in Message
    BY <1>3, TopologyAssumption DEF MacMessage, Message
  <2>2. Append(mac[n], MacMessage(n, p)) \in Seq(Message)
    BY <2>1, AppendIsSeq DEF IInv, Messages
  <2>3. mac' \in [Node -> Seq(Message)]
    BY <1>1, <2>2 DEF IInv, Messages
  <2>4. Message \subseteq Message'
    BY <1>4 DEF Message, Grows
  <2> QED  BY <2>3, <2>4, SeqMonotonic DEF Messages
<1>6. Queues'
  <2>1. \A k \in Node : outBufferPackets'[k] \in Seq(From(k))
    BY <1>1, <1>2 DEF IInv, Queues
  <2>2. \A k \in Node : From(k) \subseteq From(k)'
    BY <1>4 DEF From, Grows
  <2>3. DOMAIN outBufferPackets' = Node
    BY <1>1 DEF IInv, Queues
  <2> QED  BY <2>1, <2>2, <2>3, SeqMonotonic DEF Queues
<1>7. Buses'
  BY <1>1, <1>4, HandledOk DEF IInv
<1>8. SendInv'
  BY <1>1, <1>3 DEF IInv, SendInv
<1>9. NodesInv' /\ SerialInv' /\ HostInv' /\ UsedInv'
  BY <1>1, NodesFrame, SinkFrame, UsedFrame DEF appVars, sinkVars, IInv, SerialInv
<1> QED  BY <1>4, <1>5, <1>6, <1>7, <1>8, <1>9 DEF IInv

LEMMA ReadyOk ==
  ASSUME IInv, NEW n \in Node, UNCHANGED sending_to,
         send_state' = [send_state EXCEPT ![n] = IF Waiting(n) THEN "READY" ELSE @]
  PROVE  SendInv'
  BY DEF IInv, SendInv, Waiting

LEMMA PacketSentStep ==
  ASSUME IInv, NEW n \in Node, PacketSent(n)
  PROVE  IInv'
<1>1. /\ bus[n] # <<>> /\ Handled(n, <<>>)
      /\ send_state' = [send_state EXCEPT ![n] = IF Waiting(n) THEN "READY" ELSE @]
      /\ UNCHANGED <<treeVars, sending_to, outBufferPackets, appVars, sinkVars, mac, used>>
  BY DEF PacketSent, At
<1>2. /\ Grows /\ TreeInv' /\ CounterInv' /\ Climbs'
      /\ Buses' /\ Messages' /\ UsedInv'
  BY <1>1, ReceiveFrame DEF sinkVars
<1>3. Queues' /\ SendInv' /\ NodesInv'
  BY <1>1, <1>2, QueuesKept, ReadyOk, NodesFrame DEF appVars, IInv
<1>4. SerialInv' /\ HostInv'
  BY <1>1, SinkFrame DEF sinkVars, IInv, SerialInv
<1> QED  BY <1>2, <1>3, <1>4 DEF IInv

LEMMA PacketTimeoutStep ==
  ASSUME IInv, NEW n \in Node, PacketTimeout(n)
  PROVE  IInv'
<1>1. /\ bus[n] # <<>> /\ Handled(n, <<>>)
      /\ send_state' = [send_state EXCEPT ![n] = IF Waiting(n) THEN "READY" ELSE @]
      /\ UNCHANGED <<sending_to, inBufferPackets, sinkVars, mac, used>>
      /\ \/ send_state[n] = "SINK" /\ RtDisconnect(n)
         \/ send_state[n] = "SUBTREE" /\ SendLeave(n)
         \/ UNCHANGED <<treeVars, outBufferPackets, inBufferNodes>>
  BY DEF PacketTimeout, At
<1>2. Grows /\ TreeInv' /\ CounterInv' /\ Climbs' /\ Queues' /\ NodesInv'
  <2>1. CASE send_state[n] = "SINK" /\ RtDisconnect(n)
    <3>1. n \in Plant
      BY <2>1 DEF IInv, SendInv, Plant
    <3> QED  BY <1>1, <2>1, <3>1, RtDisconnectOk DEF sinkVars
  <2>2. CASE SendLeave(n)
    <3>1. Grows /\ TreeInv' /\ CounterInv' /\ Climbs'
      BY <1>1, <2>2, TreeFrame DEF SendLeave, sinkVars
    <3>2. sending_to[n] \in Node \cup {Broadcast}
      BY DEF IInv, SendInv
    <3>3. CASE n = Sink
      <4>1. Notify(n, FALSE, sending_to[n]) /\ UNCHANGED outBufferPackets
        BY <2>2, <3>3 DEF SendLeave
      <4> QED  BY <3>1, <3>2, <4>1, NotifyOk, QueuesKept DEF IInv
    <3>4. CASE n # Sink
      <4>1. /\ Enqueue(n, <<Leave(n, sending_to[n], broadcast_counter[n], n)>>)
            /\ UNCHANGED inBufferNodes
        BY <2>2, <3>4 DEF SendLeave
      <4>2. /\ broadcast_counter[n] \in Nat /\ broadcast_counter[n] <= stored'
            /\ rely[n] \in Node \cup {Broadcast}
        BY <1>1 DEF IInv, TreeInv, CounterInv, sinkVars
      <4>3. Leave(n, sending_to[n], broadcast_counter[n], n) \in From(n)'
        BY <3>2, <3>4, <4>2, LeaveOk DEF Plant
      <4> QED  BY <3>1, <4>1, <4>3, EnqueueOneOk, NodesFrame
    <3> QED  BY <3>3, <3>4
  <2>3. CASE UNCHANGED <<treeVars, outBufferPackets, inBufferNodes>>
    <3>1. Grows /\ TreeInv' /\ CounterInv' /\ Climbs'
      BY <1>1, <2>3, TreeFrame DEF sinkVars
    <3> QED  BY <2>3, <3>1, QueuesKept, NodesFrame DEF IInv
  <2> QED  BY <1>1, <2>1, <2>2, <2>3
<1>3. Buses' /\ Messages' /\ UsedInv'
  BY <1>1, <1>2, HandledOk, MessagesKept, UsedFrame DEF IInv
<1>4. SendInv' /\ SerialInv' /\ HostInv'
  BY <1>1, ReadyOk, SinkFrame DEF sinkVars, IInv, SerialInv
<1> QED  BY <1>2, <1>3, <1>4 DEF IInv

\* One event is put on the bus of a node, and nothing of the nodes changes.
LEMMA FireFrame ==
  ASSUME IInv, NEW n \in Node, NEW e \in EventsOf(n), Fire(n, <<e>>),
         UNCHANGED <<treeVars, sendVars, appVars, stored>>, serial'.up = serial.up
  PROVE  /\ Grows /\ TreeInv' /\ CounterInv' /\ Climbs'
         /\ Queues' /\ Buses' /\ SendInv' /\ NodesInv'
<1>1. Grows /\ TreeInv' /\ CounterInv' /\ Climbs'
  BY TreeFrame
<1>2. Queues' /\ SendInv' /\ NodesInv'
  BY <1>1, QueuesKept, SendFrame, NodesFrame DEF IInv, sendVars, appVars
<1>3. e \in EventsOf(n)'
  BY <1>1 DEF Grows
<1>4. <<e>> \in Seq(EventsOf(n)')
  BY <1>3
<1>5. Buses'
  BY <1>1, <1>4, FireOk DEF IInv
<1> QED  BY <1>1, <1>2, <1>5

\* A message becomes another one of the same packet, or is forgotten.
LEMMA MacBecomesOk ==
  ASSUME IInv, Grows, NEW n \in Node, NEW i \in DOMAIN mac[n], NEW m \in Message,
         MacBecomes(n, i, m)
  PROVE  Messages'
<1>1. /\ RemoveAt(mac[n], i) \in Seq(Message)
      /\ ReplaceAt(mac[n], i, m) \in Seq(Message)
  BY RemoveAtIsSeq, ReplaceAtIsSeq DEF IInv, Messages
<1>2. mac' \in [Node -> Seq(Message)]
  BY <1>1 DEF MacBecomes, IInv, Messages
<1>3. Message \subseteq Message'
  BY DEF Message, Grows
<1> QED  BY <1>2, <1>3, SeqMonotonic DEF Messages

LEMMA InMac ==
  ASSUME IInv, NEW n \in Node, NEW i \in DOMAIN mac[n]
  PROVE  mac[n][i] \in Message
  BY ElementOfSeq, LenProperties DEF IInv, Messages

LEMMA MacDeliverStep ==
  ASSUME IInv, NEW n \in Node, MacDeliver(n)
  PROVE  IInv'
<1>1. PICK i \in DOMAIN mac[n] : \E m \in mac[n][i].left :
        /\ Fire(m, <<EventOf("recv", mac[n][i].pkt)>>)
        /\ MacBecomes(n, i, [mac[n][i] EXCEPT !.left = @ \ {m}])
        /\ UNCHANGED <<treeVars, sendVars, appVars, sinkVars, used>>
  BY DEF MacDeliver
<1>2. PICK m \in mac[n][i].left :
        /\ Fire(m, <<EventOf("recv", mac[n][i].pkt)>>)
        /\ MacBecomes(n, i, [mac[n][i] EXCEPT !.left = @ \ {m}])
        /\ UNCHANGED <<treeVars, sendVars, appVars, sinkVars, used>>
  BY <1>1
<1>3. mac[n][i] \in Message
  BY InMac
<1>4. m \in Node /\ EventOf("recv", mac[n][i].pkt) \in EventsOf(m)
  BY <1>3 DEF Message, EventOf, EventsOf
<1>5. [mac[n][i] EXCEPT !.left = @ \ {m}] \in Message
  BY <1>3 DEF Message
<1>6. /\ Grows /\ TreeInv' /\ CounterInv' /\ Climbs'
      /\ Queues' /\ Buses' /\ SendInv' /\ NodesInv'
  BY <1>2, <1>4, FireFrame DEF sinkVars
<1>7. Messages'
  BY <1>2, <1>5, <1>6, MacBecomesOk
<1>8. SerialInv' /\ HostInv' /\ UsedInv'
  BY <1>2, SinkFrame, UsedFrame DEF sinkVars, IInv, SerialInv
<1> QED  BY <1>6, <1>7, <1>8 DEF IInv

\* A message that is answered no more is a message.
LEMMA UnansweredOk ==
  ASSUME NEW m \in Message
  PROVE  Unanswered(m) \in Message
  BY BoundAssumption DEF Unanswered, Message

LEMMA MacRepeatStep ==
  ASSUME IInv, NEW n \in Node, MacRepeat(n)
  PROVE  IInv'
<1>1. PICK i \in DOMAIN mac[n] :
        /\ used' = [used EXCEPT !.repeat[n] = @ + 1]
        /\ mac' = [mac EXCEPT ![n] = Append(@, Unanswered(mac[n][i]))]
        /\ UNCHANGED <<treeVars, sendVars, appVars, sinkVars, bus>>
  BY DEF MacRepeat
<1>2. /\ Grows /\ TreeInv' /\ CounterInv' /\ Climbs'
  BY <1>1, TreeFrame DEF sinkVars
<1>3. Queues' /\ Buses' /\ SendInv' /\ NodesInv'
  BY <1>1, <1>2, QueuesKept, BusesKept, SendFrame, NodesFrame DEF IInv, sendVars, appVars
<1>4. Messages'
  <2>1. Append(mac[n], Unanswered(mac[n][i])) \in Seq(Message)
    BY InMac, UnansweredOk, AppendIsSeq DEF IInv, Messages
  <2>2. mac' \in [Node -> Seq(Message)]
    BY <1>1, <2>1 DEF IInv, Messages
  <2>3. Message \subseteq Message'
    BY <1>2 DEF Message, Grows
  <2> QED  BY <2>2, <2>3, SeqMonotonic DEF Messages
<1>5. SerialInv' /\ HostInv'
  BY <1>1, SinkFrame DEF sinkVars, IInv, SerialInv
<1>6. UsedInv'
  BY <1>1, CountOne DEF IInv, UsedInv
<1> QED  BY <1>2, <1>3, <1>4, <1>5, <1>6 DEF IInv

LEMMA MacSentStep ==
  ASSUME IInv, NEW n \in Node, MacSent(n)
  PROVE  IInv'
<1>1. PICK i \in DOMAIN mac[n] :
        /\ MacBecomes(n, i, [mac[n][i] EXCEPT !.sent = 1])
        /\ Fire(n, <<EventOf("sent", mac[n][i].pkt)>>)
        /\ UNCHANGED <<treeVars, sendVars, appVars, sinkVars, used>>
  BY DEF MacSent
<1>2. mac[n][i] \in Message
  BY InMac
<1>3. /\ EventOf("sent", mac[n][i].pkt) \in EventsOf(n)
      /\ [mac[n][i] EXCEPT !.sent = 1] \in Message
  BY <1>2 DEF Message, EventOf, EventsOf
<1>4. /\ Grows /\ TreeInv' /\ CounterInv' /\ Climbs'
      /\ Queues' /\ Buses' /\ SendInv' /\ NodesInv'
  BY <1>1, <1>3, FireFrame DEF sinkVars
<1>5. Messages'
  BY <1>1, <1>3, <1>4, MacBecomesOk
<1>6. SerialInv' /\ HostInv' /\ UsedInv'
  BY <1>1, SinkFrame, UsedFrame DEF sinkVars, IInv, SerialInv
<1> QED  BY <1>4, <1>5, <1>6 DEF IInv

LEMMA MacTimeoutStep ==
  ASSUME IInv, NEW n \in Node, MacTimeout(n)
  PROVE  IInv'
<1>1. PICK i \in DOMAIN mac[n] :
        /\ MacBecomes(n, i, [mac[n][i] EXCEPT !.timeouts = @ + 1])
        /\ Fire(n, <<EventOf("timeout", mac[n][i].pkt)>>)
        /\ used' = [used EXCEPT !.timeout = @ + 1]
        /\ UNCHANGED <<treeVars, sendVars, appVars, sinkVars>>
  BY DEF MacTimeout
<1>2. mac[n][i] \in Message
  BY InMac
<1>3. /\ EventOf("timeout", mac[n][i].pkt) \in EventsOf(n)
      /\ [mac[n][i] EXCEPT !.timeouts = @ + 1] \in Message
  BY <1>2 DEF Message, EventOf, EventsOf
<1>4. /\ Grows /\ TreeInv' /\ CounterInv' /\ Climbs'
      /\ Queues' /\ Buses' /\ SendInv' /\ NodesInv'
  BY <1>1, <1>3, FireFrame DEF sinkVars
<1>5. Messages'
  BY <1>1, <1>3, <1>4, MacBecomesOk
<1>6. SerialInv' /\ HostInv'
  BY <1>1, SinkFrame DEF sinkVars, IInv, SerialInv
<1>7. UsedInv'
  BY <1>1, CountOne DEF IInv, UsedInv
<1> QED  BY <1>4, <1>5, <1>6, <1>7 DEF IInv

-----------------------------------------------------------------------------
(* The sink, its serial line and the host.                                 *)

LEMMA SendToSerialStep ==
  ASSUME IInv, SendToSerial
  PROVE  IInv'
<1>1. /\ bus[Sink] # <<>> /\ Handled(Sink, <<>>) /\ serial.out # <<>>
      /\ serial' = [serial EXCEPT !.in_send = Head(serial.out), !.out = Tail(@)]
      /\ host' = [host EXCEPT !.to = Append(@, Head(serial.out))]
      /\ UNCHANGED <<treeVars, sendVars, appVars, fast_rt_init, stored, mac, used>>
  BY DEF SendToSerial, At
<1>2. Head(serial.out) \in ToHost /\ Tail(serial.out) \in Seq(ToHost)
  BY <1>1, TailIsSeq DEF IInv, SerialInv
<1>3. SerialInv'
  BY <1>1, <1>2 DEF IInv, SerialInv
<1>4. HostInv'
  <2>1. Append(host.to, Head(serial.out)) \in Seq(ToHost)
    BY <1>2, AppendIsSeq DEF IInv, HostInv
  <2> QED  BY <1>1, <2>1 DEF IInv, HostInv
<1>5. serial'.up = serial.up
  BY <1>1 DEF IInv, SerialInv
<1>6. /\ Grows /\ TreeInv' /\ CounterInv' /\ Climbs'
      /\ Buses' /\ Messages' /\ UsedInv'
  BY <1>1, <1>5, ReceiveFrame, NodeAssumption
<1>7. Queues' /\ SendInv' /\ NodesInv'
  BY <1>1, <1>6, QueuesKept, SendFrame, NodesFrame DEF sendVars, appVars, IInv
<1> QED  BY <1>3, <1>4, <1>6, <1>7 DEF IInv

LEMMA RecvInitStep ==
  ASSUME IInv, RecvInit
  PROVE  IInv'
<1>1. /\ bus[Sink] # <<>> /\ Handled(Sink, <<>>)
      /\ serial' = [serial EXCEPT !.initiated = TRUE]
      /\ host' = [host EXCEPT !.to = @ \o Resent]
      /\ UNCHANGED <<treeVars, sendVars, appVars, fast_rt_init, stored, mac, used>>
  BY DEF RecvInit, At
<1>2. SerialInv' /\ serial'.up = serial.up
  BY <1>1 DEF IInv, SerialInv
<1>3. HostInv'
  <2>1. Resent \in Seq(ToHost)
    <3>1. CASE serial.in_send = NULL
      BY <3>1, EmptyIsSeq DEF Resent
    <3>2. CASE serial.in_send # NULL
      <4>1. serial.in_send \in ToHost
        BY <3>2 DEF IInv, SerialInv
      <4>2. <<serial.in_send>> \in Seq(ToHost)
        BY <4>1
      <4> QED  BY <4>2, EmptyIsSeq DEF Resent
    <3> QED  BY <3>1, <3>2
  <2>2. host.to \o Resent \in Seq(ToHost)
    BY <2>1, ConcatIsSeq DEF IInv, HostInv
  <2> QED  BY <1>1, <2>2 DEF IInv, HostInv
<1>4. /\ Grows /\ TreeInv' /\ CounterInv' /\ Climbs'
      /\ Buses' /\ Messages' /\ UsedInv'
  BY <1>1, <1>2, ReceiveFrame, NodeAssumption
<1>5. Queues' /\ SendInv' /\ NodesInv'
  BY <1>1, <1>4, QueuesKept, SendFrame, NodesFrame DEF sendVars, appVars, IInv
<1> QED  BY <1>2, <1>3, <1>4, <1>5 DEF IInv

LEMMA RecvAnswerStep ==
  ASSUME IInv, RecvAnswer
  PROVE  IInv'
<1> DEFINE r == serial.received
<1>1. /\ bus[Sink] # <<>> /\ Handled(Sink, <<>>) /\ r.mode = "ANSWER"
      /\ UNCHANGED <<treeVars, send_state, sending_to, inBufferPackets, fast_rt_init, stored,
                     host, caller, mac, used>>
      /\ \/ /\ serial.state = "GET" /\ serial' = RouteAnswered(r.found)
            /\ Enqueue(Sink, IF r.found
                             THEN <<Command(Sink, r.route, serial.get_payload, Sink)>>
                             ELSE <<>>)
            /\ UNCHANGED inBufferNodes
         \/ /\ serial.state = "PUT" /\ serial' = [serial EXCEPT !.state = "READY"]
            /\ Notify(Sink, TRUE, serial.put_origin)
            /\ UNCHANGED outBufferPackets
         \/ UNCHANGED <<serial, inBufferNodes, outBufferPackets>>
  <2>1. serial.state \in {"GET", "PUT", "READY"}
    BY DEF IInv, SerialInv
  <2> QED  BY <2>1 DEF RecvAnswer, At
<1>2. /\ r.found \in BOOLEAN /\ r.route \in Seq(Node)
      /\ r.found => r.route # <<>>
      /\ serial.get_payload \in Node \cup {NULL} /\ serial.put_origin \in Node \cup {Broadcast}
  BY <1>1 DEF IInv, SerialInv, FromHost
<1> HIDE DEF r
<1>3. SerialInv' /\ serial'.up = serial.up
  BY <1>1, <1>2 DEF IInv, SerialInv, RouteAnswered
<1>4. HostInv'
  BY <1>1 DEF IInv, HostInv
<1>5. /\ Grows /\ TreeInv' /\ CounterInv' /\ Climbs'
      /\ Buses' /\ Messages' /\ UsedInv'
  BY <1>1, <1>3, ReceiveFrame, NodeAssumption
<1>6. Queues' /\ NodesInv'
  <2>1. CASE /\ Enqueue(Sink, IF r.found
                              THEN <<Command(Sink, r.route, serial.get_payload, Sink)>>
                              ELSE <<>>)
             /\ UNCHANGED inBufferNodes
    <3>1. NodesInv'
      BY <2>1, NodesFrame
    <3>2. CASE r.found
      <4>1. Command(Sink, r.route, serial.get_payload, Sink) \in From(Sink)'
        BY <1>2, <1>5, <3>2, CommandOk, NodeAssumption DEF CounterInv
      <4>2. Enqueue(Sink, <<Command(Sink, r.route, serial.get_payload, Sink)>>)
        BY <2>1, <3>2
      <4> QED  BY <1>5, <3>1, <4>1, <4>2, EnqueueOneOk, NodeAssumption
    <3>3. CASE ~r.found
      <4>1. <<>> \in Seq(From(Sink)') /\ Enqueue(Sink, <<>>)
        BY <2>1, <3>3, EmptyIsSeq
      <4> QED  BY <1>5, <3>1, <4>1, EnqueueOk, NodeAssumption DEF IInv
    <3> QED  BY <3>2, <3>3
  <2>2. CASE Notify(Sink, TRUE, serial.put_origin) /\ UNCHANGED outBufferPackets
    BY <1>2, <1>5, <2>2, NotifyOk, QueuesKept, NodeAssumption DEF IInv
  <2>3. CASE UNCHANGED <<inBufferNodes, outBufferPackets>>
    BY <1>5, <2>3, NodesFrame, QueuesKept DEF IInv
  <2> QED  BY <1>1, <2>1, <2>2, <2>3
<1>7. SendInv'
  BY <1>1, SendFrame
<1> QED  BY <1>3, <1>4, <1>5, <1>6, <1>7 DEF IInv

LEMMA SinkSendStep ==
  ASSUME IInv, NEW f \in Caller, SinkSend(f)
  PROVE  IInv'
<1>1. PICK d \in Node :
        serial' = [serial EXCEPT !.get_payload = d, !.waits = TRUE, !.out =
            Append(@, [mode |-> "GET", route |-> <<>>, dest |-> d])]
  BY DEF SinkSend
<1>2. /\ bus[Sink] # <<>> /\ Handled(Sink, <<>>)
      /\ UNCHANGED <<treeVars, sendVars, appVars, fast_rt_init, stored, host, mac, used>>
  BY DEF SinkSend, At
<1>3. [mode |-> "GET", route |-> <<>>, dest |-> d] \in ToHost
  <2>1. <<>> \in Seq(Node)
    BY EmptyIsSeq
  <2> QED  BY <2>1 DEF ToHost
<1>4. Append(serial.out, [mode |-> "GET", route |-> <<>>, dest |-> d]) \in Seq(ToHost)
  BY <1>3, AppendIsSeq DEF IInv, SerialInv
<1>5. SerialInv' /\ serial'.up = serial.up
  BY <1>1, <1>2, <1>4 DEF IInv, SerialInv
<1>6. HostInv'
  BY <1>2 DEF IInv, HostInv
<1>7. /\ Grows /\ TreeInv' /\ CounterInv' /\ Climbs'
      /\ Buses' /\ Messages' /\ UsedInv'
  BY <1>2, <1>5, ReceiveFrame, NodeAssumption
<1>8. Queues' /\ SendInv' /\ NodesInv'
  BY <1>2, <1>7, QueuesKept, SendFrame, NodesFrame DEF sendVars, appVars, IInv
<1> QED  BY <1>5, <1>6, <1>7, <1>8 DEF IInv

\* An event of the sink that carries nothing.
LEMMA SinkEvent ==
  /\ \A ev \in {"ready", "serial_ready", "table", "request"} :
       \A n \in Node : Event(ev) \in EventsOf(n)
  /\ serial.up => Event("incr") \in EventsOf(Sink)
  BY DEF Event, EventsOf

LEMMA SerialIdleTickStep ==
  ASSUME IInv, SerialIdleTick
  PROVE  IInv'
<1>1. /\ serial.out # <<>> /\ Fire(Sink, <<Event("serial_ready")>>)
      /\ serial' = [serial EXCEPT !.state = Head(serial.out).mode]
      /\ UNCHANGED <<treeVars, sendVars, appVars, fast_rt_init, stored, host, mac, used>>
  BY DEF SerialIdleTick
<1>2. Head(serial.out).mode \in {"GET", "PUT"}
  <2>1. Head(serial.out) \in ToHost
    BY <1>1, TailIsSeq DEF IInv, SerialInv
  <2> QED  BY <2>1 DEF ToHost
<1>3. SerialInv' /\ HostInv' /\ serial'.up = serial.up
  BY <1>1, <1>2 DEF IInv, SerialInv, HostInv
<1>4. /\ Grows /\ TreeInv' /\ CounterInv' /\ Climbs'
      /\ Queues' /\ Buses' /\ SendInv' /\ NodesInv'
  BY <1>1, <1>3, FireFrame, SinkEvent, NodeAssumption
<1>5. Messages' /\ UsedInv'
  BY <1>1, <1>4, MessagesKept, UsedFrame DEF IInv
<1> QED  BY <1>3, <1>4, <1>5 DEF IInv

LEMMA RequestStep ==
  ASSUME IInv, Request
  PROVE  IInv'
<1>1. /\ Fire(Sink, <<Event("request")>>) /\ used' = [used EXCEPT !.command = @ + 1]
      /\ UNCHANGED <<treeVars, sendVars, appVars, sinkVars, mac>>
  BY DEF Request
<1>2. /\ Grows /\ TreeInv' /\ CounterInv' /\ Climbs'
      /\ Queues' /\ Buses' /\ SendInv' /\ NodesInv'
  BY <1>1, FireFrame, SinkEvent, NodeAssumption DEF sinkVars
<1>3. Messages' /\ SerialInv' /\ HostInv'
  BY <1>1, <1>2, MessagesKept, SinkFrame DEF sinkVars, IInv, SerialInv
<1>4. UsedInv'
  BY <1>1, CountOne DEF IInv, UsedInv
<1> QED  BY <1>2, <1>3, <1>4 DEF IInv

\* What the host says is kept until the sink reads it.
LEMMA HostDeliversOk ==
  ASSUME IInv, NEW m \in FromHost, HostDelivers(m),
         UNCHANGED <<treeVars, sendVars, appVars, fast_rt_init, stored, mac>>
  PROVE  /\ TreeInv' /\ CounterInv' /\ Climbs' /\ Queues' /\ Buses' /\ Messages'
         /\ SendInv' /\ NodesInv' /\ SerialInv'
<1>1. Fire(Sink, <<Event("table")>>) /\ serial' = [serial EXCEPT !.received = m]
  BY DEF HostDelivers
<1>2. SerialInv' /\ serial'.up = serial.up
  BY <1>1 DEF IInv, SerialInv
<1>3. /\ Grows /\ TreeInv' /\ CounterInv' /\ Climbs'
      /\ Queues' /\ Buses' /\ SendInv' /\ NodesInv'
  BY <1>1, <1>2, FireFrame, SinkEvent, NodeAssumption
<1> QED  BY <1>2, <1>3, MessagesKept DEF IInv

LEMMA HostStartStep ==
  ASSUME IInv, HostStart
  PROVE  IInv'
<1>1. /\ HostDelivers([mode |-> "INIT"]) /\ used' = [used EXCEPT !.host = @ + 1]
      /\ UNCHANGED <<treeVars, sendVars, appVars, fast_rt_init, stored, mac>>
  BY DEF HostStart
<1>2. PICK k \in 0 .. Len(host.to) :
        host' = [host EXCEPT !.to = SubSeq(@, Len(@) - k + 1, Len(@))]
  BY DEF HostStart
<1>3. HostInv'
  <2>1. host.to \in Seq(ToHost) /\ Len(host.to) \in Nat
    BY LenProperties DEF IInv, HostInv
  <2>2. Len(host.to) - k + 1 \in Nat \ {0} /\ Len(host.to) \in 0 .. Len(host.to)
    BY <2>1
  <2>3. SubSeq(host.to, Len(host.to) - k + 1, Len(host.to)) \in Seq(ToHost)
    BY <2>1, <2>2, SubSeqIsSeq
  <2> QED  BY <1>2, <2>3 DEF IInv, HostInv
<1>4. [mode |-> "INIT"] \in FromHost
  BY DEF FromHost
<1>5. /\ TreeInv' /\ CounterInv' /\ Climbs' /\ Queues' /\ Buses' /\ Messages'
      /\ SendInv' /\ NodesInv' /\ SerialInv'
  BY <1>1, <1>4, HostDeliversOk
<1>6. UsedInv'
  <2>1. UsedInv /\ used' = [used EXCEPT !.host = @ + 1]
    BY <1>1 DEF IInv
  <2> QED  BY <2>1, CountOne DEF UsedInv
<1> QED  BY <1>3, <1>5, <1>6 DEF IInv

LEMMA HostAnswerStep ==
  ASSUME IInv, HostAnswer
  PROVE  IInv'
<1> DEFINE q == Head(host.to)
<1>1. /\ host.to # <<>>
      /\ host' = [to |-> Tail(host.to),
                  routes |-> host.routes \cup IF q.mode = "PUT" THEN {q.route} ELSE {}]
      /\ UNCHANGED <<treeVars, sendVars, appVars, fast_rt_init, stored, caller, mac, used>>
      /\ \/ \E r \in host.routes :
              HostDelivers([mode |-> "ANSWER", found |-> TRUE, route |-> r])
         \/ HostDelivers(EmptyAnswer)
  BY DEF HostAnswer, RoutesTo
<1>2. q \in ToHost /\ Tail(host.to) \in Seq(ToHost)
  BY <1>1, TailIsSeq DEF IInv, HostInv
<1>3. HostInv'
  BY <1>1, <1>2 DEF IInv, HostInv, ToHost
<1>4. \E m \in FromHost : HostDelivers(m)
  <2>1. CASE HostDelivers(EmptyAnswer)
    <3>1. <<>> \in Seq(Node)
      BY EmptyIsSeq
    <3>2. EmptyAnswer \in FromHost
      BY <3>1 DEF EmptyAnswer, FromHost
    <3> QED  BY <2>1, <3>2
  <2>2. ASSUME NEW r \in host.routes,
               HostDelivers([mode |-> "ANSWER", found |-> TRUE, route |-> r])
        PROVE  \E m \in FromHost : HostDelivers(m)
    <3>1. r \in Seq(Node) /\ r # <<>>
      BY DEF IInv, HostInv
    <3>2. [mode |-> "ANSWER", found |-> TRUE, route |-> r] \in FromHost
      BY <3>1 DEF FromHost
    <3> QED  BY <2>2, <3>2
  <2> QED  BY <1>1, <2>1, <2>2
<1>5. PICK m \in FromHost : HostDelivers(m)
  BY <1>4
<1>6. /\ TreeInv' /\ CounterInv' /\ Climbs' /\ Queues' /\ Buses' /\ Messages'
      /\ SendInv' /\ NodesInv' /\ SerialInv'
  BY <1>1, <1>5, HostDeliversOk
<1>7. UsedInv'
  BY <1>1, UsedFrame
<1> QED  BY <1>3, <1>6, <1>7 DEF IInv

LEMMA BootStep ==
  ASSUME IInv, Boot
  PROVE  IInv'
<1>1. /\ broadcast_counter' = [broadcast_counter EXCEPT ![Sink] = stored]
      /\ serial' = [serial EXCEPT !.up = TRUE, !.in_send = NULL, !.get_payload = NULL,
                                  !.received = EmptyAnswer]
      /\ UNCHANGED <<rt_formed, rely, depth, sendVars, appVars, fast_rt_init, stored,
                     host, caller, bus, mac, used>>
  BY DEF Boot
<1>2. Sink \in Node /\ stored \in Nat
  BY NodeAssumption DEF IInv, CounterInv
<1>3. SerialInv' /\ serial'.up
  <2>1. <<>> \in Seq(Node)
    BY EmptyIsSeq
  <2>2. EmptyAnswer \in FromHost
    BY <2>1 DEF EmptyAnswer, FromHost
  <2> QED  BY <1>1, <2>2 DEF IInv, SerialInv
<1>4. Grows
  <2>1. \A q \in Stamped : q.source # Sink =>
          (HeardFrom(q.source, q.counter, q.depth)' <=>
           HeardFrom(q.source, q.counter, q.depth))
    BY <1>1, StampedFields DEF HeardFrom, IInv, TreeInv
  <2>2. Stamped \subseteq Stamped'
    BY <1>1, <2>1 DEF Stamped
  <2> QED  BY <1>3, <2>2 DEF Grows, EventsOf
<1>5. TreeInv'
  BY <1>1, <1>2 DEF IInv, TreeInv
<1>6. CounterInv'
  BY <1>1, <1>2 DEF IInv, CounterInv, TreeInv
<1>7. Climbs'
  BY <1>1, <1>2 DEF IInv, Climbs, TreeInv, Plant
<1>8. Queues' /\ Buses' /\ Messages'
  BY <1>1, <1>4, QueuesKept, BusesKept, MessagesKept DEF IInv, sendVars
<1>9. SendInv' /\ NodesInv' /\ UsedInv'
  BY <1>1, SendFrame, NodesFrame, UsedFrame DEF sendVars, appVars
<1>10. HostInv'
  BY <1>1 DEF IInv, HostInv
<1> QED  BY <1>3, <1>5, <1>6, <1>7, <1>8, <1>9, <1>10 DEF IInv

-----------------------------------------------------------------------------
(* idleTick, and the application.                                          *)

\* The state for the packet at the front: the sink never sends what it would
\* have to wait for its rely to answer.
LEMMA StateForOk ==
  ASSUME NEW n \in Node, NEW p, IsPacket(p), p.source = n
  PROVE  /\ StateFor(n, p) \in {"BROADCAST", "SINK", "SUBTREE"}
         /\ n = Sink => StateFor(n, p) # "SINK"
<1>1. p.type \in Type
  BY DEF IsPacket
<1>2. CASE p.type \in {"DATA", "RT_ACK", "LEAVE"}
  <2>1. StateFor(n, p) = "SINK"
    BY <1>2 DEF StateFor
  <2> QED  BY <1>1, <1>2, <2>1 DEF IsPacket
<1>3. CASE p.type = "COMMAND"
  <2>1. StateFor(n, p) = "SUBTREE"
    BY <1>3 DEF StateFor
  <2> QED  BY <2>1
<1>4. CASE p.type \in {"CONNECTION_LOST", "RT_INIT"}
  <2>1. StateFor(n, p) = "BROADCAST"
    BY <1>4 DEF StateFor
  <2> QED  BY <2>1
<1>5. CASE p.type = "JOIN"
  <2>1. StateFor(n, p) = IF rt_formed[n] THEN "SINK" ELSE "BROADCAST"
    BY <1>5 DEF StateFor
  <2> QED  BY <1>1, <1>5, <2>1 DEF IsPacket
<1> QED  BY <1>1, <1>2, <1>3, <1>4, <1>5 DEF Type

LEMMA DispatchOk ==
  ASSUME IInv, Grows, NEW n \in Node, NEW q \in Seq(From(n)'),
         NEW fired \in Seq(EventsOf(n)'),
         Dispatch(n, q, fired), UNCHANGED sending_to
  PROVE  Queues' /\ Buses' /\ SendInv'
<1> DEFINE goes == send_state[n] = "READY" /\ q # <<>>
<1>1. /\ send_state' = [send_state EXCEPT ![n] = IF goes THEN StateFor(n, Head(q)) ELSE @]
      /\ outBufferPackets' = [outBufferPackets EXCEPT ![n] = q]
      /\ Fire(n, fired \o IF goes THEN <<Event("ready")>> ELSE <<>>)
  BY DEF Dispatch
<1>2. goes \in BOOLEAN /\ (goes => q # <<>>)
  OBVIOUS
<1> HIDE DEF goes
<1>3. goes => /\ StateFor(n, Head(q)) \in {"BROADCAST", "SINK", "SUBTREE"}
              /\ n = Sink => StateFor(n, Head(q)) # "SINK"
  <2>1. ASSUME goes PROVE IsPacket(Head(q)) /\ Head(q).source = n
    <3>1. Head(q) \in From(n)'
      BY <1>2, <2>1, TailIsSeq
    <3> QED  BY <3>1 DEF From, Stamped
  <2> QED  BY <2>1, StateForOk
<1>4. SendInv'
  BY <1>1, <1>2, <1>3 DEF IInv, SendInv
<1>5. Queues'
  <2>1. \A k \in Node : outBufferPackets[k] \in Seq(From(k)')
    <3> SUFFICES ASSUME NEW k \in Node PROVE outBufferPackets[k] \in Seq(From(k)')
      OBVIOUS
    <3>1. From(k) \subseteq From(k)'
      BY DEF From, Grows
    <3> QED  BY <3>1, SeqMonotonic DEF Queues, IInv
  <2> QED  BY <1>1, <2>1 DEF Queues, IInv
<1>6. Buses'
  <2>1. Event("ready") \in EventsOf(n)'
    BY SinkEvent DEF Grows
  <2>2. <<Event("ready")>> \in Seq(EventsOf(n)') /\ <<>> \in Seq(EventsOf(n)')
    BY <2>1, EmptyIsSeq
  <2>3. \A r \in Seq(EventsOf(n)') : fired \o r \in Seq(EventsOf(n)')
    BY ConcatIsSeq
  <2>4. CASE goes
    BY <1>1, <2>2, <2>3, <2>4, FireOk DEF IInv
  <2>5. CASE ~goes
    BY <1>1, <2>2, <2>3, <2>5, FireOk DEF IInv
  <2> QED  BY <1>2, <2>4, <2>5
<1> QED  BY <1>4, <1>5, <1>6

LEMMA NodeIdleTickStep ==
  ASSUME IInv, NEW n \in Node, NodeIdleTick(n)
  PROVE  IInv'
<1>1. PICK elapsed \in BOOLEAN :
        /\ Dispatch(n, outBufferPackets[n] \o IF elapsed THEN <<Join(n, n)>> ELSE <<>>, <<>>)
        /\ used' = IF elapsed THEN [used EXCEPT !.join[n] = @ + 1] ELSE used
  BY DEF NodeIdleTick
<1>2. /\ n \in Plant
      /\ UNCHANGED <<treeVars, sending_to, appVars, sinkVars, mac>>
  BY DEF NodeIdleTick, Plant
<1>3. Grows /\ TreeInv' /\ CounterInv' /\ Climbs'
  BY <1>2, TreeFrame DEF sinkVars
<1>4. Queues' /\ Buses' /\ SendInv'
  <2>1. rely[n] \in Node \cup {Broadcast} /\ stored' \in Nat
    BY <1>2, <1>3 DEF IInv, TreeInv, CounterInv, Plant
  <2>2. Join(n, n) \in From(n)'
    BY <1>2, <2>1, JoinOk DEF Plant
  <2>3. outBufferPackets[n] \in Seq(From(n)')
    <3>1. From(n) \subseteq From(n)'
      BY <1>3 DEF From, Grows
    <3> QED  BY <3>1, SeqMonotonic DEF Queues, IInv
  <2>4. <<Join(n, n)>> \in Seq(From(n)') /\ <<>> \in Seq(From(n)')
    BY <2>2, EmptyIsSeq
  <2>5. outBufferPackets[n] \o (IF elapsed THEN <<Join(n, n)>> ELSE <<>>) \in Seq(From(n)')
    BY <2>3, <2>4, ConcatIsSeq
  <2>6. <<>> \in Seq(EventsOf(n)')
    BY EmptyIsSeq
  <2> QED  BY <1>1, <1>2, <1>3, <2>5, <2>6, DispatchOk
<1>5. Messages' /\ NodesInv' /\ SerialInv' /\ HostInv'
  BY <1>2, <1>3, MessagesKept, NodesFrame, SinkFrame DEF appVars, sinkVars, IInv, SerialInv
<1>6. UsedInv'
  <2>1. UsedInv
    BY DEF IInv
  <2> QED  BY <1>1, <2>1, CountOne DEF UsedInv, Plant
<1> QED  BY <1>3, <1>4, <1>5, <1>6 DEF IInv

LEMMA SinkIdleTickStep ==
  ASSUME IInv, SinkIdleTick
  PROVE  IInv'
<1>1. PICK elapsed \in BOOLEAN :
        /\ Dispatch(Sink, outBufferPackets[Sink], IF elapsed THEN <<Event("incr")>> ELSE <<>>)
        /\ fast_rt_init' = IF elapsed THEN FALSE ELSE fast_rt_init
  BY DEF SinkIdleTick
<1>2. /\ serial.up
      /\ UNCHANGED <<treeVars, sending_to, appVars, serial, stored, host, caller, mac, used>>
  BY DEF SinkIdleTick
<1>3. Grows /\ TreeInv' /\ CounterInv' /\ Climbs'
  BY <1>2, TreeFrame
<1>4. Queues' /\ Buses' /\ SendInv'
  <2>1. outBufferPackets[Sink] \in Seq(From(Sink)')
    <3>1. From(Sink) \subseteq From(Sink)'
      BY <1>3 DEF From, Grows
    <3> QED  BY <3>1, SeqMonotonic, NodeAssumption DEF Queues, IInv
  <2>2. Event("incr") \in EventsOf(Sink)'
    BY <1>2, <1>3, SinkEvent, NodeAssumption DEF Grows
  <2>3. (IF elapsed THEN <<Event("incr")>> ELSE <<>>) \in Seq(EventsOf(Sink)')
    BY <2>2, EmptyIsSeq
  <2> QED  BY <1>1, <1>2, <1>3, <2>1, <2>3, DispatchOk, NodeAssumption
<1>5. fast_rt_init' \in BOOLEAN
  BY <1>1 DEF IInv, SerialInv
<1>6. Messages' /\ NodesInv' /\ SerialInv' /\ HostInv' /\ UsedInv'
  BY <1>2, <1>3, <1>5, MessagesKept, NodesFrame, SinkFrame, UsedFrame DEF appVars, IInv
<1> QED  BY <1>3, <1>4, <1>6 DEF IInv

LEMMA SendStep ==
  ASSUME IInv, NEW n \in Node, Send(n)
  PROVE  IInv'
<1>1. /\ n \in Plant /\ rt_formed[n]
      /\ Enqueue(n, <<Data(n, n, used.data[n] + 1)>>)
      /\ used' = [used EXCEPT !.data[n] = @ + 1]
      /\ UNCHANGED <<treeVars, send_state, sending_to, appVars, sinkVars, bus, mac>>
  BY DEF Send, Plant
<1>2. Grows /\ TreeInv' /\ CounterInv' /\ Climbs'
  BY <1>1, TreeFrame DEF sinkVars
<1>3. Queues'
  <2>1. UsedInv /\ TreeInv
    BY DEF IInv
  <2>2. rely[n] \in Node /\ stored' \in Nat
    BY <1>1, <1>2, <2>1 DEF TreeInv, CounterInv
  <2>3. used.data[n] + 1 \in Nat
    <3>1. used.data[n] \in Nat
      BY <2>1, CountOne DEF UsedInv
    <3> QED  BY <3>1
  <2>4. Data(n, n, used.data[n] + 1) \in From(n)'
    BY <1>1, <2>2, <2>3, DataOk DEF Plant
  <2> QED  BY <1>1, <1>2, <2>4, EnqueueOneOk DEF Plant
<1>4. UsedInv'
  <2>1. UsedInv
    BY DEF IInv
  <2> QED  BY <1>1, <2>1, CountOne DEF UsedInv, Plant
<1>5. Buses' /\ Messages' /\ SendInv' /\ NodesInv'
  BY <1>1, <1>2, BusesKept, MessagesKept, SendFrame, NodesFrame DEF appVars, IInv
<1>6. SerialInv' /\ HostInv'
  BY <1>1, SinkFrame DEF sinkVars, IInv, SerialInv
<1> QED  BY <1>2, <1>3, <1>4, <1>5, <1>6 DEF IInv

\* Steps that change nothing the invariant is about.
LEMMA QuietStep ==
  ASSUME IInv, UNCHANGED <<treeVars, sendVars, stored, serial, host, fast_rt_init, bus, mac, used>>,
         NodesInv'
  PROVE  IInv'
<1>1. Grows /\ TreeInv' /\ CounterInv' /\ Climbs'
  BY TreeFrame
<1>2. Queues' /\ Buses' /\ Messages'
  BY <1>1, QueuesKept, BusesKept, MessagesKept DEF sendVars, IInv
<1>3. SendInv' /\ SerialInv' /\ HostInv' /\ UsedInv'
  BY SendFrame, SinkFrame, UsedFrame DEF sendVars, IInv, SerialInv
<1> QED  BY <1>1, <1>2, <1>3 DEF IInv

LEMMA RecvConnectionStep ==
  ASSUME IInv, NEW n \in Node, RecvConnection(n)
  PROVE  IInv'
<1>1. /\ inBufferNodes[n] # <<>>
      /\ inBufferNodes' = [inBufferNodes EXCEPT ![n] = Tail(@)]
      /\ UNCHANGED <<treeVars, sendVars, inBufferPackets, sinkVars, bus, mac, used>>
  BY DEF RecvConnection
<1>2. Tail(inBufferNodes[n]) \in Seq(Connection)
  BY <1>1, TailIsSeq DEF IInv, NodesInv
<1>3. NodesInv'
  BY <1>1, <1>2 DEF IInv, NodesInv
<1> QED  BY <1>1, <1>3, QuietStep DEF sinkVars

LEMMA OtherSteps ==
  ASSUME IInv, \/ \E n \in Node : Recv(n)
               \/ \E f \in Caller : SinkSendReturns(f)
               \/ UNCHANGED vars
  PROVE  IInv'
<1>1. CASE \E n \in Node : Recv(n)
  BY <1>1, NodesFrame, QuietStep DEF Recv, sinkVars
<1>2. CASE \E f \in Caller : SinkSendReturns(f)
  BY <1>2, NodesFrame, QuietStep DEF SinkSendReturns, appVars
<1>3. CASE UNCHANGED vars
  BY <1>3, NodesFrame, QuietStep DEF vars, sinkVars, appVars
<1> QED  BY <1>1, <1>2, <1>3

\* A node that loses power forgets its packets. No other node took it as its
\* rely from what it still has to say: it is the sink, or nothing is promised.
LEMMA RestartStep ==
  ASSUME IInv, NEW n \in Node, Restart(n)
  PROVE  IInv'
<1>1. /\ used.restart[n] < MaxRestart[n] /\ used' = [used EXCEPT !.restart[n] = @ + 1]
      /\ broadcast_counter' = [broadcast_counter EXCEPT ![n] = 0]
      /\ rt_formed' = [rt_formed EXCEPT ![n] = FALSE]
      /\ rely' = [rely EXCEPT ![n] = Broadcast]
      /\ depth' = [depth EXCEPT ![n] = 0]
      /\ send_state' = [send_state EXCEPT ![n] = "READY"]
      /\ sending_to' = [sending_to EXCEPT ![n] = Broadcast]
      /\ outBufferPackets' = [outBufferPackets EXCEPT ![n] = <<>>]
      /\ inBufferNodes' = [inBufferNodes EXCEPT ![n] = <<>>]
      /\ bus' = [bus EXCEPT ![n] = <<>>]
      /\ stored' = stored
  BY DEF Restart
<1>2. \/ /\ n = Sink /\ fast_rt_init' = FALSE /\ serial' = NoSerial
         /\ \E k \in 0 .. Len(host.to) : host' = [host EXCEPT !.to = SubSeq(@, 1, k)]
      \/ n # Sink /\ UNCHANGED <<fast_rt_init, serial, host>>
  BY DEF Restart
<1>3. UsedInv' /\ (OnlySinkRestarts => n = Sink)
  <2>1. UsedInv
    BY DEF IInv
  <2>2. UsedInv'
    BY <1>1, <2>1, CountOne DEF UsedInv
  <2>3. used.restart[n] \in Nat
    BY <2>1, CountOne DEF UsedInv
  <2>4. OnlySinkRestarts => n = Sink
    <3>1. used.restart[n] < MaxRestart[n]
      BY <1>1
    <3> QED  BY <2>3, <3>1 DEF OnlySinkRestarts, Plant
  <2> QED  BY <2>2, <2>4
<1>4. Stamped \subseteq Stamped'
  <2> SUFFICES ASSUME NEW q \in Stamped PROVE q \in Stamped'
    OBVIOUS
  <2>1. OnlySinkRestarts /\ q.source # Sink =>
          (HeardFrom(q.source, q.counter, q.depth)' <=>
           HeardFrom(q.source, q.counter, q.depth))
    BY <1>1, <1>3, StampedFields DEF HeardFrom, IInv, TreeInv
  <2> QED  BY <1>1, <2>1 DEF Stamped
<1>5. TreeInv'
  BY <1>1 DEF IInv, TreeInv
<1>6. CounterInv'
  BY <1>1, <1>2 DEF IInv, CounterInv, TreeInv, NoSerial
<1>7. Climbs'
  <2> SUFFICES ASSUME OnlySinkRestarts, NEW k \in Plant, rely'[k] \in Plant
               PROVE  \/ broadcast_counter'[k] < broadcast_counter'[rely'[k]]
                      \/ /\ broadcast_counter'[k] = broadcast_counter'[rely'[k]]
                         /\ depth'[rely'[k]] < depth'[k]
    BY DEF Climbs, OnlySinkRestarts, Plant
  <2>1. n = Sink /\ k # n
    BY <1>3 DEF Plant
  <2>2. rely'[k] = rely[k] /\ rely[k] \in Plant /\ rely[k] # n
    BY <1>1, <2>1 DEF IInv, TreeInv, Plant
  <2> QED  BY <1>1, <2>1, <2>2 DEF IInv, TreeInv, Climbs, Plant
<1>8. Queues'
  <2>1. \A k \in Node : outBufferPackets[k] \in Seq(From(k)')
    <3> SUFFICES ASSUME NEW k \in Node PROVE outBufferPackets[k] \in Seq(From(k)')
      OBVIOUS
    <3>1. From(k) \subseteq From(k)'
      BY <1>4 DEF From
    <3> QED  BY <3>1, SeqMonotonic DEF Queues, IInv
  <2>2. <<>> \in Seq(From(n)')
    BY EmptyIsSeq
  <2> QED  BY <1>1, <2>1, <2>2 DEF Queues, IInv
<1>9. Buses'
  <2>1. \A k \in Node \ {n} : bus[k] \in Seq(EventsOf(k)')
    <3> SUFFICES ASSUME NEW k \in Node, k # n PROVE bus[k] \in Seq(EventsOf(k)')
      OBVIOUS
    <3>1. k = Sink => serial' = serial
      BY <1>2
    <3>2. EventsOf(k) \subseteq EventsOf(k)'
      BY <1>4, <3>1 DEF EventsOf
    <3> QED  BY <3>2, SeqMonotonic DEF Buses, IInv
  <2>2. <<>> \in Seq(EventsOf(n)')
    BY EmptyIsSeq
  <2> QED  BY <1>1, <2>1, <2>2 DEF Buses, IInv
<1>10. Messages'
  <2> DEFINE silent == [i \in DOMAIN mac[n] |-> Unanswered(mac[n][i])]
  <2>1. \A i \in DOMAIN mac[n] : mac[n][i] \in Message
    BY InMac
  <2>2. \A i \in DOMAIN mac[n] : Unanswered(mac[n][i]) \in Message
    BY <2>1, UnansweredOk
  <2>3. DOMAIN mac[n] = 1 .. Len(mac[n]) /\ Len(mac[n]) \in Nat
    BY LenProperties DEF IInv, Messages
  <2>4. silent \in Seq(Message)
    <3>1. silent \in [1 .. Len(mac[n]) -> Message]
      BY <2>2, <2>3
    <3> HIDE DEF silent
    <3>2. PICK k \in Nat : k = Len(mac[n])
      BY <2>3
    <3> QED  BY <3>1, <3>2, SeqDef
  <2>5. mac' \in [Node -> Seq(Message)]
    <3>1. mac' = [mac EXCEPT ![n] = silent]
      BY DEF Restart
    <3> HIDE DEF silent
    <3> QED  BY <2>4, <3>1 DEF IInv, Messages
  <2>6. Message \subseteq Message'
    BY <1>4 DEF Message
  <2> QED  BY <2>5, <2>6, SeqMonotonic DEF Messages
<1>11. SendInv'
  BY <1>1 DEF IInv, SendInv
<1>12. NodesInv'
  <2>1. <<>> \in Seq(Connection)
    BY EmptyIsSeq
  <2> QED  BY <1>1, <2>1 DEF IInv, NodesInv
<1>13. SerialInv' /\ HostInv'
  <2>1. CASE /\ fast_rt_init' = FALSE /\ serial' = NoSerial
             /\ \E k \in 0 .. Len(host.to) : host' = [host EXCEPT !.to = SubSeq(@, 1, k)]
    <3>1. <<>> \in Seq(Node) /\ <<>> \in Seq(ToHost)
      BY EmptyIsSeq
    <3>2. EmptyAnswer \in FromHost
      BY <3>1 DEF EmptyAnswer, FromHost
    <3>3. SerialInv'
      BY <2>1, <3>1, <3>2 DEF SerialInv, NoSerial
    <3>4. \A k \in 0 .. Len(host.to) : SubSeq(host.to, 1, k) \in Seq(ToHost)
      BY SubSeqIsSeq DEF IInv, HostInv
    <3>5. HostInv'
      BY <2>1, <3>4 DEF IInv, HostInv
    <3> QED  BY <3>3, <3>5
  <2>2. CASE UNCHANGED <<fast_rt_init, serial, host>>
    BY <2>2, SinkFrame DEF IInv, SerialInv
  <2> QED  BY <1>2, <2>1, <2>2
<1> QED  BY <1>3, <1>5, <1>6, <1>7, <1>8, <1>9, <1>10, <1>11, <1>12, <1>13 DEF IInv

-----------------------------------------------------------------------------
(* The theorems.                                                           *)

LEMMA InitOk == Init => IInv
<1> SUFFICES ASSUME Init PROVE IInv
  OBVIOUS
<1>1. TreeInv /\ CounterInv /\ Climbs
  BY NodeAssumption DEF Init, TreeInv, CounterInv, Climbs, Plant, NoSerial
<1>2. Queues
  <2>1. \A n \in Node : <<>> \in Seq(From(n))
    BY EmptyIsSeq
  <2> QED  BY <2>1 DEF Init, Queues
<1>3. Buses
  <2>1. \A n \in Node : <<>> \in Seq(EventsOf(n))
    BY EmptyIsSeq
  <2> QED  BY <2>1 DEF Init, Buses
<1>4. Messages /\ NodesInv
  <2>1. <<>> \in Seq(Message) /\ <<>> \in Seq(Connection)
    BY EmptyIsSeq
  <2> QED  BY <2>1 DEF Init, Messages, NodesInv
<1>5. SendInv
  BY NodeAssumption DEF Init, SendInv
<1>6. SerialInv /\ HostInv
  <2>1. <<>> \in Seq(Node) /\ <<>> \in Seq(ToHost)
    BY EmptyIsSeq
  <2>2. EmptyAnswer \in FromHost
    BY <2>1 DEF EmptyAnswer, FromHost
  <2> QED  BY <2>1, <2>2 DEF Init, SerialInv, HostInv, NoSerial
<1>7. UsedInv
  BY DEF Init, UsedInv, Counts
<1> QED  BY <1>1, <1>2, <1>3, <1>4, <1>5, <1>6, <1>7 DEF IInv

LEMMA BusStepOk ==
  ASSUME IInv, NEW n \in Node, BusStep(n)
  PROVE  IInv'
<1>1. CASE SendToMac(n)
  BY <1>1, SendToMacStep
<1>2. CASE PacketSent(n) \/ PacketTimeout(n)
  BY <1>2, PacketSentStep, PacketTimeoutStep
<1>3. CASE RecvIgnored(n) \/ RecvRtInit(n) \/ RecvData(n) \/ RecvCommand(n) \/ RecvRtAck(n)
  BY <1>3, RecvIgnoredStep, RecvRtInitStep, RecvDataStep, RecvCommandStep, RecvRtAckStep
<1>4. CASE RecvJoin(n) \/ RecvLeave(n) \/ RecvConnectionLost(n)
  BY <1>4, RecvJoinStep, RecvLeaveStep, RecvConnectionLostStep
<1> QED  BY <1>1, <1>2, <1>3, <1>4 DEF BusStep

LEMMA NextOk == IInv /\ [Next]_vars => IInv'
<1> SUFFICES ASSUME IInv, [Next]_vars PROVE IInv'
  OBVIOUS
<1>1. CASE \E n \in Node : \/ BusStep(n) \/ MacStep(n)
                           \/ Send(n) \/ Recv(n) \/ RecvConnection(n) \/ Restart(n)
  <2>1. PICK n \in Node : \/ BusStep(n) \/ MacStep(n)
                          \/ Send(n) \/ Recv(n) \/ RecvConnection(n) \/ Restart(n)
    BY <1>1
  <2>2. CASE BusStep(n)
    BY <2>2, BusStepOk
  <2>3. CASE MacStep(n)
    BY <2>3, MacDeliverStep, MacRepeatStep, MacSentStep, MacTimeoutStep DEF MacStep
  <2>4. CASE Send(n) \/ Recv(n)
    BY <2>4, SendStep, OtherSteps
  <2>5. CASE RecvConnection(n) \/ Restart(n)
    BY <2>5, RecvConnectionStep, RestartStep
  <2> QED  BY <2>1, <2>2, <2>3, <2>4, <2>5
<1>2. CASE SinkBusStep
  BY <1>2, IncrBroadcastCounterStep, SendToSerialStep, RecvInitStep, RecvAnswerStep,
     SinkSendStep DEF SinkBusStep
<1>3. CASE IdleStep
  BY <1>3, SerialIdleTickStep, SinkIdleTickStep, NodeIdleTickStep DEF IdleStep
<1>4. CASE HostAnswer \/ HostStart \/ Boot \/ Request
  BY <1>4, HostAnswerStep, HostStartStep, BootStep, RequestStep
<1>5. CASE (\E f \in Caller : SinkSendReturns(f)) \/ UNCHANGED vars
  BY <1>5, OtherSteps
<1> QED  BY <1>1, <1>2, <1>3, <1>4, <1>5 DEF Next

\* The invariant holds whatever the radio, the host and the applications do.
THEOREM Invariance == Spec => []IInv
  BY InitOk, NextOk, PTL DEF Spec

\* What a packet is, of those that are queued, sent or about to be handled.
LEMMA PacketIsStamped ==
  ASSUME IInv, NEW n \in Node
  PROVE  PacketsOf(n) \subseteq Stamped
<1>1. \A p \in Elements(outBufferPackets[n]) : p \in Stamped
  <2>1. outBufferPackets[n] \in Seq(From(n))
    BY DEF IInv, Queues
  <2> QED  BY <2>1, ElementOfSeq, LenProperties DEF Elements, From
<1>2. \A e \in Elements(mac[n]) : e.pkt \in Stamped /\ e.left \subseteq Node
  BY InMac DEF Elements, Message
<1>3. \A x \in Elements(bus[n]) : x \in EventsOf(n)
  <2>1. bus[n] \in Seq(EventsOf(n))
    BY DEF IInv, Buses
  <2> QED  BY <2>1, ElementOfSeq, LenProperties DEF Elements
<1>4. \A x \in Elements(bus[n]) : x.ev = "recv" => x.pkt \in Stamped
  BY <1>3 DEF EventsOf
<1> QED  BY <1>1, <1>2, <1>4 DEF PacketsOf

\* The types of the variables, the packets each kind of node makes and the
\* events of each bus: a packet of the sink is an RT_INIT or a COMMAND, and no
\* other node addresses DATA, RT_ACK or COMMAND to everybody.
THEOREM TypeCorrect == Spec => []TypeOK
<1>1. IInv => TypeOK
  <2> SUFFICES ASSUME IInv PROVE TypeOK
    OBVIOUS
  <2>1. /\ {broadcast_counter, depth} \subseteq [Node -> Nat]
        /\ rt_formed \in [Node -> BOOLEAN]
        /\ {rely, sending_to} \subseteq [Node -> Node \cup {Broadcast}]
        /\ send_state \in [Node -> {"READY", "BROADCAST", "SINK", "SUBTREE"}]
        /\ fast_rt_init \in BOOLEAN /\ stored \in Nat
    BY DEF IInv, TreeInv, CounterInv, SendInv, SerialInv
  <2>2. serial.state \in {"READY", "GET", "PUT"}
    BY DEF IInv, SerialInv
  <2>3. ASSUME NEW n \in Node
        PROVE  /\ \A p \in Elements(outBufferPackets[n]) : IsPacket(p)
               /\ \A m \in Elements(mac[n]) : IsPacket(m.pkt) /\ m.left \subseteq Node
    <3>1. \A p \in Elements(outBufferPackets[n]) : p \in Stamped
      BY PacketIsStamped DEF PacketsOf
    <3>2. \A m \in Elements(mac[n]) : m.pkt \in Stamped /\ m.left \subseteq Node
      BY InMac DEF Elements, Message
    <3> QED  BY <3>1, <3>2, StampedFields
  <2>4. ASSUME NEW n \in Node PROVE \A e \in Elements(bus[n]) : IsEvent(e)
    <3>1. bus[n] \in Seq(EventsOf(n))
      BY DEF IInv, Buses
    <3>2. \A e \in Elements(bus[n]) : e \in EventsOf(n)
      BY <3>1, ElementOfSeq, LenProperties DEF Elements
    <3> QED  BY <3>2, StampedFields DEF EventsOf, IsEvent
  <2>5. ASSUME NEW n \in Node
        PROVE  \A c \in Elements(inBufferNodes[n]) : c.address \in Node \cup {Broadcast}
    <3>1. inBufferNodes[n] \in Seq(Connection)
      BY DEF IInv, NodesInv
    <3>2. \A c \in Elements(inBufferNodes[n]) : c \in Connection
      BY <3>1, ElementOfSeq, LenProperties DEF Elements
    <3> QED  BY <3>2 DEF Connection
  <2> QED  BY <2>1, <2>2, <2>3, <2>4, <2>5 DEF TypeOK
<1> QED  BY <1>1, Invariance, PTL

\* Each wave is newer than everything any node has seen and any packet carries,
\* also after the sink and the host restarted any number of times: the counter
\* is stored before it is announced, and read before the sink counts again.
THEOREM WavesAreFresh == Spec => FreshWave
<1> DEFINE Fresh == IncrBroadcastCounter =>
      /\ \A n \in Node : broadcast_counter[n] < broadcast_counter'[Sink]
      /\ \A p \in Packets : p.counter < broadcast_counter'[Sink]
<1>1. IInv /\ [Next]_vars => [Fresh]_vars
  <2> SUFFICES ASSUME IInv, IncrBroadcastCounter PROVE Fresh
    OBVIOUS
  <2>1. /\ bus[Sink] # <<>> /\ Head(bus[Sink]).ev = "incr"
        /\ broadcast_counter' = [broadcast_counter EXCEPT ![Sink] = broadcast_counter[Sink] + 1]
    BY DEF IncrBroadcastCounter, At
  <2>2. broadcast_counter'[Sink] = stored + 1 /\ stored \in Nat
    BY <2>1, NodeAssumption, HeadEvent DEF IInv, CounterInv, TreeInv
  <2>3. \A n \in Node : broadcast_counter[n] < stored + 1
    BY <2>2 DEF IInv, CounterInv, TreeInv
  <2>4. \A p \in Packets : p.counter < stored + 1
    <3> SUFFICES ASSUME NEW p \in Packets PROVE p.counter < stored + 1
      OBVIOUS
    <3>1. p \in Stamped
      BY PacketIsStamped DEF Packets
    <3> QED  BY <2>2, <3>1, StampedFields
  <2> QED  BY <2>2, <2>3, <2>4
<1> QED  BY <1>1, Invariance, PTL DEF Spec, FreshWave

LEMMA SmallestNat ==
  ASSUME NEW T, T \subseteq Nat, T # {}
  PROVE  \E x \in T : \A y \in T : x <= y
<1>1. PICK x \in T : \A y \in T : ~ (<<y, x>> \in OpToRel(<, Nat))
  BY NatLessThanWellFounded, WFMin
<1>2. \A y \in T : ~ (y < x)
  BY <1>1 DEF OpToRel
<1> QED  BY <1>2

\* The node of S that is nearest to the sink has its rely outside S: of those
\* whose counter is the newest, the one with the least depth.
LEMMA ClimbsOut ==
  ASSUME OnlySinkRestarts, IInv
  PROVE  LoopFree
<1> SUFFICES ASSUME NEW S \in SUBSET (Node \ {Sink}), S # {}, \A n \in S : rely[n] \in S
             PROVE  FALSE
  BY DEF LoopFree
<1>1. /\ stored \in Nat
      /\ \A n \in S : /\ broadcast_counter[n] \in Nat /\ broadcast_counter[n] <= stored
                      /\ depth[n] \in Nat
  BY DEF IInv, TreeInv, CounterInv
<1>2. PICK a \in S : \A n \in S : broadcast_counter[n] <= broadcast_counter[a]
  <2> DEFINE T == {stored - broadcast_counter[n] : n \in S}
  <2>1. T \subseteq Nat /\ T # {}
    BY <1>1
  <2>2. PICK x \in T : \A y \in T : x <= y
    BY <2>1, SmallestNat
  <2>3. PICK a \in S : x = stored - broadcast_counter[a]
    OBVIOUS
  <2>4. \A n \in S : x <= stored - broadcast_counter[n]
    BY <2>2
  <2> QED  BY <1>1, <2>3, <2>4
<1> DEFINE Newest == {n \in S : broadcast_counter[n] = broadcast_counter[a]}
<1>3. PICK b \in Newest : \A n \in Newest : depth[b] <= depth[n]
  <2> DEFINE T == {depth[n] : n \in Newest}
  <2>1. T \subseteq Nat /\ T # {}
    BY <1>1, <1>2
  <2>2. PICK x \in T : \A y \in T : x <= y
    BY <2>1, SmallestNat
  <2> QED  BY <2>2
<1>4. b \in Plant /\ rely[b] \in S /\ rely[b] \in Plant
  BY DEF Plant
<1>5. \/ broadcast_counter[b] < broadcast_counter[rely[b]]
      \/ /\ broadcast_counter[b] = broadcast_counter[rely[b]]
         /\ depth[rely[b]] < depth[b]
  BY <1>4 DEF IInv, Climbs
<1> QED  BY <1>1, <1>2, <1>3, <1>4, <1>5

\* The relies form no cycle, for any number of nodes and any radio links,
\* whatever is lost, repeated or late, as long as no node but the sink restarts.
THEOREM RelyTree == OnlySinkRestarts => (Spec => []LoopFree)
<1> SUFFICES ASSUME OnlySinkRestarts PROVE Spec => []LoopFree
  OBVIOUS
<1>1. IInv => LoopFree
  BY ClimbsOut
<1> QED  BY <1>1, Invariance, PTL

-----------------------------------------------------------------------------
(* What is queued for a rely that was lost.                                *)

\* Packets a node may have queued although it has no rely.
NeedsNoRely(p) == p.type \in {"COMMAND", "LEAVE"} \/ p.forward = Broadcast

LEMMA ElementsConcat ==
  ASSUME NEW S, NEW q \in Seq(S), NEW r \in Seq(S)
  PROVE  Elements(q \o r) \subseteq Elements(q) \cup Elements(r)
<1>1. /\ Len(q) \in Nat /\ Len(r) \in Nat
      /\ DOMAIN q = 1 .. Len(q) /\ DOMAIN r = 1 .. Len(r)
  BY LenProperties
<1>2. /\ Len(q \o r) = Len(q) + Len(r)
      /\ \A i \in 1 .. Len(q) + Len(r) :
           (q \o r)[i] = IF i <= Len(q) THEN q[i] ELSE r[i - Len(q)]
  BY ConcatProperties
<1>3. DOMAIN (q \o r) = 1 .. Len(q) + Len(r)
  BY <1>2, ConcatIsSeq, LenProperties
<1> SUFFICES ASSUME NEW i \in 1 .. Len(q) + Len(r)
             PROVE  (q \o r)[i] \in Elements(q) \cup Elements(r)
  BY <1>3 DEF Elements
<1>4. CASE i <= Len(q)
  BY <1>1, <1>2, <1>4 DEF Elements
<1>5. CASE i > Len(q)
  <2>1. i - Len(q) \in DOMAIN r /\ (q \o r)[i] = r[i - Len(q)]
    BY <1>1, <1>2, <1>5
  <2> QED  BY <2>1 DEF Elements
<1> QED  BY <1>1, <1>4, <1>5

LEMMA ElementsTail ==
  ASSUME NEW S, NEW q \in Seq(S), q # <<>>
  PROVE  Elements(Tail(q)) \subseteq Elements(q)
<1>1. /\ Len(q) \in Nat \ {0} /\ DOMAIN q = 1 .. Len(q)
  BY LenProperties, EmptySeq
<1>2. /\ DOMAIN Tail(q) = 1 .. Len(q) - 1
      /\ \A i \in 1 .. Len(q) - 1 : Tail(q)[i] = q[i + 1]
  <2>1. Tail(q) \in Seq(S) /\ Len(Tail(q)) = Len(q) - 1
    BY HeadTailProperties
  <2>2. \A i \in 1 .. Len(Tail(q)) : Tail(q)[i] = q[i + 1]
    BY HeadTailProperties
  <2> QED  BY <2>1, <2>2, LenProperties
<1> QED  BY <1>1, <1>2 DEF Elements

\* One packet is queued that needs no rely, or there is one.
LEMMA EnqueueNoLost ==
  ASSUME IInv, NothingForLostRely, UNCHANGED rt_formed, NEW n \in Node, NEW p, Enqueue(n, <<p>>),
         n = Sink \/ rt_formed[n] \/ NeedsNoRely(p)
  PROVE  NothingForLostRely'
<1> DEFINE S == From(n) \cup {p}
<1>1. outBufferPackets[n] \in Seq(S) /\ <<p>> \in Seq(S)
  <2>1. outBufferPackets[n] \in Seq(From(n)) /\ From(n) \subseteq S
    BY DEF IInv, Queues
  <2>2. p \in S
    OBVIOUS
  <2> HIDE DEF S
  <2> QED  BY <2>1, <2>2, SeqMonotonic
<1>2. Elements(outBufferPackets[n] \o <<p>>) \subseteq Elements(outBufferPackets[n]) \cup {p}
  <2>1. Elements(<<p>>) = {p}
    BY DEF Elements
  <2> HIDE DEF S
  <2> QED  BY <1>1, <2>1, ElementsConcat
<1>3. outBufferPackets' = [outBufferPackets EXCEPT ![n] = @ \o <<p>>]
  BY DEF Enqueue
<1> QED  BY <1>2, <1>3 DEF NothingForLostRely, NeedsNoRely, IInv, Queues

\* The queues of the nodes that have no rely afterwards did not grow.
LEMMA KeepsNoLost ==
  ASSUME IInv, NothingForLostRely,
         \A n \in Plant : ~rt_formed'[n] =>
           \/ ~rt_formed[n] /\ Elements(outBufferPackets'[n]) \subseteq Elements(outBufferPackets[n])
           \/ \A p \in Elements(outBufferPackets'[n]) : NeedsNoRely(p)
  PROVE  NothingForLostRely'
  BY DEF NothingForLostRely, NeedsNoRely, Plant

LEMMA RtDisconnectNoLost ==
  ASSUME IInv, NothingForLostRely, NEW n \in Node, RtDisconnect(n)
  PROVE  NothingForLostRely'
<1>1. /\ rt_formed' = [rt_formed EXCEPT ![n] = FALSE]
      /\ outBufferPackets' = [outBufferPackets EXCEPT ![n] = <<ConnectionLost(n)>>]
  BY DEF RtDisconnect
<1>2. \A p \in Elements(<<ConnectionLost(n)>>) : NeedsNoRely(p)
  BY DEF Elements, ConnectionLost, Packet, NeedsNoRely
<1> QED  BY <1>1, <1>2, KeepsNoLost DEF IInv, TreeInv, Queues, Plant

LEMMA BusStepNoLost ==
  ASSUME IInv, NothingForLostRely, NEW n \in Node, BusStep(n)
  PROVE  NothingForLostRely'
<1>1. CASE SendToMac(n)
  <2>1. /\ outBufferPackets[n] # <<>> /\ UNCHANGED rt_formed
        /\ outBufferPackets' = [outBufferPackets EXCEPT ![n] = Tail(@)]
    BY <1>1 DEF SendToMac, treeVars
  <2>2. Elements(Tail(outBufferPackets[n])) \subseteq Elements(outBufferPackets[n])
    BY <2>1, ElementsTail DEF IInv, Queues
  <2> QED  BY <2>1, <2>2, KeepsNoLost DEF IInv, Queues, Plant
<1>2. CASE PacketSent(n) \/ RecvIgnored(n)
  BY <1>2, KeepsNoLost DEF PacketSent, RecvIgnored, treeVars, sendVars
<1>3. CASE PacketTimeout(n)
  <2>1. \/ RtDisconnect(n)
        \/ SendLeave(n)
        \/ UNCHANGED <<treeVars, outBufferPackets>>
    BY <1>3 DEF PacketTimeout
  <2>2. CASE SendLeave(n)
    <3>1. UNCHANGED rt_formed
      BY <2>2 DEF SendLeave, treeVars
    <3>2. NeedsNoRely(Leave(n, sending_to[n], broadcast_counter[n], n))
      BY DEF NeedsNoRely, Leave, Packet
    <3>3. \/ UNCHANGED outBufferPackets
          \/ Enqueue(n, <<Leave(n, sending_to[n], broadcast_counter[n], n)>>)
      BY <2>2 DEF SendLeave
    <3> QED  BY <3>1, <3>2, <3>3, EnqueueNoLost, KeepsNoLost
  <2> QED  BY <2>1, <2>2, RtDisconnectNoLost, KeepsNoLost DEF treeVars
<1>4. CASE RecvRtInit(n)
  <2> DEFINE r == <<RtAck(n, Received(n).source, Received(n).counter, <<n>>, n),
                    RtInit(n, Received(n).counter, Received(n).depth + 1)>>
  <2>1. rt_formed' = [rt_formed EXCEPT ![n] = TRUE] /\ Enqueue(n, r)
    BY <1>4 DEF RecvRtInit
  <2> HIDE DEF r
  <2>2. \A k \in Plant : ~rt_formed'[k] => /\ ~rt_formed[k]
                                          /\ outBufferPackets'[k] = outBufferPackets[k]
    BY <2>1 DEF Enqueue, IInv, TreeInv, Queues, Plant
  <2> QED  BY <2>2, KeepsNoLost
<1>5. CASE RecvData(n) \/ RecvRtAck(n) \/ RecvLeave(n) \/ RecvJoin(n)
  <2>1. n = Sink \/ rt_formed[n]
    <3>1. PICK type \in {"DATA", "RT_ACK", "LEAVE", "JOIN"} : Accepted(n, type)
      BY <1>5 DEF RecvData, RecvRtAck, RelayRtAck, RecvLeave, RecvJoin
    <3>2. Received(n).type = type /\ Accepts(n, Received(n))
      BY <3>1, AcceptedPacket
    <3>3. CASE type \in {"DATA", "LEAVE"}
      BY <3>2, <3>3 DEF Accepts, AcceptsUp
    <3>4. CASE type = "RT_ACK"
      BY <3>2, <3>4 DEF Accepts, AcceptsRtAck, AcceptsUp
    <3>5. CASE type = "JOIN"
      BY <3>2, <3>5 DEF Accepts, AcceptsJoin
    <3> QED  BY <3>3, <3>4, <3>5
  <2>2. UNCHANGED rt_formed /\ (UNCHANGED outBufferPackets \/ \E p : Enqueue(n, <<p>>))
    BY <1>5 DEF RecvData, RecvRtAck, RelayRtAck, RecvLeave, RecvJoin, treeVars
  <2> QED  BY <2>1, <2>2, EnqueueNoLost, KeepsNoLost
<1>6. CASE RecvCommand(n)
  <2> DEFINE p == Received(n)
             c == Command(n, p.route, p.body, p.origin)
  <2>1. UNCHANGED rt_formed /\ (UNCHANGED outBufferPackets \/ Enqueue(n, <<c>>))
    BY <1>6 DEF RecvCommand, treeVars
  <2>2. NeedsNoRely(c)
    BY DEF Command, Packet, NeedsNoRely
  <2> HIDE DEF c
  <2> QED  BY <2>1, <2>2, EnqueueNoLost, KeepsNoLost
<1>7. CASE RecvConnectionLost(n)
  BY <1>7, RtDisconnectNoLost DEF RecvConnectionLost
<1> QED  BY <1>1, <1>2, <1>3, <1>4, <1>5, <1>6, <1>7 DEF BusStep

\* The sink queues packets only for itself, and it is no plant.
LEMMA SinkNoLost ==
  ASSUME IInv, NothingForLostRely, UNCHANGED rt_formed,
         \A n \in Plant : outBufferPackets'[n] = outBufferPackets[n]
  PROVE  NothingForLostRely'
  BY KeepsNoLost

LEMMA SinkStepNoLost ==
  ASSUME IInv, NothingForLostRely, SinkBusStep \/ SinkIdleTick
  PROVE  NothingForLostRely'
<1>1. UNCHANGED rt_formed
  BY DEF SinkBusStep, SinkIdleTick, IncrBroadcastCounter, SendToSerial, RecvInit, RecvAnswer,
     SinkSend, treeVars
<1>2. CASE IncrBroadcastCounter
  <2>1. Enqueue(Sink, <<RtInit(Sink, broadcast_counter[Sink] + 1, 0)>>)
    BY <1>2 DEF IncrBroadcastCounter
  <2> QED  BY <1>1, <2>1, EnqueueNoLost, NodeAssumption
<1>3. CASE SendToSerial \/ RecvInit \/ \E f \in Caller : SinkSend(f)
  BY <1>1, <1>3, SinkNoLost DEF SendToSerial, RecvInit, SinkSend, sendVars
<1>4. CASE RecvAnswer
  <2>1. UNCHANGED outBufferPackets \/ \E r : Enqueue(Sink, r)
    <3>1. serial.state \in {"GET", "PUT", "READY"}
      BY DEF IInv, SerialInv
    <3> QED  BY <1>4, <3>1 DEF RecvAnswer
  <2> QED  BY <1>1, <2>1, SinkNoLost DEF Enqueue, Plant, IInv, Queues
<1>5. CASE SinkIdleTick
  BY <1>1, <1>5, SinkNoLost DEF SinkIdleTick, Dispatch
<1> QED  BY <1>2, <1>3, <1>4, <1>5 DEF SinkBusStep

LEMMA NodeStepNoLost ==
  ASSUME IInv, NothingForLostRely, NEW n \in Node, Send(n) \/ NodeIdleTick(n) \/ Restart(n)
  PROVE  NothingForLostRely'
<1>1. CASE Send(n)
  BY <1>1, EnqueueNoLost DEF Send, treeVars
<1>2. CASE NodeIdleTick(n)
  <2>1. PICK elapsed \in BOOLEAN :
          /\ elapsed => ~rt_formed[n]
          /\ Dispatch(n, outBufferPackets[n] \o IF elapsed THEN <<Join(n, n)>> ELSE <<>>, <<>>)
    BY <1>2 DEF NodeIdleTick
  <2>2. UNCHANGED rt_formed
    BY <1>2 DEF NodeIdleTick, treeVars
  <2>3. outBufferPackets' = [outBufferPackets EXCEPT ![n] =
          outBufferPackets[n] \o IF elapsed THEN <<Join(n, n)>> ELSE <<>>]
    BY <2>1 DEF Dispatch
  <2>4. CASE elapsed
    <3>1. NeedsNoRely(Join(n, n))
      BY <2>1, <2>4 DEF NeedsNoRely, Join, Packet
    <3>2. Enqueue(n, <<Join(n, n)>>)
      BY <2>3, <2>4 DEF Enqueue
    <3> QED  BY <2>2, <3>1, <3>2, EnqueueNoLost
  <2>5. CASE ~elapsed
    <3>1. outBufferPackets[n] \o <<>> = outBufferPackets[n]
      BY ConcatEmptySeq DEF IInv, Queues
    <3>2. \A k \in Node : outBufferPackets'[k] = outBufferPackets[k]
      BY <2>3, <2>5, <3>1 DEF IInv, Queues
    <3> QED  BY <2>2, <3>2, KeepsNoLost DEF Plant
  <2> QED  BY <2>4, <2>5
<1>3. CASE Restart(n)
  <2>1. /\ rt_formed' = [rt_formed EXCEPT ![n] = FALSE]
        /\ outBufferPackets' = [outBufferPackets EXCEPT ![n] = <<>>]
    BY <1>3 DEF Restart
  <2>2. Elements(<<>>) = {}
    BY DEF Elements
  <2> QED  BY <2>1, <2>2, KeepsNoLost DEF IInv, TreeInv, Queues, Plant
<1> QED  BY <1>1, <1>2, <1>3

\* The radio changes what is on the buses and in the MAC layers only.
LEMMA MacStepKeeps ==
  ASSUME NEW n \in Node, MacStep(n)
  PROVE  /\ UNCHANGED treeVars /\ UNCHANGED sendVars
         /\ UNCHANGED appVars /\ UNCHANGED sinkVars
<1>1. ASSUME MacDeliver(n)
      PROVE  UNCHANGED <<treeVars, sendVars, appVars, sinkVars>>
  BY <1>1 DEF MacDeliver
<1>2. ASSUME MacRepeat(n)
      PROVE  UNCHANGED <<treeVars, sendVars, appVars, sinkVars>>
  BY <1>2 DEF MacRepeat
<1>3. ASSUME MacSent(n)
      PROVE  UNCHANGED <<treeVars, sendVars, appVars, sinkVars>>
  BY <1>3 DEF MacSent
<1>4. ASSUME MacTimeout(n)
      PROVE  UNCHANGED <<treeVars, sendVars, appVars, sinkVars>>
  BY <1>4 DEF MacTimeout
<1> QED  BY <1>1, <1>2, <1>3, <1>4 DEF MacStep

\* A node that lost its rely keeps nothing that it would send to it, so that
\* nothing reaches a node that is no longer its rely out of turn, for any
\* topology and after any number of restarts.
THEOREM QueueWithoutRely == Spec => []NothingForLostRely
<1>1. Init => NothingForLostRely
  BY DEF Init, NothingForLostRely, Elements
<1>2. IInv /\ NothingForLostRely /\ [Next]_vars => NothingForLostRely'
  <2> SUFFICES ASSUME IInv, NothingForLostRely, [Next]_vars PROVE NothingForLostRely'
    OBVIOUS
  <2>1. CASE \E n \in Node : BusStep(n)
    BY <2>1, BusStepNoLost
  <2>2. CASE \E n \in Node : Send(n) \/ NodeIdleTick(n) \/ Restart(n)
    BY <2>2, NodeStepNoLost
  <2>3. CASE SinkBusStep \/ SinkIdleTick
    BY <2>3, SinkStepNoLost
  <2>4. CASE \E n \in Node : MacStep(n) \/ Recv(n) \/ RecvConnection(n)
    <3>1. UNCHANGED treeVars /\ UNCHANGED sendVars
      BY <2>4, MacStepKeeps DEF Recv, RecvConnection
    <3> QED  BY <3>1, KeepsNoLost DEF treeVars, sendVars
  <2>5. CASE SerialIdleTick \/ HostAnswer \/ HostStart \/ Boot \/ Request
    BY <2>5, KeepsNoLost DEF SerialIdleTick, HostAnswer, HostStart, Boot, Request, treeVars, sendVars
  <2>6. CASE (\E f \in Caller : SinkSendReturns(f)) \/ UNCHANGED vars
    BY <2>6, KeepsNoLost DEF SinkSendReturns, vars, treeVars, sendVars
  <2> QED  BY <2>1, <2>2, <2>3, <2>4, <2>5, <2>6 DEF Next, IdleStep
<1> QED  BY <1>1, <1>2, Invariance, PTL DEF Spec
=============================================================================
