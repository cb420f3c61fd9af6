----------------------- MODULE NetworkDeliveryProofs ------------------------
(***************************************************************************)
(* Theorems about where the packets of NetworkLayer go, for every value of *)
(* its constants: the routes RT_ACK gathers and the host stores, the       *)
(* commands that follow them, the queues the events are about, and the     *)
(* order payloads keep.                                                    *)
(***************************************************************************)
EXTENDS NetworkLayerProofs, FiniteSetTheorems

-----------------------------------------------------------------------------
(* Which packets a step makes.                                             *)

Queued(n) == Elements(outBufferPackets[n])
Aired(n) == {e.pkt : e \in Elements(mac[n])}
Heard(n) == {e.pkt : e \in {x \in Elements(bus[n]) : x.ev = "recv"}}

\* The packets of the queues are old ones or of F; those of the MAC layer, and
\* those that are about to be handled, are old ones.
QueuesFrom(F) == \A k \in Node : Queued(k)' \subseteq Packets \cup F
MacFromOld == \A k \in Node : Aired(k)' \subseteq Packets
BusFromOld == \A k \in Node : Heard(k)' \subseteq Packets

LEMMA PacketParts ==
  ASSUME NEW k \in Node
  PROVE  Queued(k) \subseteq Packets /\ Aired(k) \subseteq Packets /\ Heard(k) \subseteq Packets
<1>1. PacketsOf(k) = Queued(k) \cup Aired(k) \cup Heard(k)
  BY Zenon DEF PacketsOf, Queued, Aired, Heard
<1>2. PacketsOf(k) \subseteq Packets
  BY DEF Packets
<1> QED  BY <1>1, <1>2

LEMMA FromParts ==
  ASSUME NEW F, QueuesFrom(F), MacFromOld, BusFromOld
  PROVE  Packets' \subseteq Packets \cup F
<1>1. \A k \in Node : PacketsOf(k)' = Queued(k)' \cup Aired(k)' \cup Heard(k)'
  BY Zenon DEF PacketsOf, Queued, Aired, Heard
<1>2. \A k \in Node : PacketsOf(k)' \subseteq Packets \cup F
  BY <1>1 DEF QueuesFrom, MacFromOld, BusFromOld
<1> QED  BY <1>2 DEF Packets

LEMMA QueuesSame ==
  ASSUME UNCHANGED outBufferPackets
  PROVE  QueuesFrom({})
<1>1. \A k \in Node : Queued(k)' = Queued(k)
  BY DEF Queued
<1> QED  BY <1>1, PacketParts DEF QueuesFrom

LEMMA MacSame ==
  ASSUME UNCHANGED mac
  PROVE  MacFromOld
<1>1. \A k \in Node : Aired(k)' = Aired(k)
  BY DEF Aired
<1> QED  BY <1>1, PacketParts DEF MacFromOld

LEMMA BusSame ==
  ASSUME UNCHANGED bus
  PROVE  BusFromOld
<1>1. \A k \in Node : Heard(k)' = Heard(k)
  BY DEF Heard
<1> QED  BY <1>1, PacketParts DEF BusFromOld

\* Packets are queued.
LEMMA EnqueueFrom ==
  ASSUME IInv, NEW n \in Node, NEW T, NEW r \in Seq(T), Enqueue(n, r)
  PROVE  QueuesFrom(Elements(r))
<1> DEFINE S == From(n) \cup T
<1>1. outBufferPackets[n] \in Seq(S) /\ r \in Seq(S)
  <2>1. outBufferPackets[n] \in Seq(From(n)) /\ From(n) \subseteq S /\ T \subseteq S
    BY DEF IInv, Queues
  <2> HIDE DEF S
  <2> QED  BY <2>1, SeqMonotonic
<1> HIDE DEF S
<1>2. Elements(outBufferPackets[n] \o r) \subseteq Elements(outBufferPackets[n]) \cup Elements(r)
  BY <1>1, ElementsConcat
<1>3. /\ \A k \in Node : k # n => outBufferPackets'[k] = outBufferPackets[k]
      /\ outBufferPackets'[n] = outBufferPackets[n] \o r
  BY DEF Enqueue, IInv, Queues
<1>4. \A k \in Node : Queued(k)' \subseteq Queued(k) \cup Elements(r)
  BY <1>2, <1>3 DEF Queued
<1> QED  BY <1>4, PacketParts DEF QueuesFrom

\* The queue of a node becomes q.
LEMMA ReplacedFrom ==
  ASSUME IInv, NEW n \in Node, NEW q, outBufferPackets' = [outBufferPackets EXCEPT ![n] = q]
  PROVE  QueuesFrom(Elements(q))
<1>1. \A k \in Node : Queued(k)' = IF k = n THEN Elements(q) ELSE Queued(k)
  BY DEF Queued, IInv, Queues
<1> QED  BY <1>1, PacketParts DEF QueuesFrom

\* The first event of a bus is handled.
LEMMA HandledFrom ==
  ASSUME IInv, NEW n \in Node, bus[n] # <<>>, Handled(n, <<>>)
  PROVE  BusFromOld
<1>1. bus[n] \in Seq(EventsOf(n))
  BY DEF IInv, Buses
<1>2. Tail(bus[n]) \o <<>> = Tail(bus[n])
  BY <1>1, TailIsSeq, ConcatEmptySeq
<1>3. /\ \A k \in Node : k # n => bus'[k] = bus[k]
      /\ bus'[n] = Tail(bus[n])
  BY <1>2 DEF Handled, IInv, Buses
<1>4. \A k \in Node : Elements(bus'[k]) \subseteq Elements(bus[k])
  BY <1>1, <1>3, ElementsTail
<1>5. \A k \in Node : Heard(k)' \subseteq Heard(k)
  BY <1>4 DEF Heard
<1> QED  BY <1>5, PacketParts DEF BusFromOld

\* An event is put on a bus: of an old packet, or of none.
LEMMA FireFrom ==
  ASSUME IInv, NEW n \in Node, NEW e, Fire(n, <<e>>), e.ev = "recv" => e.pkt \in Packets
  PROVE  BusFromOld
<1> DEFINE S == EventsOf(n) \cup {e}
<1>1. bus[n] \in Seq(S) /\ <<e>> \in Seq(S)
  <2>1. bus[n] \in Seq(EventsOf(n)) /\ EventsOf(n) \subseteq S /\ e \in S
    BY DEF IInv, Buses
  <2> HIDE DEF S
  <2> QED  BY <2>1, SeqMonotonic
<1> HIDE DEF S
<1>2. Elements(<<e>>) = {e}
  BY DEF Elements
<1>3. Elements(bus[n] \o <<e>>) \subseteq Elements(bus[n]) \cup {e}
  BY <1>1, <1>2, ElementsConcat
<1>4. /\ \A k \in Node : k # n => bus'[k] = bus[k]
      /\ bus'[n] = bus[n] \o <<e>>
  BY DEF Fire, IInv, Buses
<1>5. \A k \in Node : Heard(k)' \subseteq Heard(k) \cup Packets
  BY <1>3, <1>4 DEF Heard
<1> QED  BY <1>5, PacketParts DEF BusFromOld

\* The MAC layer goes on with a message.
LEMMA MacBecomesFrom ==
  ASSUME IInv, NEW n \in Node, NEW i \in DOMAIN mac[n], NEW m, m.pkt = mac[n][i].pkt,
         MacBecomes(n, i, m)
  PROVE  MacFromOld
<1>1. mac \in [Node -> Seq(Message)] /\ mac[n] \in Seq(Message)
  BY DEF IInv, Messages
<1>2. /\ \A k \in Node : k # n => mac'[k] = mac[k]
      /\ mac'[n] = RemoveAt(mac[n], i) \/ mac'[n] = ReplaceAt(mac[n], i, m)
  BY <1>1 DEF MacBecomes
<1>3. Len(mac[n]) \in Nat /\ DOMAIN mac[n] = 1 .. Len(mac[n])
  BY <1>1, LenProperties
<1>4. Elements(RemoveAt(mac[n], i)) \subseteq Elements(mac[n])
  <2>1. SubSeq(mac[n], 1, i - 1) \in Seq(Elements(mac[n]))
    <3>1. \A j \in 1 .. i - 1 : mac[n][j] \in Elements(mac[n])
      BY <1>3 DEF Elements
    <3>2. 1 \in Int /\ i - 1 \in Int
      BY <1>3
    <3> QED  BY <3>1, <3>2, SubSeqProperties
  <2>2. SubSeq(mac[n], i + 1, Len(mac[n])) \in Seq(Elements(mac[n]))
    <3>1. \A j \in i + 1 .. Len(mac[n]) : mac[n][j] \in Elements(mac[n])
      BY <1>3 DEF Elements
    <3>2. i + 1 \in Int /\ Len(mac[n]) \in Int
      BY <1>3
    <3> QED  BY <3>1, <3>2, SubSeqProperties
  <2>3. RemoveAt(mac[n], i) \in Seq(Elements(mac[n]))
    BY <2>1, <2>2, ConcatIsSeq DEF RemoveAt
  <2>4. PICK q : q = RemoveAt(mac[n], i)
    OBVIOUS
  <2>5. \A j \in DOMAIN q : q[j] \in Elements(mac[n])
    BY <2>3, <2>4, ElementOfSeq, LenProperties
  <2> QED  BY <2>4, <2>5 DEF Elements
<1>5. Elements(ReplaceAt(mac[n], i, m)) \subseteq Elements(mac[n]) \cup {m}
  BY DEF Elements, ReplaceAt
<1>6. mac[n][i] \in Elements(mac[n])
  BY DEF Elements
<1>7. \A k \in Node : Aired(k)' \subseteq Aired(k)
  <2>1. \A k \in Node : k # n => Aired(k)' = Aired(k)
    BY <1>2 DEF Aired
  <2>2. \A e \in Elements(mac'[n]) : e \in Elements(mac[n]) \/ e = m
    BY <1>2, <1>4, <1>5
  <2>3. Aired(n)' \subseteq Aired(n)
    BY <2>2, <1>6 DEF Aired
  <2> QED  BY <2>1, <2>3
<1> QED  BY <1>7, PacketParts DEF MacFromOld

\* The MAC layer will deliver a message a second time.
LEMMA MacRepeats ==
  ASSUME IInv, NEW n \in Node, MacRepeat(n)
  PROVE  /\ UNCHANGED bus
         /\ \A k \in Node : k # n => mac'[k] = mac[k]
         /\ \E m \in Elements(mac[n]) :
              /\ mac[n] \in Seq(Message) /\ Unanswered(m) \in Message
              /\ Unanswered(m).pkt = m.pkt /\ Unanswered(m).left = m.left
              /\ Unanswered(m).sent = 1
              /\ mac'[n] = Append(mac[n], Unanswered(m))
              /\ Elements(mac'[n]) \subseteq Elements(mac[n]) \cup {Unanswered(m)}
<1>1. PICK i \in DOMAIN mac[n] : mac' = [mac EXCEPT ![n] = Append(@, Unanswered(mac[n][i]))]
  BY DEF MacRepeat
<1>2. PICK m, x : m = mac[n][i] /\ x = Unanswered(m)
  OBVIOUS
<1>3. m \in Message /\ m \in Elements(mac[n]) /\ mac[n] \in Seq(Message)
  BY <1>2, InMac DEF Elements, IInv, Messages
<1>4. x \in Message /\ x.pkt = m.pkt /\ x.left = m.left /\ x.sent = 1
  BY <1>2, <1>3, UnansweredOk DEF Unanswered, Message
<1>5. mac'[n] = Append(mac[n], x) /\ \A k \in Node : k # n => mac'[k] = mac[k]
  BY <1>1, <1>2 DEF IInv, Messages
<1>6. <<x>> \in Seq(Message) /\ mac'[n] = mac[n] \o <<x>>
  BY <1>3, <1>4, <1>5, AppendIsConcat
<1>7. Elements(<<x>>) = {x}
  BY DEF Elements
<1>8. Elements(mac'[n]) \subseteq Elements(mac[n]) \cup {x}
  BY <1>3, <1>6, <1>7, ElementsConcat
<1>9. UNCHANGED bus
  BY DEF MacRepeat
<1> QED  BY <1>2, <1>3, <1>4, <1>5, <1>8, <1>9

\* Events that carry no packet to handle are put on a bus.
LEMMA FireOthersFrom ==
  ASSUME IInv, NEW n \in Node, NEW T, NEW r \in Seq(T), Fire(n, r),
         \A e \in Elements(r) : e.ev # "recv"
  PROVE  BusFromOld
<1> DEFINE S == EventsOf(n) \cup T
<1>1. bus[n] \in Seq(S) /\ r \in Seq(S)
  <2>1. bus[n] \in Seq(EventsOf(n)) /\ EventsOf(n) \subseteq S /\ T \subseteq S
    BY DEF IInv, Buses
  <2> HIDE DEF S
  <2> QED  BY <2>1, SeqMonotonic
<1> HIDE DEF S
<1>2. Elements(bus[n] \o r) \subseteq Elements(bus[n]) \cup Elements(r)
  BY <1>1, ElementsConcat
<1>3. /\ \A k \in Node : k # n => bus'[k] = bus[k]
      /\ bus'[n] = bus[n] \o r
  BY DEF Fire, IInv, Buses
<1>4. \A k \in Node : Heard(k)' \subseteq Heard(k)
  BY <1>2, <1>3 DEF Heard
<1> QED  BY <1>4, PacketParts DEF BusFromOld

\* The packets of the kinds the properties are about, and who makes them.
MadeInit(p) ==
  /\ p.type = "RT_INIT" /\ p.forward = Broadcast
  /\ p.source = Sink \/ (p.source \in Node /\ RecvRtInit(p.source))
FirstData(p) == \E n \in Node : Send(n) /\ p = Data(n, n, used.data[n] + 1)
RelayedData(p) == \E n \in Plant :
  RecvData(n) /\ p = Data(n, Received(n).origin, Received(n).body)
FirstAck(p) == \E n \in Node :
  /\ RecvRtInit(n)
  /\ p = RtAck(n, Received(n).source, Received(n).counter, <<n>>, n)
RelayedAck(p) == \E n \in Plant :
  /\ RecvRtAck(n)
  /\ p = RtAck(n, rely[n], Received(n).counter, Push(n, Received(n).route),
               Received(n).origin)
RelayedCommand(p) == \E n \in Node :
  /\ RecvCommand(n) /\ Received(n).route # <<>>
  /\ p = Command(n, Received(n).route, Received(n).body, Received(n).origin)
FirstCommand(p) ==
  /\ RecvAnswer /\ serial.state = "GET" /\ serial.received.found
  /\ p = Command(Sink, serial.received.route, serial.get_payload, Sink)

Floods(p) == p.type \in {"RT_INIT", "CONNECTION_LOST"} => p.forward = Broadcast
Made(p) ==
  \/ p.type \notin {"RT_INIT", "DATA", "RT_ACK", "COMMAND"} /\ Floods(p)
  \/ MadeInit(p) \/ FirstData(p) \/ RelayedData(p)
  \/ FirstAck(p) \/ RelayedAck(p) \/ RelayedCommand(p) \/ FirstCommand(p)
OldOrMade == \A p \in Packets' : p \in Packets \/ Made(p)

LEMMA MadeTypes ==
  ASSUME NEW p
  PROVE  /\ FirstData(p) \/ RelayedData(p) => p.type = "DATA"
         /\ FirstAck(p) \/ RelayedAck(p) => p.type = "RT_ACK"
         /\ RelayedCommand(p) \/ FirstCommand(p) => p.type = "COMMAND"
<1>1. FirstData(p) \/ RelayedData(p) => p.type = "DATA"
  BY DEF FirstData, RelayedData, Data, Packet
<1>2. FirstAck(p) \/ RelayedAck(p) => p.type = "RT_ACK"
  BY DEF FirstAck, RelayedAck, RtAck, Packet
<1>3. RelayedCommand(p) \/ FirstCommand(p) => p.type = "COMMAND"
  BY DEF RelayedCommand, FirstCommand, Command, Packet
<1> QED  BY <1>1, <1>2, <1>3

LEMMA MadeFrom ==
  ASSUME NEW F, QueuesFrom(F), MacFromOld, BusFromOld, \A p \in F : Made(p)
  PROVE  OldOrMade
<1>1. Packets' \subseteq Packets \cup F
  BY FromParts
<1> QED  BY <1>1 DEF OldOrMade

LEMMA NothingMade ==
  ASSUME QueuesFrom({}), MacFromOld, BusFromOld
  PROVE  OldOrMade
<1>1. Packets' \subseteq Packets \cup {}
  BY FromParts
<1> QED  BY <1>1 DEF OldOrMade

LEMMA OneMade ==
  ASSUME IInv, NEW n \in Node, NEW p, Enqueue(n, <<p>>), Made(p), MacFromOld, BusFromOld
  PROVE  OldOrMade
<1>1. <<p>> \in Seq({p}) /\ Elements(<<p>>) = {p}
  BY DEF Elements
<1>2. QueuesFrom(Elements(<<p>>))
  BY <1>1, EnqueueFrom
<1> QED  BY <1>1, <1>2, MadeFrom

\* The handlers of the bus.
LEMMA SendToMacMade ==
  ASSUME IInv, NEW n \in Node, SendToMac(n)
  PROVE  OldOrMade
<1> DEFINE p == Head(outBufferPackets[n])
<1>1. /\ bus[n] # <<>> /\ outBufferPackets[n] # <<>> /\ Handled(n, <<>>)
      /\ mac' = [mac EXCEPT ![n] = Append(@, MacMessage(n, p))]
      /\ outBufferPackets' = [outBufferPackets EXCEPT ![n] = Tail(@)]
  BY DEF SendToMac, At
<1>2. outBufferPackets[n] \in Seq(From(n))
  BY DEF IInv, Queues
<1>3. Elements(Tail(outBufferPackets[n])) \subseteq Queued(n)
  BY <1>1, <1>2, ElementsTail DEF Queued
<1>4. p \in Queued(n)
  <2>1. p = outBufferPackets[n][1] /\ 1 \in DOMAIN outBufferPackets[n]
    BY <1>1, <1>2, HeadTailProperties, LenProperties, EmptySeq
  <2> QED  BY <2>1 DEF Queued, Elements
<1> HIDE DEF p
<1>5. QueuesFrom({})
  <2>1. \A k \in Node : Queued(k)' \subseteq Queued(k)
    BY <1>1, <1>3 DEF Queued, IInv, Queues
  <2> QED  BY <2>1, PacketParts DEF QueuesFrom
<1>6. MacFromOld
  <2> DEFINE m == MacMessage(n, p)
  <2>1. m.pkt = p
    BY DEF MacMessage
  <2> HIDE DEF m
  <2>2. /\ \A k \in Node : k # n => mac'[k] = mac[k]
        /\ mac'[n] = mac[n] \o <<m>>
    BY <1>1 DEF IInv, Messages, m
  <2> DEFINE S == Message \cup {m}
  <2>3. mac[n] \in Seq(S) /\ <<m>> \in Seq(S)
    <3>1. mac[n] \in Seq(Message) /\ Message \subseteq S /\ m \in S
      BY DEF IInv, Messages
    <3> HIDE DEF S
    <3> QED  BY <3>1, SeqMonotonic
  <2> HIDE DEF S
  <2>4. Elements(<<m>>) = {m}
    BY DEF Elements
  <2>5. Elements(mac[n] \o <<m>>) \subseteq Elements(mac[n]) \cup {m}
    BY <2>3, <2>4, ElementsConcat
  <2>6. \A k \in Node : Aired(k)' \subseteq Aired(k) \cup Packets
    <3>1. p \in Packets
      BY <1>4, PacketParts
    <3> QED  BY <2>1, <2>2, <2>5, <3>1 DEF Aired
  <2> QED  BY <2>6, PacketParts DEF MacFromOld
<1>7. BusFromOld
  BY <1>1, HandledFrom
<1> QED  BY <1>5, <1>6, <1>7, NothingMade

LEMMA ReceiveMade ==
  ASSUME IInv, NEW n \in Node,
         PacketSent(n) \/ RecvIgnored(n) \/ RecvData(n) \/ RecvCommand(n) \/ RecvRtAck(n)
           \/ RecvJoin(n) \/ RecvLeave(n)
  PROVE  OldOrMade
<1>1. bus[n] # <<>> /\ Handled(n, <<>>) /\ UNCHANGED mac
  BY DEF PacketSent, RecvIgnored, RecvData, RecvCommand, RecvRtAck, RelayRtAck, RecvJoin, RecvLeave,
     Accepted, At
<1>2. MacFromOld /\ BusFromOld
  BY <1>1, MacSame, HandledFrom
<1>3. CASE UNCHANGED outBufferPackets
  BY <1>2, <1>3, QueuesSame, NothingMade
<1>4. CASE RecvData(n) /\ ~UNCHANGED outBufferPackets
  <2>1. Enqueue(n, <<Data(n, Received(n).origin, Received(n).body)>>)
    BY <1>4 DEF RecvData
  <2>2. n \in Plant
    BY <1>4 DEF RecvData, Plant
  <2>3. RelayedData(Data(n, Received(n).origin, Received(n).body))
    BY <1>4, <2>2 DEF RelayedData
  <2> QED  BY <1>2, <2>1, <2>3, OneMade DEF Made
<1>5. CASE RecvCommand(n) /\ ~UNCHANGED outBufferPackets
  <2> DEFINE c == Command(n, Received(n).route, Received(n).body, Received(n).origin)
  <2>1. Enqueue(n, <<c>>) /\ Received(n).route # <<>>
    BY <1>5 DEF RecvCommand
  <2>2. RelayedCommand(c)
    BY <1>5, <2>1 DEF RelayedCommand
  <2> QED  BY <1>2, <2>1, <2>2, OneMade DEF Made
<1>6. CASE RecvRtAck(n) /\ ~UNCHANGED outBufferPackets
  <2> DEFINE c == RtAck(n, rely[n], Received(n).counter, Push(n, Received(n).route),
                        Received(n).origin)
  <2>1. Enqueue(n, <<c>>) /\ n \in Plant
    BY <1>6 DEF RecvRtAck, RelayRtAck, Plant
  <2>2. RelayedAck(c)
    BY <1>6, <2>1 DEF RelayedAck
  <2> QED  BY <1>2, <2>1, <2>2, OneMade DEF Made
<1>7. CASE RecvJoin(n) /\ ~UNCHANGED outBufferPackets
  <2>1. Enqueue(n, <<Join(n, Received(n).origin)>>)
    BY <1>7 DEF RecvJoin
  <2>2. Made(Join(n, Received(n).origin))
    BY DEF Made, Floods, Join, Packet
  <2> QED  BY <1>2, <2>1, <2>2, OneMade
<1>8. CASE RecvLeave(n) /\ ~UNCHANGED outBufferPackets
  <2> DEFINE c == Leave(n, Received(n).body, Received(n).counter, Received(n).origin)
  <2>1. Enqueue(n, <<c>>)
    BY <1>8 DEF RecvLeave
  <2>2. Made(c)
    BY DEF Made, Floods, Leave, Packet
  <2> QED  BY <1>2, <2>1, <2>2, OneMade
<1> QED  BY <1>3, <1>4, <1>5, <1>6, <1>7, <1>8 DEF PacketSent, RecvIgnored, sendVars

LEMMA DisconnectFrom ==
  ASSUME IInv, NEW n \in Node, RtDisconnect(n)
  PROVE  QueuesFrom(Elements(<<ConnectionLost(n)>>)) /\ \A p \in Elements(<<ConnectionLost(n)>>) : Made(p)
<1>1. outBufferPackets' = [outBufferPackets EXCEPT ![n] = <<ConnectionLost(n)>>]
  BY DEF RtDisconnect
<1>2. QueuesFrom(Elements(<<ConnectionLost(n)>>))
  BY <1>1, ReplacedFrom
<1>3. Elements(<<ConnectionLost(n)>>) = {ConnectionLost(n)}
  BY DEF Elements
<1>4. Made(ConnectionLost(n))
  BY DEF Made, Floods, ConnectionLost, Packet
<1> QED  BY <1>2, <1>3, <1>4

LEMMA TimeoutMade ==
  ASSUME IInv, NEW n \in Node, PacketTimeout(n) \/ RecvConnectionLost(n)
  PROVE  OldOrMade
<1>1. bus[n] # <<>> /\ Handled(n, <<>>) /\ UNCHANGED mac
  BY DEF PacketTimeout, RecvConnectionLost, Accepted, At
<1>2. MacFromOld /\ BusFromOld
  BY <1>1, MacSame, HandledFrom
<1>3. CASE RtDisconnect(n)
  BY <1>2, <1>3, DisconnectFrom, MadeFrom
<1>4. CASE SendLeave(n) /\ ~UNCHANGED outBufferPackets
  <2> DEFINE c == Leave(n, sending_to[n], broadcast_counter[n], n)
  <2>1. Enqueue(n, <<c>>)
    BY <1>4 DEF SendLeave
  <2>2. Made(c)
    BY DEF Made, Floods, Leave, Packet
  <2> QED  BY <1>2, <2>1, <2>2, OneMade
<1>5. CASE UNCHANGED outBufferPackets
  BY <1>2, <1>5, QueuesSame, NothingMade
<1> QED  BY <1>3, <1>4, <1>5 DEF PacketTimeout, RecvConnectionLost

LEMMA RtInitMade ==
  ASSUME IInv, NEW n \in Node, RecvRtInit(n)
  PROVE  OldOrMade
<1>1. bus[n] # <<>> /\ Handled(n, <<>>) /\ UNCHANGED mac
  BY DEF RecvRtInit, Accepted, At
<1>2. MacFromOld /\ BusFromOld
  BY <1>1, MacSame, HandledFrom
<1> DEFINE a == RtAck(n, Received(n).source, Received(n).counter, <<n>>, n)
           b == RtInit(n, Received(n).counter, Received(n).depth + 1)
<1>3. Enqueue(n, <<a, b>>)
  BY DEF RecvRtInit
<1>4. Made(a)
  BY DEF Made, FirstAck
<1>5. Made(b)
  BY DEF Made, MadeInit, RtInit, Packet
<1> HIDE DEF a, b
<1>6. <<a, b>> \in Seq({a, b}) /\ \A p \in Elements(<<a, b>>) : p \in {a, b}
  <2>1. DOMAIN <<a, b>> = 1 .. 2 /\ <<a, b>>[1] = a /\ <<a, b>>[2] = b
    OBVIOUS
  <2> QED  BY <2>1 DEF Elements
<1>7. QueuesFrom(Elements(<<a, b>>))
  BY <1>3, <1>6, EnqueueFrom
<1>8. \A p \in Elements(<<a, b>>) : Made(p)
  BY <1>4, <1>5, <1>6
<1> QED  BY <1>2, <1>7, <1>8, MadeFrom

LEMMA BusStepMade ==
  ASSUME IInv, NEW n \in Node, BusStep(n)
  PROVE  OldOrMade
<1>1. CASE SendToMac(n)
  BY <1>1, SendToMacMade
<1>2. CASE PacketSent(n) \/ RecvIgnored(n) \/ RecvData(n) \/ RecvCommand(n) \/ RecvRtAck(n)
             \/ RecvJoin(n) \/ RecvLeave(n)
  BY <1>2, ReceiveMade
<1>3. CASE PacketTimeout(n) \/ RecvConnectionLost(n)
  BY <1>3, TimeoutMade
<1>4. CASE RecvRtInit(n)
  BY <1>4, RtInitMade
<1> QED  BY <1>1, <1>2, <1>3, <1>4 DEF BusStep

\* The MAC layer makes no packet.
LEMMA MacStepMade ==
  ASSUME IInv, NEW n \in Node, MacStep(n)
  PROVE  OldOrMade
<1>1. UNCHANGED outBufferPackets
  BY DEF MacStep, MacDeliver, MacRepeat, MacSent, MacTimeout, sendVars
<1>2. QueuesFrom({})
  BY <1>1, QueuesSame
<1>3. CASE MacDeliver(n)
  <2>1. PICK i \in DOMAIN mac[n] : \E m \in mac[n][i].left :
          /\ Fire(m, <<EventOf("recv", mac[n][i].pkt)>>)
          /\ MacBecomes(n, i, [mac[n][i] EXCEPT !.left = @ \ {m}])
    BY <1>3 DEF MacDeliver
  <2>2. PICK m \in mac[n][i].left :
          /\ Fire(m, <<EventOf("recv", mac[n][i].pkt)>>)
          /\ MacBecomes(n, i, [mac[n][i] EXCEPT !.left = @ \ {m}])
    BY <2>1
  <2>3. mac[n][i] \in Message
    BY InMac
  <2>4. m \in Node
    BY <2>3 DEF Message
  <2> DEFINE q == [mac[n][i] EXCEPT !.left = @ \ {m}]
  <2>5. q.pkt = mac[n][i].pkt
    BY <2>3 DEF Message
  <2>6. MacFromOld
    <3> HIDE DEF q
    <3>1. MacBecomes(n, i, q)
      BY <2>2 DEF q
    <3> QED  BY <2>5, <3>1, MacBecomesFrom
  <2>7. mac[n][i].pkt \in Packets
    <3>1. mac[n][i] \in Elements(mac[n])
      BY DEF Elements
    <3> QED  BY <3>1, PacketParts DEF Aired
  <2> DEFINE e == EventOf("recv", mac[n][i].pkt)
  <2>8. e.pkt = mac[n][i].pkt
    BY DEF EventOf
  <2>9. BusFromOld
    <3> HIDE DEF e
    <3>1. Fire(m, <<e>>)
      BY <2>2 DEF e
    <3> QED  BY <2>4, <2>7, <2>8, <3>1, FireFrom
  <2> QED  BY <1>2, <2>6, <2>9, NothingMade
<1>4. CASE MacSent(n)
  <2>1. PICK i \in DOMAIN mac[n] :
          /\ MacBecomes(n, i, [mac[n][i] EXCEPT !.sent = 1])
          /\ Fire(n, <<EventOf("sent", mac[n][i].pkt)>>)
    BY <1>4 DEF MacSent
  <2> DEFINE q == [mac[n][i] EXCEPT !.sent = 1]
             e == EventOf("sent", mac[n][i].pkt)
  <2>2. q.pkt = mac[n][i].pkt
    BY InMac DEF Message
  <2>3. e.ev = "sent"
    BY DEF EventOf
  <2>4. MacBecomes(n, i, q) /\ Fire(n, <<e>>)
    BY <2>1
  <2> HIDE DEF q, e
  <2>5. MacFromOld
    BY <2>2, <2>4, MacBecomesFrom
  <2>6. BusFromOld
    BY <2>3, <2>4, FireFrom
  <2> QED  BY <1>2, <2>5, <2>6, NothingMade
<1>5. CASE MacTimeout(n)
  <2>1. PICK i \in DOMAIN mac[n] :
          /\ MacBecomes(n, i, [mac[n][i] EXCEPT !.timeouts = @ + 1])
          /\ Fire(n, <<EventOf("timeout", mac[n][i].pkt)>>)
    BY <1>5 DEF MacTimeout
  <2> DEFINE q == [mac[n][i] EXCEPT !.timeouts = @ + 1]
             e == EventOf("timeout", mac[n][i].pkt)
  <2>2. q.pkt = mac[n][i].pkt
    BY InMac DEF Message
  <2>3. e.ev = "timeout"
    BY DEF EventOf
  <2>4. MacBecomes(n, i, q) /\ Fire(n, <<e>>)
    BY <2>1
  <2> HIDE DEF q, e
  <2>5. MacFromOld
    BY <2>2, <2>4, MacBecomesFrom
  <2>6. BusFromOld
    BY <2>3, <2>4, FireFrom
  <2> QED  BY <1>2, <2>5, <2>6, NothingMade
<1>6. CASE MacRepeat(n)
  <2>1. PICK m \in Elements(mac[n]) :
          /\ Unanswered(m).pkt = m.pkt
          /\ Elements(mac'[n]) \subseteq Elements(mac[n]) \cup {Unanswered(m)}
    BY <1>6, MacRepeats
  <2>2. UNCHANGED bus /\ \A k \in Node : k # n => mac'[k] = mac[k]
    BY <1>6, MacRepeats
  <2>3. \A k \in Node : Aired(k)' \subseteq Aired(k)
    BY <2>1, <2>2 DEF Aired
  <2> QED  BY <1>2, <2>2, <2>3, BusSame, PacketParts, NothingMade DEF MacFromOld
<1> QED  BY <1>3, <1>4, <1>5, <1>6 DEF MacStep

\* A node that loses power makes none either.
LEMMA RestartMade ==
  ASSUME IInv, NEW n \in Node, Restart(n)
  PROVE  OldOrMade
<1>1. /\ outBufferPackets' = [outBufferPackets EXCEPT ![n] = <<>>]
      /\ bus' = [bus EXCEPT ![n] = <<>>]
      /\ mac' = [mac EXCEPT ![n] =
           [i \in DOMAIN mac[n] |-> Unanswered(mac[n][i])]]
  BY DEF Restart
<1>2. Elements(<<>>) = {}
  BY DEF Elements
<1>3. QueuesFrom({})
  <2>1. QueuesFrom(Elements(<<>>))
    BY <1>1, ReplacedFrom
  <2> QED  BY <1>2, <2>1
<1>4. BusFromOld
  <2>1. \A k \in Node : Heard(k)' \subseteq Heard(k)
    BY <1>1, <1>2 DEF Heard, IInv, Buses
  <2> QED  BY <2>1, PacketParts DEF BusFromOld
<1>5. MacFromOld
  <2>1. \A i \in DOMAIN mac[n] :
          Unanswered(mac[n][i]).pkt = mac[n][i].pkt
    BY InMac DEF Message, Unanswered
  <2> DEFINE silent == [i \in DOMAIN mac[n] |-> Unanswered(mac[n][i])]
  <2>2. DOMAIN silent = DOMAIN mac[n] /\ \A i \in DOMAIN mac[n] : silent[i].pkt = mac[n][i].pkt
    BY <2>1
  <2>3. mac' = [mac EXCEPT ![n] = silent]
    BY <1>1
  <2> HIDE DEF silent
  <2>4. \A e \in Elements(silent) : e.pkt \in Aired(n)
    BY <2>2 DEF Elements, Aired
  <2>5. \A k \in Node : Aired(k)' \subseteq Aired(k)
    BY <2>3, <2>4 DEF Aired, IInv, Messages
  <2> QED  BY <2>5, PacketParts DEF MacFromOld
<1> QED  BY <1>3, <1>4, <1>5, NothingMade

LEMMA NodeMade ==
  ASSUME IInv, NEW n \in Node, Send(n) \/ Recv(n) \/ RecvConnection(n)
  PROVE  OldOrMade
<1>1. UNCHANGED <<bus, mac>>
  BY DEF Send, Recv, RecvConnection
<1>2. MacFromOld /\ BusFromOld
  BY <1>1, MacSame, BusSame
<1>3. CASE Send(n)
  <2>1. Enqueue(n, <<Data(n, n, used.data[n] + 1)>>)
    BY <1>3 DEF Send
  <2>2. FirstData(Data(n, n, used.data[n] + 1))
    BY <1>3 DEF FirstData
  <2> QED  BY <1>2, <2>1, <2>2, OneMade DEF Made
<1>4. CASE UNCHANGED outBufferPackets
  BY <1>2, <1>4, QueuesSame, NothingMade
<1> QED  BY <1>3, <1>4 DEF Recv, RecvConnection, sendVars

\* idleTick: what it fires is no packet.
LEMMA DispatchFrom ==
  ASSUME IInv, NEW n \in Node, NEW q, NEW ev, ev # "recv", NEW fired,
         fired \in {<<>>, <<Event(ev)>>}, Dispatch(n, q, fired)
  PROVE  BusFromOld
<1> DEFINE goes == send_state[n] = "READY" /\ q # <<>>
           readied == IF goes THEN <<Event("ready")>> ELSE <<>>
           T == {Event(ev), Event("ready")}
<1>1. Fire(n, fired \o readied)
  BY DEF Dispatch
<1>2. fired \in Seq(T) /\ readied \in Seq(T)
  <2>1. Event(ev) \in T /\ Event("ready") \in T
    OBVIOUS
  <2> HIDE DEF T
  <2>2. <<>> \in Seq(T) /\ <<Event(ev)>> \in Seq(T) /\ <<Event("ready")>> \in Seq(T)
    BY <2>1, EmptyIsSeq
  <2> QED  BY <2>2
<1>3. \A e \in T : e.ev # "recv"
  BY DEF Event
<1> HIDE DEF readied, T
<1>4. fired \o readied \in Seq(T)
  BY <1>2, ConcatIsSeq
<1>5. \A e \in Elements(fired \o readied) : e.ev # "recv"
  BY <1>3, <1>4, ElementOfSeq, LenProperties DEF Elements
<1> QED  BY <1>1, <1>4, <1>5, FireOthersFrom

LEMMA IdleMade ==
  ASSUME IInv, IdleStep
  PROVE  OldOrMade
<1>1. UNCHANGED mac
  BY DEF IdleStep, SerialIdleTick, SinkIdleTick, NodeIdleTick
<1>2. MacFromOld
  BY <1>1, MacSame
<1>3. CASE SerialIdleTick
  <2>1. UNCHANGED outBufferPackets /\ Fire(Sink, <<Event("serial_ready")>>)
    BY <1>3 DEF SerialIdleTick, sendVars
  <2>2. BusFromOld
    <3>1. PICK e : e = Event("serial_ready")
      OBVIOUS
    <3>2. e.ev = "serial_ready"
      BY <3>1 DEF Event
    <3> QED  BY <2>1, <3>1, <3>2, FireFrom, NodeAssumption
  <2> QED  BY <1>2, <2>1, <2>2, QueuesSame, NothingMade
<1>4. CASE SinkIdleTick
  <2>1. PICK elapsed \in BOOLEAN :
          Dispatch(Sink, outBufferPackets[Sink], IF elapsed THEN <<Event("incr")>> ELSE <<>>)
    BY <1>4 DEF SinkIdleTick
  <2>2. BusFromOld
    <3>1. PICK fired : /\ fired \in {<<>>, <<Event("incr")>>}
                       /\ Dispatch(Sink, outBufferPackets[Sink], fired)
      BY <2>1
    <3> QED  BY <3>1, DispatchFrom, NodeAssumption
  <2>3. \A k \in Node : outBufferPackets'[k] = outBufferPackets[k]
    BY <2>1 DEF Dispatch, IInv, Queues
  <2>4. QueuesFrom({})
    <3>1. \A k \in Node : Queued(k)' = Queued(k)
      BY <2>3 DEF Queued
    <3> QED  BY <3>1, PacketParts DEF QueuesFrom
  <2> QED  BY <1>2, <2>2, <2>4, NothingMade
<1>5. CASE \E n \in Node : NodeIdleTick(n)
  <2>1. PICK n \in Node, elapsed \in BOOLEAN :
          Dispatch(n, outBufferPackets[n] \o IF elapsed THEN <<Join(n, n)>> ELSE <<>>, <<>>)
    BY <1>5 DEF NodeIdleTick
  <2> DEFINE q == outBufferPackets[n] \o IF elapsed THEN <<Join(n, n)>> ELSE <<>>
  <2>2. BusFromOld
    <3> HIDE DEF q
    <3>1. PICK fired : fired \in {<<>>, <<Event("incr")>>} /\ Dispatch(n, q, fired)
      BY <2>1 DEF q
    <3> QED  BY <3>1, DispatchFrom
  <2>3. outBufferPackets' = [outBufferPackets EXCEPT ![n] = q]
    BY <2>1 DEF Dispatch
  <2>4. QueuesFrom(Elements(q))
    <3> HIDE DEF q
    <3> QED  BY <2>3, ReplacedFrom
  <2>5. QueuesFrom({Join(n, n)})
    <3> DEFINE r == IF elapsed THEN <<Join(n, n)>> ELSE <<>>
               S == From(n) \cup {Join(n, n)}
    <3>1. outBufferPackets[n] \in Seq(S) /\ r \in Seq(S)
      <4>1. outBufferPackets[n] \in Seq(From(n)) /\ From(n) \subseteq S /\ Join(n, n) \in S
        BY DEF IInv, Queues
      <4> HIDE DEF S
      <4> QED  BY <4>1, SeqMonotonic, EmptyIsSeq
    <3>2. Elements(r) \subseteq {Join(n, n)}
      BY DEF Elements
    <3> HIDE DEF r, S
    <3>3. Elements(outBufferPackets[n] \o r) \subseteq Queued(n) \cup {Join(n, n)}
      BY <3>1, <3>2, ElementsConcat DEF Queued
    <3>4. q = outBufferPackets[n] \o r
      BY DEF r
    <3> HIDE DEF q
    <3>5. Elements(q) \subseteq Packets \cup {Join(n, n)}
      BY <3>3, <3>4, PacketParts
    <3> QED  BY <2>4, <3>5 DEF QueuesFrom
  <2>6. Made(Join(n, n))
    BY DEF Made, Floods, Join, Packet
  <2> QED  BY <1>2, <2>2, <2>5, <2>6, MadeFrom
<1> QED  BY <1>3, <1>4, <1>5 DEF IdleStep

\* The sink and its host.
LEMMA SinkBusMade ==
  ASSUME IInv, SinkBusStep
  PROVE  OldOrMade
<1>1. bus[Sink] # <<>> /\ Handled(Sink, <<>>) /\ UNCHANGED mac
  BY DEF SinkBusStep, IncrBroadcastCounter, SendToSerial, RecvInit, RecvAnswer, SinkSend, At
<1>2. MacFromOld /\ BusFromOld
  BY <1>1, MacSame, HandledFrom, NodeAssumption
<1>3. CASE UNCHANGED outBufferPackets
  BY <1>2, <1>3, QueuesSame, NothingMade
<1>4. CASE IncrBroadcastCounter
  <2> DEFINE c == RtInit(Sink, broadcast_counter[Sink] + 1, 0)
  <2>1. Enqueue(Sink, <<c>>)
    BY <1>4 DEF IncrBroadcastCounter
  <2>2. Made(c)
    BY DEF Made, MadeInit, RtInit, Packet
  <2> QED  BY <1>2, <2>1, <2>2, OneMade, NodeAssumption
<1>5. CASE RecvAnswer /\ serial.state = "GET" /\ serial.received.found
  <2> DEFINE c == Command(Sink, serial.received.route, serial.get_payload, Sink)
  <2>1. Enqueue(Sink, <<c>>)
    BY <1>5 DEF RecvAnswer
  <2>2. Made(c)
    BY <1>5 DEF Made, FirstCommand
  <2> QED  BY <1>2, <2>1, <2>2, OneMade, NodeAssumption
<1>6. CASE RecvAnswer /\ serial.state = "GET" /\ ~serial.received.found
  <2>1. Enqueue(Sink, <<>>)
    BY <1>6 DEF RecvAnswer
  <2>2. Elements(<<>>) = {} /\ <<>> \in Seq({})
    BY EmptyIsSeq DEF Elements
  <2>3. QueuesFrom({})
    BY <2>1, <2>2, EnqueueFrom, NodeAssumption
  <2> QED  BY <1>2, <2>3, NothingMade
<1>7. CASE RecvAnswer /\ serial.state # "GET"
  <2>1. serial.state \in {"PUT", "READY"}
    BY <1>7 DEF IInv, SerialInv
  <2> QED  BY <1>3, <1>7, <2>1 DEF RecvAnswer
<1> QED  BY <1>3, <1>4, <1>5, <1>6, <1>7 DEF SinkBusStep, SendToSerial, RecvInit, SinkSend, sendVars

LEMMA HostMade ==
  ASSUME IInv,
         \/ HostAnswer \/ HostStart \/ Boot \/ Request
         \/ (\E f \in Caller : SinkSendReturns(f)) \/ UNCHANGED vars
  PROVE  OldOrMade
<1>1. UNCHANGED <<outBufferPackets, mac>>
  BY DEF HostAnswer, HostStart, Boot, Request, SinkSendReturns, vars, sendVars
<1>2. QueuesFrom({}) /\ MacFromOld
  BY <1>1, QueuesSame, MacSame
<1>3. CASE HostAnswer \/ HostStart \/ Request
  <2>1. \E ev \in {"table", "request"} : Fire(Sink, <<Event(ev)>>)
    BY <1>3 DEF HostAnswer, HostStart, HostDelivers, Request
  <2>2. PICK e : Fire(Sink, <<e>>) /\ e.ev # "recv"
    BY <2>1 DEF Event
  <2>3. BusFromOld
    BY <2>2, FireFrom, NodeAssumption
  <2> QED  BY <1>2, <2>3, NothingMade
<1>4. CASE UNCHANGED bus
  BY <1>2, <1>4, BusSame, NothingMade
<1> QED  BY <1>3, <1>4 DEF Boot, SinkSendReturns, vars

\* Each packet of the two kinds was there, or is made by its action.
LEMMA NextMade ==
  ASSUME IInv, [Next]_vars
  PROVE  OldOrMade
<1>1. CASE \E n \in Node : BusStep(n)
  BY <1>1, BusStepMade
<1>2. CASE \E n \in Node : MacStep(n)
  BY <1>2, MacStepMade
<1>3. CASE \E n \in Node : Send(n) \/ Recv(n) \/ RecvConnection(n)
  BY <1>3, NodeMade
<1>4. CASE \E n \in Node : Restart(n)
  BY <1>4, RestartMade
<1>5. CASE SinkBusStep
  BY <1>5, SinkBusMade
<1>6. CASE IdleStep
  BY <1>6, IdleMade
<1>7. CASE HostAnswer \/ HostStart \/ Boot \/ Request
             \/ (\E f \in Caller : SinkSendReturns(f)) \/ UNCHANGED vars
  BY <1>7, HostMade
<1> QED  BY <1>1, <1>2, <1>3, <1>4, <1>5, <1>6, <1>7 DEF Next

-----------------------------------------------------------------------------
(* The requests to the host, and the routes it knows.                      *)

Asked == IF serial.in_send = NULL THEN {} ELSE {serial.in_send}
Requests == Elements(serial.out) \cup Asked \cup Elements(host.to)

PutOf(p) == [mode |-> "PUT", route |-> p.route, dest |-> NULL]
Requested(q) ==
  \/ q.mode = "GET"
  \/ /\ RecvRtAck(Sink) /\ Received(Sink) \in Packets /\ Received(Sink).type = "RT_ACK"
     /\ q = PutOf(Received(Sink))
OldOrRequested == \A q \in Requests' : q \in Requests \/ Requested(q)
RoutesFromPuts == \A r \in host.routes' :
  r \in host.routes \/ \E q \in Requests : q.mode = "PUT" /\ r = q.route

\* What a handler is given is one of the packets.
LEMMA ReceivedIsPacket ==
  ASSUME IInv, NEW n \in Node, At(n, "recv")
  PROVE  Received(n) \in Packets
<1>1. bus[n] \in Seq(EventsOf(n)) /\ bus[n] # <<>> /\ Head(bus[n]).ev = "recv"
  BY DEF At, IInv, Buses
<1>2. Head(bus[n]) = bus[n][1] /\ 1 \in DOMAIN bus[n]
  BY <1>1, HeadTailProperties, LenProperties, EmptySeq
<1>3. Head(bus[n]).pkt \in Heard(n)
  BY <1>1, <1>2 DEF Heard, Elements
<1> QED  BY <1>3, PacketParts DEF Received

LEMMA RequestsSame ==
  ASSUME UNCHANGED host,
         UNCHANGED serial \/ (serial'.out = serial.out /\ serial'.in_send = serial.in_send)
  PROVE  OldOrRequested /\ RoutesFromPuts
<1>1. Requests' = Requests
  BY DEF Requests, Asked
<1> QED  BY <1>1 DEF OldOrRequested, RoutesFromPuts

\* A request is appended to the queue of the serial line.
LEMMA RequestAppended ==
  ASSUME IInv, NEW q, Requested(q), UNCHANGED host, serial'.in_send = serial.in_send,
         serial'.out = Append(serial.out, q)
  PROVE  OldOrRequested /\ RoutesFromPuts
<1> DEFINE S == ToHost \cup {q}
<1>1. serial.out \in Seq(S) /\ <<q>> \in Seq(S)
  <2>1. serial.out \in Seq(ToHost) /\ ToHost \subseteq S /\ q \in S
    BY DEF IInv, SerialInv
  <2> HIDE DEF S
  <2> QED  BY <2>1, SeqMonotonic
<1> HIDE DEF S
<1>2. Elements(<<q>>) = {q}
  BY DEF Elements
<1>3. Append(serial.out, q) = serial.out \o <<q>>
  BY <1>1, AppendIsConcat
<1>4. Elements(serial'.out) \subseteq Elements(serial.out) \cup {q}
  BY <1>1, <1>2, <1>3, ElementsConcat
<1>5. Requests' \subseteq Requests \cup {q}
  BY <1>4 DEF Requests, Asked
<1> QED  BY <1>5 DEF OldOrRequested, RoutesFromPuts

LEMMA SinkAckRequests ==
  ASSUME IInv, NEW n \in Node, RecvRtAck(n)
  PROVE  OldOrRequested /\ RoutesFromPuts
<1>1. UNCHANGED host
  BY DEF RecvRtAck, RelayRtAck
<1>2. CASE n # Sink
  <2>1. UNCHANGED serial
    BY <1>2 DEF RecvRtAck, RelayRtAck
  <2> QED  BY <1>1, <2>1, RequestsSame
<1>3. CASE n = Sink
  <2>1. serial' = [serial EXCEPT !.put_origin = Received(Sink).origin,
                                 !.out = Append(@, PutOf(Received(Sink)))]
    BY <1>3 DEF RecvRtAck, RelayRtAck, PutOf
  <2>2. serial'.in_send = serial.in_send /\ serial'.out = Append(serial.out, PutOf(Received(Sink)))
    BY <2>1 DEF IInv, SerialInv
  <2>3. Requested(PutOf(Received(Sink)))
    <3>1. At(Sink, "recv") /\ Received(Sink).type = "RT_ACK"
      BY <1>3 DEF RecvRtAck, RelayRtAck, Accepted, Received
    <3>2. Received(Sink) \in Packets
      BY <3>1, ReceivedIsPacket, NodeAssumption
    <3> QED  BY <1>3, <3>1, <3>2 DEF Requested
  <2> QED  BY <1>1, <2>2, <2>3, RequestAppended
<1> QED  BY <1>2, <1>3

LEMMA SinkSendRequests ==
  ASSUME IInv, NEW f \in Caller, SinkSend(f)
  PROVE  OldOrRequested /\ RoutesFromPuts
<1>1. UNCHANGED host
  BY DEF SinkSend
<1>2. PICK d \in Node :
        serial' = [serial EXCEPT !.get_payload = d, !.waits = TRUE, !.out =
            Append(@, [mode |-> "GET", route |-> <<>>, dest |-> d])]
  BY DEF SinkSend
<1> DEFINE q == [mode |-> "GET", route |-> <<>>, dest |-> d]
<1>3. Requested(q)
  BY DEF Requested
<1> HIDE DEF q
<1>4. serial'.in_send = serial.in_send /\ serial'.out = Append(serial.out, q)
  BY <1>2 DEF IInv, SerialInv, q
<1> QED  BY <1>1, <1>3, <1>4, RequestAppended

LEMMA ToSerialRequests ==
  ASSUME IInv, SendToSerial
  PROVE  OldOrRequested /\ RoutesFromPuts
<1> DEFINE q == Head(serial.out)
<1>1. /\ serial.out # <<>>
      /\ serial' = [serial EXCEPT !.in_send = q, !.out = Tail(@)]
      /\ host' = [host EXCEPT !.to = Append(@, q)]
  BY DEF SendToSerial
<1>2. serial.out \in Seq(ToHost) /\ host.to \in Seq(ToHost)
  BY DEF IInv, SerialInv, HostInv
<1>3. q \in ToHost /\ q \in Elements(serial.out)
  <2>1. q = serial.out[1] /\ 1 \in DOMAIN serial.out
    BY <1>1, <1>2, HeadTailProperties, LenProperties, EmptySeq
  <2> QED  BY <1>1, <1>2, <2>1, TailIsSeq DEF Elements
<1> HIDE DEF q
<1>4. Elements(Tail(serial.out)) \subseteq Elements(serial.out)
  BY <1>1, <1>2, ElementsTail
<1>5. Elements(Append(host.to, q)) \subseteq Elements(host.to) \cup {q}
  <2>1. Append(host.to, q) = host.to \o <<q>> /\ <<q>> \in Seq(ToHost)
    BY <1>2, <1>3, AppendIsConcat
  <2>2. Elements(<<q>>) = {q}
    BY DEF Elements
  <2> QED  BY <1>2, <2>1, <2>2, ElementsConcat
<1>6. /\ serial'.out = Tail(serial.out) /\ serial'.in_send = q
      /\ host'.to = Append(host.to, q) /\ host'.routes = host.routes
  BY <1>1 DEF IInv, SerialInv, HostInv
<1>7. Requests' \subseteq Requests
  BY <1>3, <1>4, <1>5, <1>6 DEF Requests, Asked
<1> QED  BY <1>6, <1>7 DEF OldOrRequested, RoutesFromPuts

LEMMA InitRequests ==
  ASSUME IInv, RecvInit
  PROVE  OldOrRequested /\ RoutesFromPuts
<1>1. /\ serial' = [serial EXCEPT !.initiated = TRUE]
      /\ host' = [host EXCEPT !.to = @ \o Resent]
  BY DEF RecvInit
<1> DEFINE S == ToHost \cup {serial.in_send}
<1>2. host.to \in Seq(S) /\ Resent \in Seq(S)
  <2>1. host.to \in Seq(ToHost) /\ ToHost \subseteq S /\ serial.in_send \in S
    BY DEF IInv, HostInv
  <2> HIDE DEF S
  <2> QED  BY <2>1, SeqMonotonic, EmptyIsSeq DEF Resent
<1> HIDE DEF S
<1>3. Elements(Resent) \subseteq Asked
  BY DEF Elements, Resent, Asked
<1>4. Elements(host.to \o Resent) \subseteq Elements(host.to) \cup Elements(Resent)
  BY <1>2, ElementsConcat
<1>5. /\ serial'.out = serial.out /\ serial'.in_send = serial.in_send
      /\ host'.to = host.to \o Resent /\ host'.routes = host.routes
  BY <1>1 DEF IInv, SerialInv, HostInv
<1>6. Requests' \subseteq Requests
  BY <1>3, <1>4, <1>5 DEF Requests, Asked
<1> QED  BY <1>5, <1>6 DEF OldOrRequested, RoutesFromPuts

LEMMA ElementsSub ==
  ASSUME NEW S, NEW q \in Seq(S), NEW i \in Nat \ {0}, NEW j \in 0 .. Len(q)
  PROVE  Elements(SubSeq(q, i, j)) \subseteq Elements(q)
<1>1. Len(q) \in Nat /\ i \in Int /\ j \in Int /\ DOMAIN q = 1 .. Len(q)
  BY LenProperties
<1>2. \A k \in i .. j : q[k] \in Elements(q)
  BY <1>1 DEF Elements
<1>3. SubSeq(q, i, j) \in Seq(Elements(q))
  BY <1>1, <1>2, SubSeqProperties
<1>4. PICK s : s = SubSeq(q, i, j)
  OBVIOUS
<1>5. \A k \in DOMAIN s : s[k] \in Elements(q)
  BY <1>3, <1>4, ElementOfSeq, LenProperties
<1> QED  BY <1>4, <1>5 DEF Elements

\* The host starts, or answers, or the sink restarts or boots.
LEMMA HostRequests ==
  ASSUME IInv, HostStart \/ HostAnswer
  PROVE  OldOrRequested /\ RoutesFromPuts
<1>1. host.to \in Seq(ToHost) /\ Len(host.to) \in Nat
  BY LenProperties DEF IInv, HostInv
<1>2. serial'.out = serial.out /\ serial'.in_send = serial.in_send
  BY DEF HostStart, HostAnswer, HostDelivers, IInv, SerialInv
<1>3. CASE HostStart
  <2>1. PICK k \in 0 .. Len(host.to) :
          host' = [host EXCEPT !.to = SubSeq(@, Len(@) - k + 1, Len(@))]
    BY <1>3 DEF HostStart
  <2>2. /\ host'.to = SubSeq(host.to, Len(host.to) - k + 1, Len(host.to))
        /\ host'.routes = host.routes
    BY <2>1 DEF IInv, HostInv
  <2>3. Len(host.to) - k + 1 \in Nat \ {0} /\ Len(host.to) \in 0 .. Len(host.to)
    BY <1>1
  <2>4. Elements(host'.to) \subseteq Elements(host.to)
    BY <1>1, <2>2, <2>3, ElementsSub
  <2>5. Requests' \subseteq Requests
    BY <1>2, <2>4 DEF Requests, Asked
  <2> QED  BY <2>2, <2>5 DEF OldOrRequested, RoutesFromPuts
<1>4. CASE HostAnswer
  <2> DEFINE q == Head(host.to)
  <2>1. /\ host.to # <<>>
        /\ host' = [to |-> Tail(host.to),
                    routes |-> host.routes \cup IF q.mode = "PUT" THEN {q.route} ELSE {}]
    BY <1>4 DEF HostAnswer
  <2>2. q \in Elements(host.to)
    <3>1. q = host.to[1] /\ 1 \in DOMAIN host.to
      BY <1>1, <2>1, HeadTailProperties, LenProperties, EmptySeq
    <3> QED  BY <3>1 DEF Elements
  <2>3. Elements(Tail(host.to)) \subseteq Elements(host.to)
    BY <1>1, <2>1, ElementsTail
  <2> HIDE DEF q
  <2>4. Requests' \subseteq Requests
    BY <1>2, <2>1, <2>3 DEF Requests, Asked
  <2>5. RoutesFromPuts
    BY <2>1, <2>2 DEF RoutesFromPuts, Requests
  <2> QED  BY <2>4, <2>5 DEF OldOrRequested
<1> QED  BY <1>3, <1>4

LEMMA RestartRequests ==
  ASSUME IInv, (\E n \in Node : Restart(n)) \/ Boot
  PROVE  OldOrRequested /\ RoutesFromPuts
<1>1. host.to \in Seq(ToHost) /\ Len(host.to) \in Nat
  BY LenProperties DEF IInv, HostInv
<1>2. CASE Boot
  <2>1. serial'.out = serial.out /\ serial'.in_send = NULL /\ UNCHANGED host
    BY <1>2 DEF Boot, IInv, SerialInv
  <2>2. Requests' \subseteq Requests
    BY <2>1 DEF Requests, Asked
  <2> QED  BY <2>1, <2>2 DEF OldOrRequested, RoutesFromPuts
<1>3. CASE \E n \in Node : n # Sink /\ Restart(n)
  BY <1>3, RequestsSame DEF Restart
<1>4. CASE Restart(Sink)
  <2>1. PICK k \in 0 .. Len(host.to) : host' = [host EXCEPT !.to = SubSeq(@, 1, k)]
    BY <1>4 DEF Restart
  <2>2. serial' = NoSerial
    BY <1>4 DEF Restart
  <2>3. host'.to = SubSeq(host.to, 1, k) /\ host'.routes = host.routes
    BY <2>1 DEF IInv, HostInv
  <2>4. Elements(host'.to) \subseteq Elements(host.to)
    BY <1>1, <2>3, ElementsSub
  <2>5. Elements(serial'.out) = {} /\ Asked' = {}
    BY <2>2 DEF NoSerial, Elements, Asked
  <2>6. Requests' \subseteq Requests
    BY <2>4, <2>5 DEF Requests
  <2> QED  BY <2>3, <2>6 DEF OldOrRequested, RoutesFromPuts
<1> QED  BY <1>2, <1>3, <1>4

\* The other steps make no request.
LEMMA NextRequests ==
  ASSUME IInv, [Next]_vars
  PROVE  OldOrRequested /\ RoutesFromPuts
<1>1. CASE \E n \in Node : BusStep(n)
  <2>1. PICK n \in Node : BusStep(n)
    BY <1>1
  <2>2. CASE RecvRtAck(n)
    BY <2>2, SinkAckRequests
  <2>3. CASE ~RecvRtAck(n)
    <3>1. UNCHANGED <<host, serial>>
      BY <2>1, <2>3 DEF BusStep, SendToMac, PacketSent, PacketTimeout, RecvIgnored, RecvRtInit,
         RecvData, RecvCommand, RecvJoin, RecvLeave, RecvConnectionLost, sinkVars
    <3> QED  BY <3>1, RequestsSame
  <2> QED  BY <2>2, <2>3
<1>2. CASE \E n \in Node : MacStep(n) \/ Send(n) \/ Recv(n) \/ RecvConnection(n)
  <2>1. UNCHANGED <<host, serial>>
    BY <1>2, MacStepKeeps DEF Send, Recv, RecvConnection, sinkVars
  <2> QED  BY <2>1, RequestsSame
<1>3. CASE SinkBusStep
  <2>1. CASE IncrBroadcastCounter
    BY <2>1, RequestsSame DEF IncrBroadcastCounter
  <2>2. CASE RecvAnswer
    <3>1. serial.state \in {"GET", "PUT", "READY"}
      BY DEF IInv, SerialInv
    <3>2. serial'.out = serial.out /\ serial'.in_send = serial.in_send /\ UNCHANGED host
      BY <2>2, <3>1 DEF RecvAnswer, RouteAnswered, IInv, SerialInv
    <3> QED  BY <3>2, RequestsSame
  <2>3. CASE SendToSerial \/ RecvInit \/ \E f \in Caller : SinkSend(f)
    BY <2>3, ToSerialRequests, InitRequests, SinkSendRequests
  <2> QED  BY <1>3, <2>1, <2>2, <2>3 DEF SinkBusStep
<1>4. CASE IdleStep
  <2>1. /\ UNCHANGED host
        /\ UNCHANGED serial \/ (serial'.out = serial.out /\ serial'.in_send = serial.in_send)
    BY <1>4 DEF IdleStep, SerialIdleTick, SinkIdleTick, NodeIdleTick, sinkVars, IInv, SerialInv
  <2> QED  BY <2>1, RequestsSame
<1>5. CASE HostStart \/ HostAnswer \/ (\E n \in Node : Restart(n)) \/ Boot
  BY <1>5, HostRequests, RestartRequests
<1>6. CASE Request \/ (\E f \in Caller : SinkSendReturns(f)) \/ UNCHANGED vars
  <2>1. UNCHANGED <<host, serial>>
    BY <1>6 DEF Request, SinkSendReturns, vars, sinkVars
  <2> QED  BY <2>1, RequestsSame
<1> QED  BY <1>1, <1>2, <1>3, <1>4, <1>5, <1>6 DEF Next

-----------------------------------------------------------------------------
(* The routes are paths.                                                   *)

\* m is further from the sink than f in the tree of counter c, or has left it.
Behind(m, f, c) ==
  \/ c < broadcast_counter[m]
  \/ /\ c = broadcast_counter[m]
     /\ \/ f = Sink
        \/ c < broadcast_counter[f]
        \/ c = broadcast_counter[f] /\ depth[f] < depth[m]

\* What an RT_ACK has gathered: each node it came through is behind the one it
\* goes to.
AckOk(p) ==
  /\ IsPath(p.route, p.origin)
  /\ \A m \in Elements(p.route) : m \in Plant /\ Behind(m, p.forward, p.counter)
AcksInv == \A p \in Packets : p.type = "RT_ACK" => AckOk(p)

\* The requests to store a route, and what was stored.
PutOk(q) == q.mode = "PUT" => VisitsOnce(q.route)
PutsInv ==
  /\ \A q \in Requests : PutOk(q)
  /\ \A r \in host.routes : VisitsOnce(r)

\* No node goes back in its tree.
TreeStep == \A n \in Plant :
  \/ broadcast_counter[n] < broadcast_counter'[n]
  \/ broadcast_counter'[n] = broadcast_counter[n] /\ depth'[n] = depth[n]

LEMMA TreeAdvances ==
  ASSUME IInv, OnlySinkRestarts, [Next]_vars
  PROVE  TreeStep
<1>1. CASE UNCHANGED <<broadcast_counter, depth>>
  BY <1>1 DEF TreeStep
<1>2. CASE \E n \in Node : RecvRtInit(n)
  <2>1. PICK n \in Node : RecvRtInit(n)
    BY <1>2
  <2>2. Received(n) \in Stamped /\ Accepts(n, Received(n)) /\ Received(n).type = "RT_INIT"
    BY <2>1, AcceptedPacket DEF RecvRtInit
  <2>3. Received(n).counter > broadcast_counter[n] /\ Received(n).counter \in Nat
    BY <2>2, StampedFields DEF Accepts, AcceptsRtInit, Newer
  <2>4. /\ broadcast_counter' = [broadcast_counter EXCEPT ![n] = Received(n).counter]
        /\ depth' = [depth EXCEPT ![n] = Received(n).depth + 1]
    BY <2>1 DEF RecvRtInit
  <2> QED  BY <2>3, <2>4 DEF TreeStep, IInv, TreeInv, Plant
<1>3. CASE IncrBroadcastCounter \/ Boot
  <2>1. \A n \in Plant : broadcast_counter'[n] = broadcast_counter[n] /\ depth'[n] = depth[n]
    BY <1>3 DEF IncrBroadcastCounter, Boot, Plant, IInv, TreeInv
  <2> QED  BY <2>1 DEF TreeStep
<1>4. CASE \E n \in Node : Restart(n)
  <2>1. PICK n \in Node : Restart(n)
    BY <1>4
  <2>2. n = Sink
    <3>1. used.restart[n] < MaxRestart[n] /\ used.restart[n] \in Nat
      BY <2>1 DEF Restart, IInv, UsedInv, Counts
    <3> QED  BY <3>1 DEF OnlySinkRestarts, Plant
  <2>3. \A k \in Plant : broadcast_counter'[k] = broadcast_counter[k] /\ depth'[k] = depth[k]
    BY <2>1, <2>2 DEF Restart, Plant, IInv, TreeInv
  <2> QED  BY <2>3 DEF TreeStep
<1>5. CASE \E n \in Node : BusStep(n) /\ ~RecvRtInit(n)
  <2>1. PICK n \in Node : BusStep(n) /\ ~RecvRtInit(n)
    BY <1>5
  <2>2. UNCHANGED <<broadcast_counter, depth>>
    BY <2>1 DEF BusStep, SendToMac, PacketSent, PacketTimeout, RtDisconnect, SendLeave, RecvIgnored,
       RecvData, RecvCommand, RecvRtAck, RecvJoin, RecvLeave, RecvConnectionLost, treeVars
  <2> QED  BY <1>1, <2>2
<1>6. CASE \/ \E n \in Node : MacStep(n) \/ Send(n) \/ Recv(n) \/ RecvConnection(n)
           \/ (\E f \in Caller : SinkSendReturns(f)) \/ UNCHANGED vars
  <2>1. UNCHANGED <<broadcast_counter, depth>>
    BY <1>6, MacStepKeeps DEF Send, Recv, RecvConnection, SinkSendReturns, vars, treeVars
  <2> QED  BY <1>1, <2>1
<1>7. CASE SinkBusStep /\ ~IncrBroadcastCounter
  <2>1. UNCHANGED <<broadcast_counter, depth>>
    BY <1>7 DEF SinkBusStep, SendToSerial, RecvInit, RecvAnswer, SinkSend, treeVars
  <2> QED  BY <1>1, <2>1
<1>8. CASE IdleStep \/ HostAnswer \/ HostStart \/ Request
  <2>1. UNCHANGED <<broadcast_counter, depth>>
    BY <1>8 DEF IdleStep, SerialIdleTick, SinkIdleTick, NodeIdleTick, HostAnswer, HostStart, Request,
       treeVars
  <2> QED  BY <1>1, <2>1
<1> QED  BY <1>2, <1>3, <1>4, <1>5, <1>6, <1>7, <1>8 DEF Next

\* What is behind stays behind.
LEMMA BehindKept ==
  ASSUME IInv, IInv', TreeStep, NEW m \in Plant, NEW f \in Node, NEW c \in Nat, Behind(m, f, c)
  PROVE  Behind(m, f, c)'
<1>1. \A n \in Plant : /\ broadcast_counter[n] \in Nat /\ broadcast_counter'[n] \in Nat
                       /\ depth[n] \in Nat /\ depth'[n] \in Nat
  BY DEF IInv, TreeInv, Plant
<1>2. f = Sink \/ f \in Plant
  BY DEF Plant
<1> QED  BY <1>1, <1>2 DEF Behind, TreeStep

LEMMA AckKept ==
  ASSUME IInv, IInv', TreeStep, NEW p \in Packets, p.type = "RT_ACK", AckOk(p)
  PROVE  AckOk(p)'
<1>1. p \in Stamped
  BY PacketIsStamped DEF Packets
<1>2. p.counter \in Nat /\ p.forward \in Node
  <2>1. IsPacket(p) /\ p.counter \in Nat
    BY <1>1, StampedFields
  <2> QED  BY <2>1 DEF IsPacket
<1>3. \A m \in Elements(p.route) : m \in Plant /\ Behind(m, p.forward, p.counter)'
  BY <1>2, BehindKept DEF AckOk
<1> QED  BY <1>3 DEF AckOk, IsPath, VisitsOnce

\* A node that joined the tree is behind its rely.
LEMMA FirstAckOk ==
  ASSUME IInv, IInv', OnlySinkRestarts, NEW n \in Node, RecvRtInit(n), NEW p,
         p = RtAck(n, Received(n).source, Received(n).counter, <<n>>, n)
  PROVE  AckOk(p)'
<1> DEFINE r == Received(n)
<1>1. /\ broadcast_counter' = [broadcast_counter EXCEPT ![n] = r.counter]
      /\ rely' = [rely EXCEPT ![n] = r.source]
  BY DEF RecvRtInit
<1>2. r \in Stamped /\ Accepts(n, r) /\ r.type = "RT_INIT"
  BY AcceptedPacket DEF RecvRtInit
<1>3. n \in Plant /\ r.counter \in Nat /\ r.source \in Node
  BY <1>2, StampedFields DEF Accepts, AcceptsRtInit, Plant
<1>4. broadcast_counter'[n] = r.counter /\ rely'[n] = r.source
  BY <1>1, <1>3 DEF IInv, TreeInv
<1>5. PICK c, s : c = r.counter /\ s = r.source
  OBVIOUS
<1>6. p = RtAck(n, s, c, <<n>>, n)
  BY <1>5
<1>7. p.route = <<n>> /\ p.origin = n /\ p.forward = s /\ p.counter = c
  BY <1>6 DEF RtAck, Packet
<1>8. Behind(n, s, c)'
  <2>1. CASE s = Sink
    BY <1>4, <1>5, <2>1 DEF Behind
  <2>2. CASE s \in Plant
    <3>1. \/ broadcast_counter'[n] < broadcast_counter'[s]
          \/ broadcast_counter'[n] = broadcast_counter'[s] /\ depth'[s] < depth'[n]
      BY <1>3, <1>4, <1>5, <2>2 DEF IInv, Climbs, Plant, OnlySinkRestarts
    <3> QED  BY <1>4, <1>5, <3>1 DEF Behind
  <2> QED  BY <1>3, <1>5, <2>1, <2>2 DEF Plant
<1>9. Elements(<<n>>) = {n}
  BY DEF Elements
<1>10. IsPath(<<n>>, n)
  <2>1. Len(<<n>>) = 1 /\ <<n>>[1] = n /\ DOMAIN <<n>> = {1}
    OBVIOUS
  <2>2. PICK q : q = <<n>>
    OBVIOUS
  <2> QED  BY <2>1, <2>2 DEF IsPath, VisitsOnce, Last
<1> QED  BY <1>3, <1>7, <1>8, <1>9, <1>10 DEF AckOk, IsPath, VisitsOnce

\* What is behind a node is behind its rely.
LEMMA BehindClimbs ==
  ASSUME IInv, OnlySinkRestarts, NEW n \in Plant, rely[n] \in Node, NEW m \in Plant, NEW c,
         c = broadcast_counter[n], Behind(m, n, c)
  PROVE  Behind(m, rely[n], c) /\ m # n
<1>1. /\ broadcast_counter[n] \in Nat /\ broadcast_counter[m] \in Nat
      /\ depth[n] \in Nat /\ depth[m] \in Nat /\ n # Sink
  BY DEF IInv, TreeInv, Plant
<1>2. CASE rely[n] = Sink
  BY <1>1, <1>2 DEF Behind
<1>3. CASE rely[n] # Sink
  <2>1. rely[n] \in Plant
    BY <1>3 DEF Plant
  <2>2. /\ broadcast_counter[rely[n]] \in Nat /\ depth[rely[n]] \in Nat
    BY <2>1 DEF IInv, TreeInv, Plant
  <2>3. \/ broadcast_counter[n] < broadcast_counter[rely[n]]
        \/ broadcast_counter[n] = broadcast_counter[rely[n]] /\ depth[rely[n]] < depth[n]
    BY <2>1 DEF IInv, Climbs
  <2> QED  BY <1>1, <2>2, <2>3 DEF Behind
<1> QED  BY <1>2, <1>3

\* A node pushed before a path that it is not on.
LEMMA PushIsPath ==
  ASSUME NEW n \in Node, NEW r \in Seq(Node), r # <<>>, NEW o, IsPath(r, o), n \notin Elements(r)
  PROVE  IsPath(Push(n, r), o) /\ Elements(Push(n, r)) \subseteq Elements(r) \cup {n}
<1>1. PICK q : q = Push(n, r)
  OBVIOUS
<1>2. Len(r) \in Nat \ {0} /\ DOMAIN r = 1 .. Len(r)
  BY LenProperties, EmptySeq
<1>3. <<n>> \in Seq(Node) /\ Len(<<n>>) = 1 /\ <<n>>[1] = n
  OBVIOUS
<1>4. /\ q \in Seq(Node) /\ Len(q) = 1 + Len(r) /\ q[1] = n
      /\ \A i \in 1 .. 1 + Len(r) : i > 1 => q[i] = r[i - 1]
  <2>1. q = <<n>> \o r
    BY <1>1 DEF Push
  <2>2. /\ q \in Seq(Node) /\ Len(q) = Len(<<n>>) + Len(r)
        /\ \A i \in 1 .. Len(<<n>>) + Len(r) :
             q[i] = IF i <= Len(<<n>>) THEN <<n>>[i] ELSE r[i - Len(<<n>>)]
    BY <1>3, <2>1, ConcatProperties
  <2> QED  BY <1>2, <1>3, <2>2
<1>5. DOMAIN q = 1 .. 1 + Len(r)
  BY <1>4, LenProperties
<1>6. Last(q) = o
  <2>1. q[1 + Len(r)] = r[Len(r)]
    BY <1>2, <1>4
  <2> QED  BY <1>4, <2>1 DEF Last, IsPath
<1>7. \A i \in DOMAIN r : r[i] # n
  BY DEF Elements
<1>8. \A i, j \in DOMAIN q : q[i] = q[j] => i = j
  <2> SUFFICES ASSUME NEW i \in 1 .. 1 + Len(r), NEW j \in 1 .. 1 + Len(r), q[i] = q[j]
               PROVE  i = j
    BY <1>5
  <2>1. CASE i > 1 /\ j > 1
    <3>1. i - 1 \in DOMAIN r /\ j - 1 \in DOMAIN r
      BY <1>2, <2>1
    <3>2. r[i - 1] = r[j - 1]
      BY <1>4, <2>1
    <3>3. i - 1 = j - 1
      BY <3>1, <3>2 DEF IsPath, VisitsOnce
    <3> QED  BY <1>2, <3>3
  <2>2. CASE i = 1 /\ j > 1
    <3>1. j - 1 \in DOMAIN r /\ r[j - 1] = n
      BY <1>2, <1>4, <2>2
    <3> QED  BY <1>7, <3>1
  <2>3. CASE i > 1 /\ j = 1
    <3>1. i - 1 \in DOMAIN r /\ r[i - 1] = n
      BY <1>2, <1>4, <2>3
    <3> QED  BY <1>7, <3>1
  <2> QED  BY <1>2, <2>1, <2>2, <2>3
<1>9. \A i \in DOMAIN q : q[i] \in Elements(r) \cup {n}
  <2> SUFFICES ASSUME NEW i \in 1 .. 1 + Len(r) PROVE q[i] \in Elements(r) \cup {n}
    BY <1>5
  <2>1. CASE i > 1
    <3>1. i - 1 \in DOMAIN r /\ q[i] = r[i - 1]
      BY <1>2, <1>4, <2>1
    <3> QED  BY <3>1 DEF Elements
  <2> QED  BY <1>2, <1>4, <2>1
<1>10. IsPath(q, o)
  BY <1>6, <1>8 DEF IsPath, VisitsOnce
<1>11. Elements(q) \subseteq Elements(r) \cup {n}
  BY <1>9 DEF Elements
<1> QED  BY <1>1, <1>10, <1>11

\* A node that relays an RT_ACK is behind its rely, as are those before it.
LEMMA RelayedAckOk ==
  ASSUME IInv, IInv', AcksInv, OnlySinkRestarts, NEW n \in Plant, RecvRtAck(n), NEW p,
         p = RtAck(n, rely[n], Received(n).counter, Push(n, Received(n).route),
                   Received(n).origin)
  PROVE  AckOk(p)'
<1>1. PICK r : r = Received(n)
  OBVIOUS
<1>2. r \in Stamped /\ Accepts(n, r) /\ r.type = "RT_ACK" /\ At(n, "recv")
  BY <1>1, AcceptedPacket DEF RecvRtAck, RelayRtAck, Plant, Accepted
<1>3. /\ r.counter = broadcast_counter[n] /\ r.forward = n /\ rely[n] \in Node
      /\ r.counter \in Nat /\ r.route \in Seq(Node) /\ r.route # <<>>
  <2>1. r.counter = broadcast_counter[n] /\ r.forward = n /\ rt_formed[n]
    BY <1>2 DEF Accepts, AcceptsRtAck, AcceptsUp, Plant
  <2>2. rely[n] \in Node
    BY <2>1 DEF IInv, TreeInv
  <2> QED  BY <1>2, <2>1, <2>2, StampedFields
<1>4. AckOk(r)
  BY <1>1, <1>2, ReceivedIsPacket DEF AcksInv, Plant
<1>5. UNCHANGED <<broadcast_counter, depth>>
  BY DEF RecvRtAck, RelayRtAck, treeVars
<1>6. \A m \in Elements(r.route) : m \in Plant /\ Behind(m, rely[n], r.counter) /\ m # n
  BY <1>3, <1>4, BehindClimbs DEF AckOk
<1>7. Behind(n, rely[n], r.counter)
  <2>1. CASE rely[n] = Sink
    BY <1>3, <2>1 DEF Behind
  <2>2. CASE rely[n] \in Plant
    BY <1>3, <2>2 DEF Behind, IInv, Climbs
  <2> QED  BY <1>3, <2>1, <2>2 DEF Plant
<1>8. n \in Node /\ n \notin Elements(r.route)
  BY <1>6 DEF Plant
<1>9. /\ IsPath(Push(n, r.route), r.origin)
      /\ Elements(Push(n, r.route)) \subseteq Elements(r.route) \cup {n}
  BY <1>3, <1>4, <1>8, PushIsPath DEF AckOk
<1>10. PICK f : f = rely[n]
  OBVIOUS
<1>11. \A m \in Plant : Behind(m, f, r.counter)' <=> Behind(m, f, r.counter)
  BY <1>5 DEF Behind
<1>12. p = RtAck(n, f, r.counter, Push(n, r.route), r.origin)
  BY <1>1, <1>10
<1>13. /\ p.route = Push(n, r.route) /\ p.origin = r.origin
       /\ p.forward = f /\ p.counter = r.counter
  BY <1>12 DEF RtAck, Packet
<1>14. \A m \in Elements(p.route) : m \in Plant /\ Behind(m, f, r.counter)
  BY <1>6, <1>7, <1>9, <1>10, <1>13
<1>15. \A m \in Elements(p.route) : m \in Plant /\ Behind(m, f, r.counter)'
  BY <1>11, <1>14
<1>16. IsPath(p.route, p.origin)
  BY <1>9, <1>13
<1> QED  BY <1>13, <1>15, <1>16 DEF AckOk, IsPath, VisitsOnce

LEMMA AcksStep ==
  ASSUME IInv, IInv', AcksInv, OnlySinkRestarts, [Next]_vars
  PROVE  AcksInv'
<1> SUFFICES ASSUME NEW p \in Packets', p.type = "RT_ACK" PROVE AckOk(p)'
  BY DEF AcksInv
<1>1. CASE p \in Packets
  BY <1>1, TreeAdvances, AckKept DEF AcksInv
<1>2. CASE p \notin Packets
  <2>1. Made(p)
    BY <1>2, NextMade DEF OldOrMade
  <2>2. CASE FirstAck(p)
    BY <2>2, FirstAckOk DEF FirstAck
  <2>3. CASE RelayedAck(p)
    BY <2>3, RelayedAckOk DEF RelayedAck
  <2> QED  BY <2>1, <2>2, <2>3, MadeTypes DEF Made, MadeInit
<1> QED  BY <1>1, <1>2

LEMMA PutsStep ==
  ASSUME IInv, AcksInv, PutsInv, [Next]_vars
  PROVE  PutsInv'
<1>1. OldOrRequested /\ RoutesFromPuts
  BY NextRequests
<1>2. \A q \in Requests' : PutOk(q)
  <2> SUFFICES ASSUME NEW q \in Requests' PROVE PutOk(q)
    OBVIOUS
  <2>1. CASE q \in Requests
    BY <2>1 DEF PutsInv
  <2>2. CASE q.mode = "GET"
    BY <2>2 DEF PutOk
  <2>3. CASE /\ Received(Sink) \in Packets /\ Received(Sink).type = "RT_ACK"
             /\ q = PutOf(Received(Sink))
    <3>1. VisitsOnce(Received(Sink).route)
      BY <2>3 DEF AcksInv, AckOk, IsPath
    <3>2. q.route = Received(Sink).route
      BY <2>3 DEF PutOf
    <3> QED  BY <3>1, <3>2 DEF PutOk
  <2> QED  BY <1>1, <2>1, <2>2, <2>3 DEF OldOrRequested, Requested
<1>3. \A r \in host.routes' : VisitsOnce(r)
  BY <1>1 DEF RoutesFromPuts, PutsInv, PutOk
<1>4. \A q \in Requests' : PutOk(q)'
  BY <1>2 DEF PutOk, VisitsOnce
<1>5. \A r \in host.routes' : VisitsOnce(r)'
  BY <1>3 DEF VisitsOnce
<1> QED  BY <1>4, <1>5 DEF PutsInv

\* The route an RT_ACK gathers goes through no node twice, and so does every
\* route the host is told to store: while no node but the sink restarts, the
\* nodes it came through stay behind the one it goes to.
THEOREM AcksGatherPaths == OnlySinkRestarts => (Spec => []RoutesArePaths)
<1> SUFFICES ASSUME OnlySinkRestarts PROVE Spec => []RoutesArePaths
  OBVIOUS
<1>1. Init => AcksInv /\ PutsInv
  <2> SUFFICES ASSUME Init PROVE AcksInv /\ PutsInv
    OBVIOUS
  <2>1. Elements(<<>>) = {}
    BY DEF Elements
  <2>2. Packets = {}
    BY <2>1 DEF Init, Packets, PacketsOf
  <2>3. Requests = {} /\ host.routes = {}
    BY <2>1 DEF Init, Requests, Asked, NoSerial
  <2> QED  BY <2>2, <2>3 DEF AcksInv, PutsInv
<1>2. IInv /\ IInv' /\ AcksInv /\ PutsInv /\ [Next]_vars => AcksInv' /\ PutsInv'
  BY AcksStep, PutsStep
<1>3. AcksInv /\ PutsInv => RoutesArePaths
  BY DEF AcksInv, PutsInv, AckOk, RoutesArePaths
<1> QED  BY <1>1, <1>2, <1>3, Invariance, PTL DEF Spec

-----------------------------------------------------------------------------
(* What at most one event, or message, of a queue is about.                *)

One(q, S) == \A i, j \in DOMAIN q : q[i] \in S /\ q[j] \in S => i = j
NoneOf(q, S) == \A i \in DOMAIN q : q[i] \notin S

LEMMA TailOne ==
  ASSUME NEW T, NEW q \in Seq(T), q # <<>>, NEW S
  PROVE  /\ One(q, S) => One(Tail(q), S)
         /\ NoneOf(q, S) => NoneOf(Tail(q), S)
         /\ One(q, S) /\ Head(q) \in S => NoneOf(Tail(q), S)
         /\ NoneOf(q, S) => Head(q) \notin S
<1>1. Len(q) \in Nat \ {0} /\ DOMAIN q = 1 .. Len(q) /\ Head(q) = q[1]
  BY LenProperties, EmptySeq, HeadTailProperties
<1>2. /\ Tail(q) \in Seq(T) /\ Len(Tail(q)) = Len(q) - 1
      /\ \A i \in 1 .. Len(Tail(q)) : Tail(q)[i] = q[i + 1]
  BY HeadTailProperties
<1>3. DOMAIN Tail(q) = 1 .. Len(q) - 1
  BY <1>1, <1>2, LenProperties
<1> QED  BY <1>1, <1>2, <1>3 DEF One, NoneOf

LEMMA ConcatOne ==
  ASSUME NEW T, NEW q \in Seq(T), NEW r \in Seq(T), NEW S
  PROVE  /\ NoneOf(q, S) /\ NoneOf(r, S) => NoneOf(q \o r, S)
         /\ One(q, S) /\ NoneOf(r, S) => One(q \o r, S)
         /\ NoneOf(q, S) /\ One(r, S) => One(q \o r, S)
<1>1. /\ Len(q) \in Nat /\ Len(r) \in Nat
      /\ DOMAIN q = 1 .. Len(q) /\ DOMAIN r = 1 .. Len(r)
  BY LenProperties
<1>2. PICK t : t = q \o r
  OBVIOUS
<1>3. /\ t \in Seq(T) /\ Len(t) = Len(q) + Len(r)
      /\ \A i \in 1 .. Len(q) + Len(r) : t[i] = IF i <= Len(q) THEN q[i] ELSE r[i - Len(q)]
  BY <1>2, ConcatProperties
<1>4. DOMAIN t = 1 .. Len(q) + Len(r)
  BY <1>3, LenProperties
<1>5. \A i \in DOMAIN t : \/ i \in DOMAIN q /\ t[i] = q[i]
                          \/ i - Len(q) \in DOMAIN r /\ t[i] = r[i - Len(q)]
  BY <1>1, <1>3, <1>4
<1>6. NoneOf(q, S) /\ NoneOf(r, S) => NoneOf(t, S)
  BY <1>5 DEF NoneOf
<1>7. One(q, S) /\ NoneOf(r, S) => One(t, S)
  BY <1>5 DEF NoneOf, One
<1>8. NoneOf(q, S) /\ One(r, S) => One(t, S)
  <2> SUFFICES ASSUME NoneOf(q, S), One(r, S), NEW i \in DOMAIN t, NEW j \in DOMAIN t,
                      t[i] \in S, t[j] \in S
               PROVE  i = j
    BY DEF One
  <2>1. /\ i - Len(q) \in DOMAIN r /\ t[i] = r[i - Len(q)]
        /\ j - Len(q) \in DOMAIN r /\ t[j] = r[j - Len(q)]
    BY <1>5 DEF NoneOf
  <2>2. i - Len(q) = j - Len(q)
    BY <2>1 DEF One
  <2> QED  BY <1>1, <1>4, <2>2
<1> QED  BY <1>2, <1>6, <1>7, <1>8

LEMMA SingleOne ==
  ASSUME NEW e, NEW S
  PROVE  One(<<e>>, S) /\ (e \notin S => NoneOf(<<e>>, S))
<1>1. DOMAIN <<e>> = {1} /\ <<e>>[1] = e
  OBVIOUS
<1> QED  BY <1>1 DEF One, NoneOf

LEMMA RemoveOne ==
  ASSUME NEW T, NEW q \in Seq(T), NEW i \in DOMAIN q, NEW S
  PROVE  /\ NoneOf(q, S) => NoneOf(RemoveAt(q, i), S)
         /\ One(q, S) => One(RemoveAt(q, i), S)
         /\ One(q, S) /\ q[i] \in S => NoneOf(RemoveAt(q, i), S)
<1>1. Len(q) \in Nat /\ i \in 1 .. Len(q) /\ DOMAIN q = 1 .. Len(q)
  BY LenProperties
<1>2. PICK a, b, r : a = SubSeq(q, 1, i - 1) /\ b = SubSeq(q, i + 1, Len(q)) /\ r = RemoveAt(q, i)
  OBVIOUS
<1>3. a \in Seq(T) /\ Len(a) = i - 1 /\ \A j \in 1 .. i - 1 : a[j] = q[j]
  <2>1. \A j \in 1 .. i - 1 : q[j] \in T
    BY <1>1, ElementOfSeq
  <2>2. /\ SubSeq(q, 1, i - 1) \in Seq(T)
        /\ Len(SubSeq(q, 1, i - 1)) = IF 1 <= i - 1 THEN i - 1 - 1 + 1 ELSE 0
        /\ \A j \in 1 .. i - 1 - 1 + 1 : SubSeq(q, 1, i - 1)[j] = q[1 + j - 1]
    BY <1>1, <2>1, SubSeqProperties
  <2> QED  BY <1>1, <1>2, <2>2
<1>4. b \in Seq(T) /\ Len(b) = Len(q) - i /\ \A j \in 1 .. Len(q) - i : b[j] = q[i + j]
  <2>1. \A j \in i + 1 .. Len(q) : q[j] \in T
    BY <1>1, ElementOfSeq
  <2>2. /\ SubSeq(q, i + 1, Len(q)) \in Seq(T)
        /\ Len(SubSeq(q, i + 1, Len(q))) = IF i + 1 <= Len(q) THEN Len(q) - (i + 1) + 1 ELSE 0
        /\ \A j \in 1 .. Len(q) - (i + 1) + 1 : SubSeq(q, i + 1, Len(q))[j] = q[i + 1 + j - 1]
    BY <1>1, <2>1, SubSeqProperties
  <2> QED  BY <1>1, <1>2, <2>2
<1>5. /\ r \in Seq(T) /\ Len(r) = Len(q) - 1
      /\ \A j \in 1 .. Len(q) - 1 : r[j] = IF j < i THEN q[j] ELSE q[j + 1]
  <2>1. r = a \o b
    BY <1>2 DEF RemoveAt
  <2>2. /\ r \in Seq(T) /\ Len(r) = Len(a) + Len(b)
        /\ \A j \in 1 .. Len(a) + Len(b) : r[j] = IF j <= Len(a) THEN a[j] ELSE b[j - Len(a)]
    BY <1>3, <1>4, <2>1, ConcatProperties
  <2>3. Len(a) = i - 1 /\ Len(b) = Len(q) - i /\ Len(a) + Len(b) = Len(q) - 1
    BY <1>1, <1>3, <1>4
  <2>4. ASSUME NEW j \in 1 .. Len(q) - 1
        PROVE  r[j] = IF j < i THEN q[j] ELSE q[j + 1]
    <3>1. r[j] = IF j <= i - 1 THEN a[j] ELSE b[j - (i - 1)]
      BY <2>2, <2>3
    <3>2. CASE j < i
      BY <1>1, <1>3, <3>1, <3>2
    <3>3. CASE j >= i
      <4>1. j - (i - 1) \in 1 .. Len(q) - i /\ i + (j - (i - 1)) = j + 1
        BY <1>1, <3>3
      <4>2. b[j - (i - 1)] = q[j + 1]
        BY <1>4, <4>1
      <4> QED  BY <1>1, <3>1, <3>3, <4>2
    <3> QED  BY <1>1, <3>2, <3>3
  <2> QED  BY <2>2, <2>3, <2>4
<1>6. DOMAIN r = 1 .. Len(q) - 1
  BY <1>5, LenProperties
<1>7. NoneOf(q, S) => NoneOf(r, S)
  BY <1>1, <1>5, <1>6 DEF NoneOf
<1>8. One(q, S) => One(r, S)
  <2> SUFFICES ASSUME One(q, S), NEW j \in 1 .. Len(q) - 1, NEW k \in 1 .. Len(q) - 1,
                      r[j] \in S, r[k] \in S
               PROVE  j = k
    BY <1>6 DEF One
  <2> DEFINE u == IF j < i THEN j ELSE j + 1
             v == IF k < i THEN k ELSE k + 1
  <2>1. u \in DOMAIN q /\ v \in DOMAIN q /\ q[u] \in S /\ q[v] \in S
    BY <1>1, <1>5
  <2>2. u = v
    BY <2>1 DEF One
  <2> QED  BY <1>1, <2>2
<1>9. One(q, S) /\ q[i] \in S => NoneOf(r, S)
  <2> SUFFICES ASSUME One(q, S), q[i] \in S, NEW j \in 1 .. Len(q) - 1, r[j] \in S
               PROVE  FALSE
    BY <1>6 DEF NoneOf
  <2> DEFINE u == IF j < i THEN j ELSE j + 1
  <2>1. u \in DOMAIN q /\ q[u] \in S /\ u # i
    BY <1>1, <1>5
  <2> QED  BY <2>1 DEF One
<1> QED  BY <1>2, <1>7, <1>8, <1>9

LEMMA ReplaceOne ==
  ASSUME NEW T, NEW q \in Seq(T), NEW i \in DOMAIN q, NEW e, NEW S, e \in S => q[i] \in S
  PROVE  /\ NoneOf(q, S) => NoneOf(ReplaceAt(q, i, e), S)
         /\ One(q, S) => One(ReplaceAt(q, i, e), S)
         /\ One(q, S) /\ q[i] \in S /\ e \notin S => NoneOf(ReplaceAt(q, i, e), S)
<1>1. /\ DOMAIN ReplaceAt(q, i, e) = DOMAIN q
      /\ \A j \in DOMAIN q : ReplaceAt(q, i, e)[j] = IF j = i THEN e ELSE q[j]
  BY DEF ReplaceAt
<1> QED  BY <1>1 DEF One, NoneOf

-----------------------------------------------------------------------------
(* Each packet the queue hands over is answered once.                      *)

\* What is about the packet that is being sent: the event that has it sent,
\* the answers to it, and the message that waits for one.
ReadyEvents == [ev : {"ready"}, pkt : {NULL}]
Own == [ev : {"ready", "sent", "timeout"}, pkt : RawPacket \cup {NULL}]
Open == {m \in [pkt : RawPacket, left : SUBSET Node, sent : Nat, timeouts : Nat] :
  m.pkt.forward # Broadcast /\ m.sent = 0 /\ m.timeouts = 0}

\* With the bus b, the messages m, the state s and the queue q: there is at most
\* one of these, none when the node is ready, and a packet behind each event
\* that has one sent, which needs no answer when the node will not wait for it.
Fine(b, m, s, q) ==
  /\ One(b, Own) /\ One(m, Open) /\ (NoneOf(b, Own) \/ NoneOf(m, Open))
  /\ s = "READY" => NoneOf(b, Own) /\ NoneOf(m, Open)
  /\ ~NoneOf(b, ReadyEvents) =>
       q # <<>> /\ (s = "BROADCAST" => Head(q).forward = Broadcast)

LEMMA ReadyIsOwn ==
  /\ ReadyEvents \subseteq Own
  /\ \A b : NoneOf(b, Own) => NoneOf(b, ReadyEvents)
<1>1. ReadyEvents \subseteq Own
  BY DEF ReadyEvents, Own
<1> QED  BY <1>1 DEF NoneOf

\* An event that is about something else is handled, or comes.
LEMMA FineTail ==
  ASSUME NEW T, NEW b \in Seq(T), b # <<>>, NEW m, NEW s, NEW q, Fine(b, m, s, q)
  PROVE  Fine(Tail(b), m, s, q)
<1>1. ~NoneOf(Tail(b), ReadyEvents) => ~NoneOf(b, ReadyEvents)
  BY TailOne
<1>2. /\ One(b, Own) => One(Tail(b), Own)
      /\ NoneOf(b, Own) => NoneOf(Tail(b), Own)
  BY TailOne
<1> QED  BY <1>1, <1>2 DEF Fine

LEMMA FineOther ==
  ASSUME NEW T, NEW b \in Seq(T), NEW r \in Seq(T), NoneOf(r, Own), NEW m, NEW s, NEW q,
         Fine(b, m, s, q)
  PROVE  Fine(b \o r, m, s, q)
<1>1. NoneOf(r, ReadyEvents)
  BY ReadyIsOwn
<1>2. NoneOf(b, ReadyEvents) => NoneOf(b \o r, ReadyEvents)
  BY <1>1, ConcatOne
<1>3. /\ One(b, Own) => One(b \o r, Own)
      /\ NoneOf(b, Own) => NoneOf(b \o r, Own)
  BY ConcatOne
<1> QED  BY <1>2, <1>3 DEF Fine

\* The queue grows, or is replaced by a broadcast.
LEMMA FineQueue ==
  ASSUME NEW b, NEW m, NEW s, NEW q, NEW r, Fine(b, m, s, q),
         q # <<>> => r # <<>> /\ (Head(r) = Head(q) \/ Head(r).forward = Broadcast)
  PROVE  Fine(b, m, s, r)
  BY DEF Fine

\* An answer is handled: nothing else is under way.
LEMMA FineAnswered ==
  ASSUME NEW T, NEW b \in Seq(T), b # <<>>, Head(b) \in Own, NEW m, NEW s, NEW q, Fine(b, m, s, q)
  PROVE  \A t, r : Fine(Tail(b), m, t, r)
<1>1. NoneOf(Tail(b), Own) /\ ~NoneOf(b, Own)
  BY TailOne DEF Fine
<1>2. NoneOf(m, Open) /\ One(m, Open)
  BY <1>1 DEF Fine
<1>3. NoneOf(Tail(b), ReadyEvents)
  BY <1>1, ReadyIsOwn
<1>4. One(Tail(b), Own)
  BY <1>1 DEF One, NoneOf
<1> QED  BY <1>1, <1>2, <1>3, <1>4 DEF Fine

\* A packet is handed to the MAC layer.
LEMMA FineSent ==
  ASSUME NEW T, NEW b \in Seq(T), b # <<>>, Head(b) \in ReadyEvents,
         NEW U, NEW m \in Seq(U), NEW x \in U, NEW s, NEW q, Fine(b, m, s, q),
         x \in Open => Head(q).forward # Broadcast
  PROVE  \A r : Fine(Tail(b), Append(m, x), IF s = "BROADCAST" THEN "READY" ELSE s, r)
<1>1. Head(b) \in Own
  BY ReadyIsOwn
<1>2. NoneOf(Tail(b), Own) /\ ~NoneOf(b, Own) /\ ~NoneOf(b, ReadyEvents)
  BY <1>1, TailOne DEF Fine
<1>3. NoneOf(m, Open) /\ s # "READY" /\ (s = "BROADCAST" => x \notin Open)
  BY <1>2 DEF Fine
<1>4. NoneOf(Tail(b), ReadyEvents)
  BY <1>2, ReadyIsOwn
<1>5. One(Tail(b), Own)
  BY <1>2 DEF One, NoneOf
<1>6. PICK c : c = <<x>>
  OBVIOUS
<1>7. One(Append(m, x), Open) /\ (x \notin Open => NoneOf(Append(m, x), Open))
  <2>1. Append(m, x) = m \o c /\ c \in Seq(U)
    BY <1>6, AppendIsConcat
  <2>2. One(c, Open) /\ (x \notin Open => NoneOf(c, Open))
    BY <1>6, SingleOne
  <2>3. One(m \o c, Open)
    BY <1>3, <2>1, <2>2, ConcatOne, Zenon
  <2>4. x \notin Open => NoneOf(m \o c, Open)
    BY <1>3, <2>1, <2>2, ConcatOne, Zenon
  <2> QED  BY <2>1, <2>3, <2>4
<1> QED  BY <1>2, <1>3, <1>4, <1>5, <1>7 DEF Fine

\* The MAC layer delivers a message: it waits for an answer as before.
LEMMA FineDelivered ==
  ASSUME NEW b, NEW T, NEW m \in Seq(T), NEW i \in DOMAIN m, NEW x, x \in Open => m[i] \in Open,
         NEW s, NEW q, Fine(b, m, s, q), NEW l, l = RemoveAt(m, i) \/ l = ReplaceAt(m, i, x)
  PROVE  Fine(b, l, s, q)
<1>1. (One(m, Open) => One(l, Open)) /\ (NoneOf(m, Open) => NoneOf(l, Open))
  <2>1. CASE l = RemoveAt(m, i)
    BY <2>1, RemoveOne
  <2>2. CASE l = ReplaceAt(m, i, x)
    BY <2>2, ReplaceOne
  <2> QED  BY <2>1, <2>2
<1> QED  BY <1>1 DEF Fine

\* A message that is answered no more is added.
LEMMA FineRepeated ==
  ASSUME NEW b, NEW T, NEW m \in Seq(T), NEW x \in T, x \notin Open, NEW s, NEW q, Fine(b, m, s, q)
  PROVE  Fine(b, Append(m, x), s, q)
<1>1. PICK c : c = <<x>>
  OBVIOUS
<1>2. Append(m, x) = m \o c /\ c \in Seq(T) /\ NoneOf(c, Open)
  BY <1>1, AppendIsConcat, SingleOne
<1>3. /\ One(m, Open) => One(Append(m, x), Open)
      /\ NoneOf(m, Open) => NoneOf(Append(m, x), Open)
  BY <1>2, ConcatOne
<1> QED  BY <1>3 DEF Fine

\* The MAC layer answers.
LEMMA FineAnswer ==
  ASSUME NEW T, NEW b \in Seq(T), NEW e \in T, e \notin ReadyEvents,
         NEW U, NEW m \in Seq(U), NEW i \in DOMAIN m, m[i] \in Open, NEW x, x \notin Open,
         NEW s, NEW q, Fine(b, m, s, q), NEW l, l = RemoveAt(m, i) \/ l = ReplaceAt(m, i, x)
  PROVE  Fine(b \o <<e>>, l, s, q)
<1>1. One(m, Open) /\ ~NoneOf(m, Open) /\ NoneOf(b, Own) /\ s # "READY"
  BY DEF Fine, NoneOf
<1>2. NoneOf(l, Open)
  <2>1. CASE l = RemoveAt(m, i)
    BY <1>1, <2>1, RemoveOne
  <2>2. CASE l = ReplaceAt(m, i, x)
    BY <1>1, <2>2, ReplaceOne
  <2> QED  BY <2>1, <2>2
<1>3. <<e>> \in Seq(T) /\ One(<<e>>, Own) /\ NoneOf(<<e>>, ReadyEvents)
  BY SingleOne
<1>4. One(b \o <<e>>, Own)
  BY <1>1, <1>3, ConcatOne
<1>5. NoneOf(b \o <<e>>, ReadyEvents)
  BY <1>1, <1>3, ReadyIsOwn, ConcatOne
<1>6. One(l, Open)
  BY <1>2 DEF One, NoneOf
<1> QED  BY <1>1, <1>2, <1>4, <1>5, <1>6 DEF Fine

\* The next packet is chosen.
LEMMA FineDispatched ==
  ASSUME NEW T, NEW b \in Seq(T), NEW e \in T, NEW m, NEW q, Fine(b, m, "READY", q),
         NEW s, s # "READY", NEW r, r # <<>>, s = "BROADCAST" => Head(r).forward = Broadcast
  PROVE  Fine(b \o <<e>>, m, s, r)
<1>1. NoneOf(b, Own) /\ NoneOf(m, Open) /\ One(m, Open)
  BY DEF Fine
<1>2. <<e>> \in Seq(T) /\ One(<<e>>, Own)
  BY SingleOne
<1>3. One(b \o <<e>>, Own)
  BY <1>1, <1>2, ConcatOne
<1> QED  BY <1>1, <1>3 DEF Fine

PopsInv == \A n \in Node : Fine(bus[n], mac[n], send_state[n], outBufferPackets[n])
FloodsInv == \A p \in Packets : Floods(p)

LEMMA FloodsStep ==
  ASSUME IInv, FloodsInv, [Next]_vars
  PROVE  FloodsInv'
<1> SUFFICES ASSUME NEW p \in Packets' PROVE Floods(p)
  BY DEF FloodsInv, Floods
<1>1. p \in Packets \/ Made(p)
  BY NextMade DEF OldOrMade
<1>2. CASE p \in Packets
  BY <1>2 DEF FloodsInv
<1>3. CASE Made(p)
  <2> QED  BY <1>3, MadeTypes DEF Made, MadeInit, Floods
<1> QED  BY <1>1, <1>2, <1>3

\* The queues keep their heads, or become a broadcast.
KeepsHeads == \A k \in Node : outBufferPackets[k] # <<>> =>
  /\ outBufferPackets'[k] # <<>>
  /\ \/ Head(outBufferPackets'[k]) = Head(outBufferPackets[k])
     \/ Head(outBufferPackets'[k]).forward = Broadcast

LEMMA ConcatHead ==
  ASSUME NEW T, NEW q \in Seq(T), q # <<>>, NEW r \in Seq(T)
  PROVE  q \o r # <<>> /\ Head(q \o r) = Head(q)
<1>1. Len(q) \in Nat \ {0} /\ Len(r) \in Nat /\ Head(q) = q[1]
  BY LenProperties, EmptySeq, HeadTailProperties
<1>2. PICK t : t = q \o r
  OBVIOUS
<1>3. t \in Seq(T) /\ Len(t) = Len(q) + Len(r) /\ t[1] = q[1]
  BY <1>1, <1>2, ConcatProperties
<1>4. t # <<>> /\ Head(t) = t[1]
  BY <1>1, <1>3, EmptySeq, HeadTailProperties
<1> QED  BY <1>1, <1>2, <1>3, <1>4

LEMMA EnqueueKeepsHeads ==
  ASSUME IInv, NEW n \in Node, NEW T, NEW r \in Seq(T), Enqueue(n, r)
  PROVE  KeepsHeads
<1> DEFINE S == From(n) \cup T
<1>1. outBufferPackets[n] \in Seq(S) /\ r \in Seq(S)
  <2>1. outBufferPackets[n] \in Seq(From(n)) /\ From(n) \subseteq S /\ T \subseteq S
    BY DEF IInv, Queues
  <2> HIDE DEF S
  <2> QED  BY <2>1, SeqMonotonic
<1> HIDE DEF S
<1>2. /\ \A k \in Node : k # n => outBufferPackets'[k] = outBufferPackets[k]
      /\ outBufferPackets'[n] = outBufferPackets[n] \o r
  BY DEF Enqueue, IInv, Queues
<1>3. outBufferPackets[n] # <<>> =>
        /\ outBufferPackets'[n] # <<>>
        /\ Head(outBufferPackets'[n]) = Head(outBufferPackets[n])
  BY <1>1, <1>2, ConcatHead
<1> QED  BY <1>2, <1>3 DEF KeepsHeads

LEMMA EnqueueOneKeepsHeads ==
  ASSUME IInv, NEW n \in Node, NEW p, Enqueue(n, <<p>>)
  PROVE  KeepsHeads
<1>1. <<p>> \in Seq({p})
  OBVIOUS
<1> QED  BY <1>1, EnqueueKeepsHeads

LEMMA DisconnectKeepsHeads ==
  ASSUME IInv, NEW n \in Node, RtDisconnect(n)
  PROVE  KeepsHeads
<1>1. /\ \A k \in Node : k # n => outBufferPackets'[k] = outBufferPackets[k]
      /\ outBufferPackets'[n] = <<ConnectionLost(n)>>
  BY DEF RtDisconnect, IInv, Queues
<1>2. Head(<<ConnectionLost(n)>>).forward = Broadcast /\ <<ConnectionLost(n)>> # <<>>
  <2>1. PICK c : c = ConnectionLost(n)
    OBVIOUS
  <2>2. c.forward = Broadcast
    BY <2>1 DEF ConnectionLost, Packet
  <2>3. Head(<<c>>) = c /\ <<c>> # <<>>
    OBVIOUS
  <2> QED  BY <2>1, <2>2, <2>3
<1> QED  BY <1>1, <1>2 DEF KeepsHeads

LEMMA HandledTail ==
  ASSUME IInv, NEW n \in Node, bus[n] # <<>>, Handled(n, <<>>)
  PROVE  /\ \A k \in Node : k # n => bus'[k] = bus[k]
         /\ bus'[n] = Tail(bus[n])
         /\ bus[n] \in Seq(EventsOf(n))
<1>1. bus[n] \in Seq(EventsOf(n))
  BY DEF IInv, Buses
<1>2. Tail(bus[n]) \o <<>> = Tail(bus[n])
  BY <1>1, TailIsSeq, ConcatEmptySeq
<1> QED  BY <1>1, <1>2 DEF Handled, IInv, Buses

LEMMA FireAdds ==
  ASSUME IInv, NEW n \in Node, NEW r, Fire(n, r)
  PROVE  /\ \A k \in Node : k # n => bus'[k] = bus[k]
         /\ bus'[n] = bus[n] \o r
         /\ bus[n] \in Seq(EventsOf(n))
  BY DEF Fire, IInv, Buses

\* A handler that does not hand over a packet and is given no answer.
LEMMA HandledPops ==
  ASSUME IInv, PopsInv, NEW n \in Node, bus[n] # <<>>, Handled(n, <<>>), KeepsHeads,
         UNCHANGED <<mac, send_state>>
  PROVE  PopsInv'
<1>1. /\ \A k \in Node : k # n => bus'[k] = bus[k]
      /\ bus'[n] = Tail(bus[n]) /\ bus[n] \in Seq(EventsOf(n))
  BY HandledTail
<1>2. Fine(bus'[n], mac[n], send_state[n], outBufferPackets[n])
  BY <1>1, FineTail DEF PopsInv
<1>3. \A k \in Node : Fine(bus'[k], mac[k], send_state[k], outBufferPackets[k])
  BY <1>1, <1>2 DEF PopsInv
<1>4. \A k \in Node : Fine(bus'[k], mac'[k], send_state'[k], outBufferPackets'[k])
  BY <1>3, FineQueue DEF KeepsHeads
<1> QED  BY <1>4 DEF PopsInv

LEMMA SameKeepsHeads ==
  ASSUME UNCHANGED outBufferPackets
  PROVE  KeepsHeads
  BY DEF KeepsHeads

LEMMA ReceivePops ==
  ASSUME IInv, PopsInv, NEW n \in Node,
         RecvIgnored(n) \/ RecvRtInit(n) \/ RecvData(n) \/ RecvCommand(n) \/ RecvRtAck(n)
           \/ RecvJoin(n) \/ RecvLeave(n) \/ RecvConnectionLost(n)
  PROVE  PopsInv'
<1>1. bus[n] # <<>> /\ Handled(n, <<>>) /\ UNCHANGED <<mac, send_state>>
  BY DEF RecvIgnored, RecvRtInit, RecvData, RecvCommand, RecvRtAck, RelayRtAck,
     RecvJoin, RecvLeave, RecvConnectionLost, Accepted, At, sendVars
<1>2. KeepsHeads
  <2>1. CASE RecvRtInit(n)
    <3> DEFINE a == RtAck(n, Received(n).source, Received(n).counter, <<n>>, n)
               b == RtInit(n, Received(n).counter, Received(n).depth + 1)
    <3>1. Enqueue(n, <<a, b>>)
      BY <2>1 DEF RecvRtInit
    <3> HIDE DEF a, b
    <3>2. <<a, b>> \in Seq({a, b})
      OBVIOUS
    <3> QED  BY <3>1, <3>2, EnqueueKeepsHeads
  <2>2. CASE RecvConnectionLost(n)
    BY <2>2, DisconnectKeepsHeads DEF RecvConnectionLost
  <2>3. CASE RecvIgnored(n) \/ RecvData(n) \/ RecvCommand(n) \/ RecvRtAck(n)
               \/ RecvJoin(n) \/ RecvLeave(n)
    <3>1. UNCHANGED outBufferPackets \/ \E p : Enqueue(n, <<p>>)
      BY <2>3 DEF RecvIgnored, RecvData, RecvCommand, RecvRtAck, RelayRtAck, RecvJoin, RecvLeave, sendVars
    <3> QED  BY <3>1, EnqueueOneKeepsHeads, SameKeepsHeads
  <2> QED  BY <2>1, <2>2, <2>3
<1> QED  BY <1>1, <1>2, HandledPops

\* The handlers of what is about a packet of the node itself.
LEMMA OwnEvent ==
  ASSUME IInv, NEW n \in Node, bus[n] # <<>>
  PROVE  /\ Head(bus[n]).ev = "ready" => Head(bus[n]) \in ReadyEvents
         /\ Head(bus[n]).ev \in {"ready", "sent", "timeout"} => Head(bus[n]) \in Own
<1>1. Head(bus[n]) \in EventsOf(n)
  BY HeadEvent DEF IInv
<1>2. Stamped \subseteq RawPacket
  BY DEF Stamped
<1> QED  BY <1>1, <1>2 DEF EventsOf, Own, ReadyEvents

LEMMA AnsweredPops ==
  ASSUME IInv, PopsInv, NEW n \in Node, PacketSent(n) \/ PacketTimeout(n)
  PROVE  PopsInv'
<1>1. /\ bus[n] # <<>> /\ Head(bus[n]).ev \in {"sent", "timeout"} /\ Handled(n, <<>>)
      /\ UNCHANGED mac
  BY DEF PacketSent, PacketTimeout, At
<1>2. \A k \in Node : k # n => /\ send_state'[k] = send_state[k]
                              /\ outBufferPackets'[k] = outBufferPackets[k]
  BY DEF PacketSent, PacketTimeout, RtDisconnect, SendLeave, Enqueue, IInv, SendInv, Queues
<1>3. /\ \A k \in Node : k # n => bus'[k] = bus[k]
      /\ bus'[n] = Tail(bus[n]) /\ bus[n] \in Seq(EventsOf(n))
  BY <1>1, HandledTail
<1>4. Head(bus[n]) \in Own
  BY <1>1, OwnEvent
<1>5. \A t, r : Fine(Tail(bus[n]), mac[n], t, r)
  BY <1>1, <1>3, <1>4, FineAnswered DEF PopsInv
<1>6. \A k \in Node : Fine(bus'[k], mac'[k], send_state'[k], outBufferPackets'[k])
  BY <1>1, <1>2, <1>3, <1>5 DEF PopsInv
<1> QED  BY <1>6 DEF PopsInv

LEMMA SendToMacPops ==
  ASSUME IInv, PopsInv, NEW n \in Node, SendToMac(n)
  PROVE  PopsInv'
<1> DEFINE p == Head(outBufferPackets[n])
           x == MacMessage(n, p)
           s == IF send_state[n] = "BROADCAST" THEN "READY" ELSE send_state[n]
<1>1. /\ bus[n] # <<>> /\ Head(bus[n]).ev = "ready" /\ Handled(n, <<>>)
      /\ outBufferPackets[n] # <<>>
      /\ mac' = [mac EXCEPT ![n] = Append(@, x)]
      /\ outBufferPackets' = [outBufferPackets EXCEPT ![n] = Tail(@)]
      /\ send_state' = [send_state EXCEPT ![n] = IF @ = "BROADCAST" THEN "READY" ELSE @]
  BY DEF SendToMac, At
<1>2. x \in Open => p.forward # Broadcast
  BY DEF Open, MacMessage
<1>3. /\ \A k \in Node : k # n => bus'[k] = bus[k]
      /\ bus'[n] = Tail(bus[n]) /\ bus[n] \in Seq(EventsOf(n))
  BY <1>1, HandledTail
<1>4. Head(bus[n]) \in ReadyEvents
  BY <1>1, OwnEvent
<1> DEFINE U == Message \cup {x}
<1>5. mac[n] \in Seq(U) /\ x \in U
  <2>1. mac[n] \in Seq(Message) /\ Message \subseteq U
    BY DEF IInv, Messages
  <2> HIDE DEF U
  <2>2. mac[n] \in Seq(U)
    BY <2>1, SeqMonotonic
  <2> QED  BY <2>2 DEF U
<1> HIDE DEF x, U
<1>6. \A r : Fine(Tail(bus[n]), Append(mac[n], x), s, r)
  BY <1>1, <1>2, <1>3, <1>4, <1>5, FineSent DEF PopsInv
<1>7. mac'[n] = Append(mac[n], x) /\ send_state'[n] = s
  BY <1>1 DEF IInv, Messages, SendInv
<1>8. \A k \in Node : k # n => /\ mac'[k] = mac[k] /\ send_state'[k] = send_state[k]
                              /\ outBufferPackets'[k] = outBufferPackets[k]
  BY <1>1 DEF IInv, Messages, SendInv, Queues
<1> HIDE DEF s, p
<1>9. \A k \in Node : Fine(bus'[k], mac'[k], send_state'[k], outBufferPackets'[k])
  BY <1>3, <1>6, <1>7, <1>8 DEF PopsInv
<1> QED  BY <1>9 DEF PopsInv

\* The MAC layer, of messages of one fragment.
LEMMA MacPops ==
  ASSUME IInv, PopsInv, Frags = 1, NEW n \in Node, MacStep(n)
  PROVE  PopsInv'
<1>1. UNCHANGED <<send_state, outBufferPackets>>
  BY DEF MacStep, MacDeliver, MacRepeat, MacSent, MacTimeout, sendVars
<1>2. mac[n] \in Seq(Message)
  BY DEF IInv, Messages
<1>3. ASSUME NEW i \in DOMAIN mac[n], NEW x, MacBecomes(n, i, x)
      PROVE  /\ \A k \in Node : k # n => mac'[k] = mac[k]
             /\ mac'[n] = RemoveAt(mac[n], i) \/ mac'[n] = ReplaceAt(mac[n], i, x)
  BY <1>3 DEF MacBecomes, IInv, Messages
<1>4. ASSUME NEW i \in DOMAIN mac[n], NEW x, MacBecomes(n, i, x), mac[n][i] \in Open, x \notin Open,
             NEW e, Fire(n, <<e>>), e.ev # "ready"
      PROVE  PopsInv'
  <2>1. e \notin ReadyEvents
    BY <1>4 DEF ReadyEvents
  <2>2. /\ \A k \in Node : k # n => mac'[k] = mac[k]
        /\ mac'[n] = RemoveAt(mac[n], i) \/ mac'[n] = ReplaceAt(mac[n], i, x)
    BY <1>3, <1>4
  <2>3. /\ \A k \in Node : k # n => bus'[k] = bus[k]
        /\ bus'[n] = bus[n] \o <<e>> /\ bus[n] \in Seq(EventsOf(n))
    BY <1>4, FireAdds
  <2> DEFINE T == EventsOf(n) \cup {e}
  <2>4. bus[n] \in Seq(T) /\ e \in T
    <3>1. EventsOf(n) \subseteq T
      OBVIOUS
    <3> HIDE DEF T
    <3>2. bus[n] \in Seq(T)
      BY <2>3, <3>1, SeqMonotonic
    <3> QED  BY <3>2 DEF T
  <2> HIDE DEF T
  <2>5. Fine(bus[n], mac[n], send_state[n], outBufferPackets[n])
    BY DEF PopsInv
  <2>6. Fine(bus[n] \o <<e>>, mac'[n], send_state[n], outBufferPackets[n])
    BY <1>2, <1>4, <2>1, <2>2, <2>4, <2>5, FineAnswer
  <2>7. \A k \in Node : Fine(bus'[k], mac'[k], send_state'[k], outBufferPackets'[k])
    BY <1>1, <2>2, <2>3, <2>6 DEF PopsInv
  <2> QED  BY <2>7 DEF PopsInv
<1>5. CASE MacDeliver(n)
  <2>1. PICK i \in DOMAIN mac[n] : \E m \in mac[n][i].left :
          /\ Fire(m, <<EventOf("recv", mac[n][i].pkt)>>)
          /\ MacBecomes(n, i, [mac[n][i] EXCEPT !.left = @ \ {m}])
    BY <1>5 DEF MacDeliver
  <2>2. PICK m \in mac[n][i].left :
          /\ Fire(m, <<EventOf("recv", mac[n][i].pkt)>>)
          /\ MacBecomes(n, i, [mac[n][i] EXCEPT !.left = @ \ {m}])
    BY <2>1
  <2>3. PICK x, e : /\ x = [mac[n][i] EXCEPT !.left = @ \ {m}]
                    /\ e = EventOf("recv", mac[n][i].pkt)
    OBVIOUS
  <2>4. mac[n][i] \in Message /\ m \in Node
    BY InMac DEF Message
  <2>5. x \in Open => mac[n][i] \in Open
    <3>1. Stamped \subseteq RawPacket
      BY DEF Stamped
    <3> QED  BY <2>3, <2>4, <3>1 DEF Open, Message
  <2>6. e \notin Own
    BY <2>3 DEF EventOf, Own
  <2>7. /\ \A k \in Node : k # n => mac'[k] = mac[k]
        /\ mac'[n] = RemoveAt(mac[n], i) \/ mac'[n] = ReplaceAt(mac[n], i, x)
    BY <1>3, <2>2, <2>3
  <2>8. /\ \A k \in Node : k # m => bus'[k] = bus[k]
        /\ bus'[m] = bus[m] \o <<e>> /\ bus[m] \in Seq(EventsOf(m))
    BY <2>2, <2>3, <2>4, FireAdds
  <2>9. \A k \in Node : Fine(bus[k], mac'[k], send_state[k], outBufferPackets[k])
    <3>1. Fine(bus[n], mac[n], send_state[n], outBufferPackets[n])
      BY DEF PopsInv
    <3>2. Fine(bus[n], mac'[n], send_state[n], outBufferPackets[n])
      BY <1>2, <2>5, <2>7, <3>1, FineDelivered
    <3> QED  BY <2>7, <3>2 DEF PopsInv
  <2> DEFINE T == EventsOf(m) \cup {e}
  <2>10. bus[m] \in Seq(T) /\ <<e>> \in Seq(T) /\ NoneOf(<<e>>, Own)
    <3>1. EventsOf(m) \subseteq T /\ e \in T
      OBVIOUS
    <3> HIDE DEF T
    <3>2. bus[m] \in Seq(T) /\ <<e>> \in Seq(T)
      BY <2>8, <3>1, SeqMonotonic
    <3> QED  BY <2>6, <3>2, SingleOne
  <2> HIDE DEF T
  <2>11. Fine(bus[m] \o <<e>>, mac'[m], send_state[m], outBufferPackets[m])
    BY <2>4, <2>9, <2>10, FineOther
  <2>12. \A k \in Node : Fine(bus'[k], mac'[k], send_state'[k], outBufferPackets'[k])
    BY <1>1, <2>8, <2>9, <2>11
  <2> QED  BY <2>12 DEF PopsInv
<1>6. CASE MacSent(n)
  <2>1. PICK i \in DOMAIN mac[n] :
          /\ mac[n][i].pkt.forward # Broadcast /\ mac[n][i].sent = 0 /\ mac[n][i].timeouts = 0
          /\ MacBecomes(n, i, [mac[n][i] EXCEPT !.sent = 1])
          /\ Fire(n, <<EventOf("sent", mac[n][i].pkt)>>)
    BY <1>6 DEF MacSent
  <2>2. PICK x, e : x = [mac[n][i] EXCEPT !.sent = 1] /\ e = EventOf("sent", mac[n][i].pkt)
    OBVIOUS
  <2>3. mac[n][i] \in Message /\ Stamped \subseteq RawPacket
    BY InMac DEF Stamped
  <2>4. mac[n][i] \in Open /\ x \notin Open /\ e.ev # "ready"
    BY <2>1, <2>2, <2>3 DEF Open, Message, EventOf
  <2> QED  BY <1>4, <2>1, <2>2, <2>4
<1>7. CASE MacTimeout(n)
  <2>1. PICK i \in DOMAIN mac[n] :
          /\ mac[n][i].pkt.forward # Broadcast /\ mac[n][i].sent = 0 /\ mac[n][i].timeouts < Frags
          /\ MacBecomes(n, i, [mac[n][i] EXCEPT !.timeouts = @ + 1])
          /\ Fire(n, <<EventOf("timeout", mac[n][i].pkt)>>)
    BY <1>7 DEF MacTimeout
  <2>2. PICK x, e : /\ x = [mac[n][i] EXCEPT !.timeouts = @ + 1]
                    /\ e = EventOf("timeout", mac[n][i].pkt)
    OBVIOUS
  <2>3. mac[n][i] \in Message /\ Stamped \subseteq RawPacket
    BY InMac DEF Stamped
  <2>4. mac[n][i].timeouts = 0
    BY <2>1, <2>3 DEF Message
  <2>5. mac[n][i] \in Open /\ x \notin Open /\ e.ev # "ready"
    BY <2>1, <2>2, <2>3, <2>4 DEF Open, Message, EventOf
  <2> QED  BY <1>4, <2>1, <2>2, <2>5
<1>8. CASE MacRepeat(n)
  <2>1. PICK m \in Elements(mac[n]) :
          /\ Unanswered(m) \in Message /\ Unanswered(m).sent = 1
          /\ mac'[n] = Append(mac[n], Unanswered(m))
    BY <1>8, MacRepeats
  <2>2. UNCHANGED bus /\ \A k \in Node : k # n => mac'[k] = mac[k]
    BY <1>8, MacRepeats
  <2>3. Unanswered(m) \notin Open
    BY <2>1 DEF Open
  <2>4. Fine(bus[n], mac'[n], send_state[n], outBufferPackets[n])
    BY <1>2, <2>1, <2>3, FineRepeated DEF PopsInv
  <2>5. \A k \in Node : Fine(bus'[k], mac'[k], send_state'[k], outBufferPackets'[k])
    BY <1>1, <2>2, <2>4 DEF PopsInv
  <2> QED  BY <2>5 DEF PopsInv
<1> QED  BY <1>5, <1>6, <1>7, <1>8 DEF MacStep

\* A node that loses power starts anew, and gets no answer of before.
LEMMA RestartPops ==
  ASSUME IInv, PopsInv, NEW n \in Node, Restart(n)
  PROVE  PopsInv'
<1> DEFINE silent == [i \in DOMAIN mac[n] |-> Unanswered(mac[n][i])]
<1>1. /\ send_state' = [send_state EXCEPT ![n] = "READY"]
      /\ outBufferPackets' = [outBufferPackets EXCEPT ![n] = <<>>]
      /\ bus' = [bus EXCEPT ![n] = <<>>]
      /\ mac' = [mac EXCEPT ![n] = silent]
  BY DEF Restart
<1>2. NoneOf(silent, Open)
  <2>1. \A i \in DOMAIN mac[n] :
          Unanswered(mac[n][i]).sent = 1
    BY InMac DEF Message, Unanswered
  <2>2. DOMAIN silent = DOMAIN mac[n] /\ \A i \in DOMAIN mac[n] : silent[i].sent = 1
    BY <2>1
  <2> HIDE DEF silent
  <2> QED  BY <2>2 DEF NoneOf, Open
<1> HIDE DEF silent
<1>3. NoneOf(<<>>, Own) /\ NoneOf(<<>>, ReadyEvents)
  BY DEF NoneOf
<1>4. Fine(<<>>, silent, "READY", <<>>)
  BY <1>2, <1>3 DEF Fine, One, NoneOf
<1>5. \A k \in Node : Fine(bus'[k], mac'[k], send_state'[k], outBufferPackets'[k])
  BY <1>1, <1>4 DEF PopsInv, IInv, Messages, SendInv, Buses, Queues
<1> QED  BY <1>5 DEF PopsInv

\* A node that will not wait for an answer has a broadcast to send.
LEMMA StateForFlood ==
  ASSUME NEW n \in Node, NEW p, IsPacket(p), p.source = n, Floods(p),
         n # Sink /\ p.type = "JOIN" /\ ~rt_formed[n] => p.forward = Broadcast
  PROVE  /\ StateFor(n, p) # "READY"
         /\ StateFor(n, p) = "BROADCAST" => p.forward = Broadcast
<1>1. p.type \in Type
  BY DEF IsPacket
<1>2. CASE p.type \in {"DATA", "RT_ACK", "LEAVE"}
  BY <1>2 DEF StateFor
<1>3. CASE p.type = "COMMAND"
  BY <1>3 DEF StateFor
<1>4. CASE p.type \in {"CONNECTION_LOST", "RT_INIT"}
  <2>1. StateFor(n, p) = "BROADCAST"
    BY <1>4 DEF StateFor
  <2> QED  BY <1>4, <2>1 DEF Floods
<1>5. CASE p.type = "JOIN"
  <2>1. StateFor(n, p) = IF rt_formed[n] THEN "SINK" ELSE "BROADCAST"
    BY <1>5 DEF StateFor
  <2>2. n # Sink
    BY <1>5 DEF IsPacket
  <2> QED  BY <1>5, <2>1, <2>2
<1> QED  BY <1>1, <1>2, <1>3, <1>4, <1>5 DEF Type

LEMMA DispatchPops ==
  ASSUME IInv, PopsInv, NEW n \in Node, NEW q, NEW fired, NEW T, fired \in Seq(T), NoneOf(fired, Own),
         Dispatch(n, q, fired), UNCHANGED mac,
         outBufferPackets[n] # <<>> => q # <<>> /\ Head(q) = Head(outBufferPackets[n]),
         q # <<>> => /\ IsPacket(Head(q)) /\ Head(q).source = n /\ Floods(Head(q))
                     /\ (n # Sink /\ Head(q).type = "JOIN" /\ ~rt_formed[n] =>
                          Head(q).forward = Broadcast)
  PROVE  PopsInv'
<1> DEFINE goes == send_state[n] = "READY" /\ q # <<>>
           S == (EventsOf(n) \cup T) \cup {Event("ready")}
           b == bus[n] \o fired
<1>1. /\ send_state' = [send_state EXCEPT ![n] = IF goes THEN StateFor(n, Head(q)) ELSE @]
      /\ outBufferPackets' = [outBufferPackets EXCEPT ![n] = q]
      /\ Fire(n, fired \o IF goes THEN <<Event("ready")>> ELSE <<>>)
  BY DEF Dispatch
<1>2. bus[n] \in Seq(S) /\ fired \in Seq(S) /\ Event("ready") \in S
  <2>1. /\ bus[n] \in Seq(EventsOf(n)) /\ EventsOf(n) \subseteq S /\ T \subseteq S
        /\ Event("ready") \in S
    BY DEF IInv, Buses
  <2> HIDE DEF S
  <2> QED  BY <2>1, SeqMonotonic
<1> HIDE DEF S
<1>3. /\ \A k \in Node : k # n => bus'[k] = bus[k]
      /\ bus'[n] = bus[n] \o (fired \o IF goes THEN <<Event("ready")>> ELSE <<>>)
  BY <1>1, FireAdds
<1>4. Fine(b, mac[n], send_state[n], outBufferPackets[n]) /\ b \in Seq(S)
  BY <1>2, FineOther, ConcatIsSeq DEF PopsInv
<1>5. Fine(bus'[n], mac[n], send_state'[n], q)
  <2>1. CASE goes
    <3>1. <<Event("ready")>> \in Seq(S)
      BY <1>2
    <3>2. bus'[n] = b \o <<Event("ready")>>
      <4>1. PICK e : e = <<Event("ready")>>
        OBVIOUS
      <4>2. bus'[n] = bus[n] \o (fired \o e)
        BY <1>3, <2>1, <4>1
      <4>3. e \in Seq(S)
        BY <3>1, <4>1
      <4>4. bus[n] \o (fired \o e) = (bus[n] \o fired) \o e
        <5>1. bus[n] \in Seq(S) /\ fired \in Seq(S)
          BY <1>2
        <5>2. \A u, v, w \in Seq(S) : (u \o v) \o w = u \o (v \o w)
          BY ConcatAssociative
        <5> QED  BY <4>3, <5>1, <5>2
      <4> QED  BY <4>1, <4>2, <4>4
    <3>3. send_state'[n] = StateFor(n, Head(q)) /\ send_state[n] = "READY" /\ q # <<>>
      BY <1>1, <2>1 DEF IInv, SendInv
    <3>4. /\ send_state'[n] # "READY"
          /\ send_state'[n] = "BROADCAST" => Head(q).forward = Broadcast
      BY <3>3, StateForFlood
    <3> HIDE DEF b
    <3>5. Fine(b, mac[n], "READY", outBufferPackets[n])
      BY <1>4, <3>3
    <3>6. Fine(b \o <<Event("ready")>>, mac[n], send_state'[n], q)
      BY <1>2, <1>4, <3>3, <3>4, <3>5, FineDispatched
    <3> QED  BY <3>2, <3>6
  <2>2. CASE ~goes
    <3>1. bus'[n] = b
      <4>1. fired \o <<>> = fired
        BY <1>2, ConcatEmptySeq
      <4> QED  BY <1>3, <2>2, <4>1
    <3>2. send_state'[n] = send_state[n]
      BY <1>1, <2>2 DEF IInv, SendInv
    <3> HIDE DEF b
    <3> QED  BY <1>4, <3>1, <3>2, FineQueue
  <2> QED  BY <2>1, <2>2
<1>6. /\ outBufferPackets'[n] = q
      /\ \A k \in Node : k # n => /\ send_state'[k] = send_state[k]
                                 /\ outBufferPackets'[k] = outBufferPackets[k]
  BY <1>1 DEF IInv, SendInv, Queues
<1>7. \A k \in Node : Fine(bus'[k], mac'[k], send_state'[k], outBufferPackets'[k])
  BY <1>3, <1>5, <1>6 DEF PopsInv
<1> QED  BY <1>7 DEF PopsInv

\* The head of a queue.
LEMMA QueueHead ==
  ASSUME IInv, FloodsInv, NEW n \in Node, outBufferPackets[n] # <<>>
  PROVE  LET p == Head(outBufferPackets[n])
         IN p \in Elements(outBufferPackets[n]) /\ IsPacket(p) /\ p.source = n /\ Floods(p)
<1> DEFINE p == Head(outBufferPackets[n])
<1>1. outBufferPackets[n] \in Seq(From(n))
  BY DEF IInv, Queues
<1>2. p \in From(n)
  BY <1>1, TailIsSeq
<1>3. p \in Elements(outBufferPackets[n])
  <2>1. p = outBufferPackets[n][1] /\ 1 \in DOMAIN outBufferPackets[n]
    BY <1>1, HeadTailProperties, LenProperties, EmptySeq
  <2> QED  BY <2>1 DEF Elements
<1>4. Floods(p)
  BY <1>3, PacketParts DEF FloodsInv, Queued
<1> QED  BY <1>2, <1>3, <1>4 DEF From, Stamped

LEMMA FiredPops ==
  ASSUME IInv, PopsInv, NEW ev, ev \notin {"ready", "sent", "timeout"}, Fire(Sink, <<Event(ev)>>),
         UNCHANGED <<mac, send_state, outBufferPackets>>
  PROVE  PopsInv'
<1>1. PICK e : e = Event(ev)
  OBVIOUS
<1>2. e \notin Own
  BY <1>1 DEF Event, Own
<1>3. /\ \A k \in Node : k # Sink => bus'[k] = bus[k]
      /\ bus'[Sink] = bus[Sink] \o <<e>> /\ bus[Sink] \in Seq(EventsOf(Sink))
  BY <1>1, FireAdds, NodeAssumption
<1> DEFINE T == EventsOf(Sink) \cup {e}
<1>4. bus[Sink] \in Seq(T) /\ <<e>> \in Seq(T) /\ NoneOf(<<e>>, Own)
  <2>1. EventsOf(Sink) \subseteq T /\ e \in T
    OBVIOUS
  <2> HIDE DEF T
  <2>2. bus[Sink] \in Seq(T) /\ <<e>> \in Seq(T)
    BY <1>3, <2>1, SeqMonotonic
  <2> QED  BY <1>2, <2>2, SingleOne
<1> HIDE DEF T
<1>5. Fine(bus[Sink] \o <<e>>, mac[Sink], send_state[Sink], outBufferPackets[Sink])
  BY <1>4, FineOther, NodeAssumption DEF PopsInv
<1>6. \A k \in Node : Fine(bus'[k], mac'[k], send_state'[k], outBufferPackets'[k])
  BY <1>3, <1>5 DEF PopsInv
<1> QED  BY <1>6 DEF PopsInv

LEMMA IdlePops ==
  ASSUME IInv, PopsInv, FloodsInv, NothingForLostRely, IdleStep
  PROVE  PopsInv'
<1>1. CASE SerialIdleTick
  <2>1. /\ Fire(Sink, <<Event("serial_ready")>>)
        /\ UNCHANGED <<mac, send_state, outBufferPackets>>
    BY <1>1 DEF SerialIdleTick, sendVars
  <2> QED  BY <2>1, FiredPops
<1>2. CASE SinkIdleTick
  <2> DEFINE q == outBufferPackets[Sink]
  <2>1. UNCHANGED mac /\ \E fired \in {<<>>, <<Event("incr")>>} : Dispatch(Sink, q, fired)
    BY <1>2 DEF SinkIdleTick
  <2>2. PICK fired \in {<<>>, <<Event("incr")>>} : Dispatch(Sink, q, fired)
    BY <2>1
  <2>3. fired \in Seq({Event("incr")}) /\ NoneOf(fired, Own)
    <3>1. Event("incr") \notin Own
      BY DEF Event, Own
    <3>2. PICK e : e = Event("incr")
      OBVIOUS
    <3>3. <<>> \in Seq({e}) /\ <<e>> \in Seq({e})
      BY EmptyIsSeq
    <3>4. NoneOf(<<e>>, Own)
      BY <3>1, <3>2, SingleOne
    <3>5. NoneOf(<<>>, Own)
      BY DEF NoneOf
    <3> QED  BY <3>2, <3>3, <3>4, <3>5
  <2>4. q # <<>> => IsPacket(Head(q)) /\ Head(q).source = Sink /\ Floods(Head(q))
    BY QueueHead, NodeAssumption
  <2> HIDE DEF q
  <2>5. outBufferPackets[Sink] # <<>> => q # <<>> /\ Head(q) = Head(outBufferPackets[Sink])
    BY DEF q
  <2> QED  BY <2>1, <2>2, <2>3, <2>4, <2>5, DispatchPops, NodeAssumption
<1>3. CASE \E n \in Node : NodeIdleTick(n)
  <2>1. PICK n \in Node : NodeIdleTick(n)
    BY <1>3
  <2>2. PICK elapsed \in BOOLEAN :
          /\ elapsed => ~rt_formed[n]
          /\ Dispatch(n, outBufferPackets[n] \o IF elapsed THEN <<Join(n, n)>> ELSE <<>>, <<>>)
    BY <2>1 DEF NodeIdleTick
  <2>3. n \in Plant /\ UNCHANGED mac
    BY <2>1 DEF NodeIdleTick, Plant
  <2>4. PICK q, j : q = outBufferPackets[n] \o (IF elapsed THEN <<j>> ELSE <<>>) /\ j = Join(n, n)
    OBVIOUS
  <2>5. Dispatch(n, q, <<>>)
    BY <2>2, <2>4
  <2>6. elapsed => /\ IsPacket(j) /\ j.source = n /\ Floods(j) /\ j.forward = Broadcast
    <3>1. rely[n] \in Node \cup {Broadcast} /\ stored \in Nat /\ n \in Node
      BY <2>3 DEF IInv, TreeInv, CounterInv, Plant
    <3>2. ~rt_formed[n] => j.forward = Broadcast
      BY <2>4 DEF Join, Packet
    <3>3. j.source = n /\ Floods(j)
      BY <2>4 DEF Join, Packet, Floods
    <3>4. IsPacket(j)
      <4>1. j.type = "JOIN" /\ j.source = n /\ j.forward \in Node \cup {Broadcast} /\ j.origin = n
            /\ j.counter = 0 /\ j.depth = 0 /\ j.route = <<>> /\ j.body = NULL
        BY <2>4, <3>1 DEF Join, Packet
      <4>2. <<>> \in Seq(Node)
        BY EmptyIsSeq
      <4> QED  BY <2>3, <3>1, <4>1, <4>2 DEF IsPacket, Type, Plant
    <3> QED  BY <2>2, <3>2, <3>3, <3>4
  <2>7. outBufferPackets[n] # <<>> => q # <<>> /\ Head(q) = Head(outBufferPackets[n])
    <3> DEFINE r == IF elapsed THEN <<j>> ELSE <<>>
               S == From(n) \cup {j}
    <3>1. outBufferPackets[n] \in Seq(S) /\ r \in Seq(S)
      <4>1. outBufferPackets[n] \in Seq(From(n)) /\ From(n) \subseteq S /\ j \in S
        BY DEF IInv, Queues
      <4> HIDE DEF S
      <4>2. <<j>> \in Seq(S) /\ <<>> \in Seq(S)
        BY <4>1, EmptyIsSeq
      <4> QED  BY <4>1, <4>2, SeqMonotonic
    <3> HIDE DEF r, S
    <3>2. q = outBufferPackets[n] \o r
      BY <2>4 DEF r
    <3> QED  BY <3>1, <3>2, ConcatHead
  <2>8. q # <<>> => /\ IsPacket(Head(q)) /\ Head(q).source = n /\ Floods(Head(q))
                    /\ (n # Sink /\ Head(q).type = "JOIN" /\ ~rt_formed[n] =>
                          Head(q).forward = Broadcast)
    <3>1. CASE outBufferPackets[n] # <<>>
      <4>1. PICK p : p = Head(outBufferPackets[n])
        OBVIOUS
      <4>2. p \in Elements(outBufferPackets[n]) /\ IsPacket(p) /\ p.source = n /\ Floods(p)
        BY <3>1, <4>1, QueueHead
      <4>3. ~rt_formed[n] /\ p.type = "JOIN" => p.forward = Broadcast
        BY <2>3, <4>2 DEF NothingForLostRely, Plant
      <4> QED  BY <2>7, <3>1, <4>1, <4>2, <4>3
    <3>2. CASE outBufferPackets[n] = <<>> /\ elapsed
      <4>1. q = <<j>>
        BY <2>4, <3>2
      <4> QED  BY <2>6, <3>2, <4>1
    <3>3. CASE outBufferPackets[n] = <<>> /\ ~elapsed
      <4>1. q = <<>>
        BY <2>4, <3>3
      <4> QED  BY <4>1
    <3> QED  BY <3>1, <3>2, <3>3
  <2>9. NoneOf(<<>>, Own) /\ <<>> \in Seq({})
    BY EmptyIsSeq DEF NoneOf
  <2> QED  BY <2>3, <2>5, <2>7, <2>8, <2>9, DispatchPops
<1> QED  BY <1>1, <1>2, <1>3 DEF IdleStep

\* The other steps of the sink, the host and the applications.
LEMMA SinkPops ==
  ASSUME IInv, PopsInv, SinkBusStep
  PROVE  PopsInv'
<1>1. bus[Sink] # <<>> /\ Handled(Sink, <<>>) /\ UNCHANGED <<mac, send_state>>
  BY DEF SinkBusStep, IncrBroadcastCounter, SendToSerial, RecvInit, RecvAnswer, SinkSend, At, sendVars
<1>2. KeepsHeads
  <2>1. CASE IncrBroadcastCounter
    <3>1. \E p : Enqueue(Sink, <<p>>)
      BY <2>1 DEF IncrBroadcastCounter
    <3> QED  BY <3>1, EnqueueOneKeepsHeads, NodeAssumption
  <2>2. CASE RecvAnswer
    <3>1. serial.state \in {"GET", "PUT", "READY"}
      BY DEF IInv, SerialInv
    <3>2. \/ UNCHANGED outBufferPackets
          \/ Enqueue(Sink, <<>>)
          \/ \E p : Enqueue(Sink, <<p>>)
      BY <2>2, <3>1 DEF RecvAnswer
    <3>3. CASE Enqueue(Sink, <<>>)
      <4>1. <<>> \in Seq({})
        BY EmptyIsSeq
      <4> QED  BY <3>3, <4>1, EnqueueKeepsHeads, NodeAssumption
    <3> QED  BY <3>2, <3>3, EnqueueOneKeepsHeads, SameKeepsHeads, NodeAssumption
  <2>3. CASE SendToSerial \/ RecvInit \/ \E f \in Caller : SinkSend(f)
    BY <2>3, SameKeepsHeads DEF SendToSerial, RecvInit, SinkSend, sendVars
  <2> QED  BY <2>1, <2>2, <2>3 DEF SinkBusStep
<1> QED  BY <1>1, <1>2, HandledPops, NodeAssumption

LEMMA QuietPops ==
  ASSUME PopsInv, KeepsHeads, UNCHANGED <<bus, mac, send_state>>
  PROVE  PopsInv'
<1>1. \A k \in Node : Fine(bus[k], mac[k], send_state[k], outBufferPackets'[k])
  BY FineQueue DEF PopsInv, KeepsHeads
<1> QED  BY <1>1 DEF PopsInv

LEMMA PopsStep ==
  ASSUME IInv, PopsInv, FloodsInv, NothingForLostRely, Frags = 1, [Next]_vars
  PROVE  PopsInv'
<1>1. CASE \E n \in Node : BusStep(n)
  BY <1>1, SendToMacPops, AnsweredPops, ReceivePops DEF BusStep
<1>2. CASE \E n \in Node : MacStep(n)
  BY <1>2, MacPops
<1>3. CASE \E n \in Node : Restart(n)
  BY <1>3, RestartPops
<1>4. CASE \E n \in Node : Send(n) \/ Recv(n) \/ RecvConnection(n)
  <2>1. PICK n \in Node : Send(n) \/ Recv(n) \/ RecvConnection(n)
    BY <1>4
  <2>2. /\ UNCHANGED <<bus, mac, send_state>>
        /\ UNCHANGED outBufferPackets \/ \E p : Enqueue(n, <<p>>)
    BY <2>1 DEF Send, Recv, RecvConnection, sendVars
  <2> QED  BY <2>2, EnqueueOneKeepsHeads, SameKeepsHeads, QuietPops
<1>5. CASE SinkBusStep
  BY <1>5, SinkPops
<1>6. CASE IdleStep
  BY <1>6, IdlePops
<1>7. CASE HostAnswer \/ HostStart \/ Request
  <2>1. /\ \E ev \in {"table", "request"} : Fire(Sink, <<Event(ev)>>)
        /\ UNCHANGED <<mac, send_state, outBufferPackets>>
    BY <1>7 DEF HostAnswer, HostStart, HostDelivers, Request, sendVars
  <2> QED  BY <2>1, FiredPops
<1>8. CASE Boot \/ (\E f \in Caller : SinkSendReturns(f)) \/ UNCHANGED vars
  <2>1. UNCHANGED <<bus, mac, send_state, outBufferPackets>>
    BY <1>8 DEF Boot, SinkSendReturns, vars, sendVars
  <2> QED  BY <2>1, SameKeepsHeads, QuietPops
<1> QED  BY <1>1, <1>2, <1>3, <1>4, <1>5, <1>6, <1>7, <1>8 DEF Next

-----------------------------------------------------------------------------
(* The sink finds a request behind each event that has one sent.           *)

SerialReady == [ev : {"serial_ready"}, pkt : {NULL}]
Tables == [ev : {"table"}, pkt : {NULL}]

\* With the sink's bus b and its exchange with the host s: there is at most one
\* such event, of an exchange under way, whose request is queued; and no answer
\* is on the bus ahead of it.
SerialFine(b, s) ==
  /\ One(b, SerialReady)
  /\ ~NoneOf(b, SerialReady) => s.up /\ s.state # "READY" /\ s.out # <<>>
  /\ s.received.mode = "ANSWER" =>
       \A i, k \in DOMAIN b : i < k /\ b[i] \in Tables => b[k] \notin SerialReady

\* An event is handled; an exchange without such an event may change.
LEMMA SerialTail ==
  ASSUME NEW T, NEW b \in Seq(T), b # <<>>, NEW s, SerialFine(b, s)
  PROVE  /\ SerialFine(Tail(b), s)
         /\ Head(b) \in SerialReady => NoneOf(Tail(b), SerialReady)
         /\ s.received.mode = "ANSWER" /\ Head(b) \in Tables => NoneOf(Tail(b), SerialReady)
<1>1. Len(b) \in Nat \ {0} /\ DOMAIN b = 1 .. Len(b) /\ Head(b) = b[1]
  BY LenProperties, EmptySeq, HeadTailProperties
<1>2. /\ Tail(b) \in Seq(T) /\ Len(Tail(b)) = Len(b) - 1
      /\ \A i \in 1 .. Len(Tail(b)) : Tail(b)[i] = b[i + 1]
  BY HeadTailProperties
<1>3. DOMAIN Tail(b) = 1 .. Len(b) - 1
  BY <1>1, <1>2, LenProperties
<1>4. /\ One(b, SerialReady) => One(Tail(b), SerialReady)
      /\ NoneOf(b, SerialReady) => NoneOf(Tail(b), SerialReady)
      /\ One(b, SerialReady) /\ Head(b) \in SerialReady => NoneOf(Tail(b), SerialReady)
  BY TailOne
<1>5. ASSUME s.received.mode = "ANSWER", NEW i \in DOMAIN Tail(b), NEW k \in DOMAIN Tail(b),
             i < k, Tail(b)[i] \in Tables
      PROVE  Tail(b)[k] \notin SerialReady
  <2>1. i + 1 \in DOMAIN b /\ k + 1 \in DOMAIN b /\ i + 1 < k + 1
    BY <1>1, <1>3, <1>5
  <2> QED  BY <1>2, <1>3, <1>5, <2>1 DEF SerialFine
<1>6. ASSUME s.received.mode = "ANSWER", Head(b) \in Tables
      PROVE  NoneOf(Tail(b), SerialReady)
  <2> SUFFICES ASSUME NEW k \in DOMAIN Tail(b) PROVE Tail(b)[k] \notin SerialReady
    BY DEF NoneOf
  <2>1. 1 \in DOMAIN b /\ k + 1 \in DOMAIN b /\ 1 < k + 1
    BY <1>1, <1>3
  <2> QED  BY <1>1, <1>2, <1>3, <1>6, <2>1 DEF SerialFine
<1> QED  BY <1>4, <1>5, <1>6 DEF SerialFine

LEMMA SerialNone ==
  ASSUME NEW b, NoneOf(b, SerialReady), NEW s
  PROVE  SerialFine(b, s)
  BY DEF SerialFine, One, NoneOf

\* Events that have nothing sent come.
LEMMA SerialAdds ==
  ASSUME NEW T, NEW b \in Seq(T), NEW r \in Seq(T), NoneOf(r, SerialReady), NEW s,
         SerialFine(b, s)
  PROVE  SerialFine(b \o r, s)
<1>1. /\ Len(b) \in Nat /\ Len(r) \in Nat
      /\ DOMAIN b = 1 .. Len(b) /\ DOMAIN r = 1 .. Len(r)
  BY LenProperties
<1>2. PICK t : t = b \o r
  OBVIOUS
<1>3. /\ t \in Seq(T) /\ Len(t) = Len(b) + Len(r)
      /\ \A i \in 1 .. Len(b) + Len(r) : t[i] = IF i <= Len(b) THEN b[i] ELSE r[i - Len(b)]
  BY <1>2, ConcatProperties
<1>4. DOMAIN t = 1 .. Len(b) + Len(r)
  BY <1>3, LenProperties
<1>5. /\ NoneOf(b, SerialReady) => NoneOf(t, SerialReady)
      /\ One(b, SerialReady) => One(t, SerialReady)
  BY <1>2, ConcatOne
<1>6. ASSUME s.received.mode = "ANSWER", NEW i \in DOMAIN t, NEW k \in DOMAIN t,
             i < k, t[i] \in Tables
      PROVE  t[k] \notin SerialReady
  <2>1. CASE k <= Len(b)
    <3>1. i \in DOMAIN b /\ k \in DOMAIN b /\ t[i] = b[i] /\ t[k] = b[k]
      BY <1>1, <1>3, <1>4, <1>6, <2>1
    <3> QED  BY <1>6, <3>1 DEF SerialFine
  <2>2. CASE k > Len(b)
    <3>1. k - Len(b) \in DOMAIN r /\ t[k] = r[k - Len(b)]
      BY <1>1, <1>3, <1>4, <2>2
    <3> QED  BY <3>1 DEF NoneOf
  <2> QED  BY <1>1, <1>4, <2>1, <2>2
<1>7. SerialFine(t, s)
  BY <1>5, <1>6 DEF SerialFine
<1> QED  BY <1>2, <1>7

\* Requests are queued.
LEMMA SerialSame ==
  ASSUME NEW b, NEW s, SerialFine(b, s), NEW t, t.up = s.up, t.state = s.state,
         t.received = s.received, s.out # <<>> => t.out # <<>>
  PROVE  SerialFine(b, t)
  BY DEF SerialFine

\* The event that has the request sent comes when no answer can.
LEMMA SerialStarts ==
  ASSUME NEW T, NEW b \in Seq(T), NEW e \in T, NEW s, s.state = "READY", SerialFine(b, s),
         s.received.mode = "ANSWER" => NoneOf(b, Tables), NEW t, t.up, t.state # "READY",
         t.out # <<>>, t.received = s.received, e \notin Tables
  PROVE  SerialFine(b \o <<e>>, t)
<1>1. NoneOf(b, SerialReady)
  BY DEF SerialFine
<1>2. <<e>> \in Seq(T) /\ One(<<e>>, SerialReady) /\ NoneOf(<<e>>, Tables)
  BY SingleOne
<1>3. One(b \o <<e>>, SerialReady)
  BY <1>1, <1>2, ConcatOne
<1>4. s.received.mode = "ANSWER" => NoneOf(b \o <<e>>, Tables)
  BY <1>2, ConcatOne
<1> QED  BY <1>3, <1>4 DEF SerialFine, NoneOf

SerialPops == SerialFine(bus[Sink], serial)

\* No message of the host is pending.
LEMMA PendingCount ==
  ASSUME IInv, NEW ev
  PROVE  /\ Pending(ev) \in Nat
         /\ Pending(ev) = 0 => \A i \in DOMAIN bus[Sink] : bus[Sink][i].ev # ev
<1> DEFINE S == {i \in DOMAIN bus[Sink] : bus[Sink][i].ev = ev}
<1>1. bus[Sink] \in Seq(EventsOf(Sink))
  BY NodeAssumption DEF IInv, Buses
<1>2. DOMAIN bus[Sink] = 1 .. Len(bus[Sink]) /\ Len(bus[Sink]) \in Nat
  BY <1>1, LenProperties
<1>3. IsFiniteSet(DOMAIN bus[Sink])
  BY <1>2, FS_Interval
<1>4. IsFiniteSet(S)
  BY <1>3, FS_Subset
<1>5. Cardinality(S) \in Nat /\ Pending(ev) = Cardinality(S)
  BY <1>4, FS_CardinalityType DEF Pending
<1>6. Pending(ev) = 0 => S = {}
  BY <1>4, <1>5, FS_EmptySet
<1> QED  BY <1>5, <1>6

LEMMA NoTable ==
  ASSUME IInv, Pending("table") = 0
  PROVE  NoneOf(bus[Sink], Tables)
<1>1. \A i \in DOMAIN bus[Sink] : bus[Sink][i].ev # "table"
  BY PendingCount
<1> QED  BY <1>1 DEF NoneOf, Tables

LEMMA LineIsRead ==
  ASSUME IInv, LineRead
  PROVE  NoneOf(bus[Sink], Tables)
<1>1. Pending("table") \in Nat /\ Pending("request") \in Nat
  BY PendingCount
<1> QED  BY <1>1, NoTable DEF LineRead

LEMMA IdleLine ==
  ASSUME IInv, SerialIdle, ~UnawaitedAnswer, serial.received.mode = "ANSWER"
  PROVE  NoneOf(bus[Sink], Tables) /\ host.to = <<>>
<1>1. Pending("table") \in Nat
  BY PendingCount
<1>2. host.to \in Seq(ToHost)
  BY DEF IInv, HostInv
<1>3. Len(host.to) \in Nat
  BY <1>2, LenProperties
<1>4. Pending("table") = 0 /\ Len(host.to) = 0
  BY <1>1, <1>3 DEF UnawaitedAnswer
<1> QED  BY <1>2, <1>4, NoTable, EmptySeq

\* The steps that neither send nor answer a request.
SerialQuiet ==
  \/ bus'[Sink] = bus[Sink]
  \/ bus[Sink] # <<>> /\ bus'[Sink] = Tail(bus[Sink])
  \/ \E r : NoneOf(r, SerialReady) /\ (\E T : r \in Seq(T) /\ bus[Sink] \in Seq(T))
              /\ bus'[Sink] = bus[Sink] \o r
ExchangeKept ==
  /\ serial'.up = serial.up /\ serial'.state = serial.state
  /\ serial'.received = serial.received /\ (serial.out # <<>> => serial'.out # <<>>)

LEMMA SerialQuietPops ==
  ASSUME IInv, SerialPops, SerialQuiet, ExchangeKept
  PROVE  SerialPops'
<1>1. bus[Sink] \in Seq(EventsOf(Sink))
  BY NodeAssumption DEF IInv, Buses
<1>2. SerialFine(bus'[Sink], serial)
  <2>1. CASE bus'[Sink] = bus[Sink]
    BY <2>1 DEF SerialPops
  <2>2. CASE bus[Sink] # <<>> /\ bus'[Sink] = Tail(bus[Sink])
    BY <1>1, <2>2, SerialTail DEF SerialPops
  <2>3. CASE \E r : NoneOf(r, SerialReady) /\ (\E T : r \in Seq(T) /\ bus[Sink] \in Seq(T))
                      /\ bus'[Sink] = bus[Sink] \o r
    BY <2>3, SerialAdds DEF SerialPops
  <2> QED  BY <2>1, <2>2, <2>3 DEF SerialQuiet
<1>3. SerialFine(bus'[Sink], serial')
  BY <1>2, SerialSame DEF ExchangeKept
<1> QED  BY <1>3 DEF SerialPops

LEMMA HandledQuiet ==
  ASSUME IInv, NEW n \in Node, bus[n] # <<>>, Handled(n, <<>>)
  PROVE  SerialQuiet
  BY HandledTail, NodeAssumption DEF SerialQuiet

LEMMA FireQuiet ==
  ASSUME IInv, NEW n \in Node, NEW T, NEW r \in Seq(T), NoneOf(r, SerialReady), Fire(n, r)
  PROVE  SerialQuiet
<1>1. /\ \A k \in Node : k # n => bus'[k] = bus[k]
      /\ bus'[n] = bus[n] \o r /\ bus[n] \in Seq(EventsOf(n))
  BY FireAdds
<1>2. CASE n = Sink
  <2> DEFINE U == EventsOf(n) \cup T
  <2>1. EventsOf(n) \subseteq U /\ T \subseteq U
    OBVIOUS
  <2> HIDE DEF U
  <2>2. bus[n] \in Seq(U) /\ r \in Seq(U)
    BY <1>1, <2>1, SeqMonotonic
  <2> QED  BY <1>1, <1>2, <2>2 DEF SerialQuiet
<1> QED  BY <1>1, <1>2, NodeAssumption DEF SerialQuiet

LEMMA FireOneQuiet ==
  ASSUME IInv, NEW n \in Node, NEW e, e.ev # "serial_ready", Fire(n, <<e>>)
  PROVE  SerialQuiet
<1>1. <<e>> \in Seq({e}) /\ e \notin SerialReady
  BY DEF SerialReady
<1>2. NoneOf(<<e>>, SerialReady)
  BY <1>1, SingleOne
<1> QED  BY <1>1, <1>2, FireQuiet

LEMMA SameExchange ==
  ASSUME UNCHANGED serial
  PROVE  ExchangeKept
  BY DEF ExchangeKept

LEMMA QueuedKeeps ==
  ASSUME IInv, NEW q, serial'.up = serial.up, serial'.state = serial.state,
         serial'.received = serial.received, serial'.out = Append(serial.out, q)
  PROVE  ExchangeKept
<1>1. serial.out \in Seq(ToHost) /\ ToHost \subseteq ToHost \cup {q}
  BY DEF IInv, SerialInv
<1>2. serial.out \in Seq(ToHost \cup {q})
  BY <1>1, SeqMonotonic
<1>3. Append(serial.out, q) # <<>>
  BY <1>2, AppendProperties
<1> QED  BY <1>3 DEF ExchangeKept

LEMMA BusSerial ==
  ASSUME IInv, SerialPops, NEW n \in Node, BusStep(n)
  PROVE  SerialPops'
<1>1. bus[n] # <<>> /\ Handled(n, <<>>)
  BY DEF BusStep, SendToMac, PacketSent, PacketTimeout, RecvIgnored, RecvRtInit, RecvData,
     RecvCommand, RecvRtAck, RecvJoin, RecvLeave, RecvConnectionLost, Accepted, At
<1>2. ExchangeKept
  <2>1. CASE RecvRtAck(n)
    <3>1. CASE n = Sink
      <4> DEFINE q == [mode |-> "PUT", route |-> Received(n).route, dest |-> NULL]
      <4>1. /\ serial'.up = serial.up /\ serial'.state = serial.state
            /\ serial'.received = serial.received /\ serial'.out = Append(serial.out, q)
        BY <2>1, <3>1 DEF RecvRtAck, RelayRtAck, IInv, SerialInv
      <4> QED  BY <4>1, QueuedKeeps
    <3>2. CASE n # Sink
      BY <2>1, <3>2, SameExchange DEF RecvRtAck, RelayRtAck
    <3> QED  BY <3>1, <3>2
  <2>2. CASE SendToMac(n) \/ PacketSent(n) \/ PacketTimeout(n)
               \/ RecvIgnored(n) \/ RecvRtInit(n) \/ RecvData(n) \/ RecvCommand(n)
               \/ RecvJoin(n) \/ RecvLeave(n) \/ RecvConnectionLost(n)
    <3>1. UNCHANGED serial
      BY <2>2 DEF SendToMac, PacketSent, PacketTimeout, RecvIgnored, RecvRtInit, RecvData,
         RecvCommand, RecvJoin, RecvLeave, RecvConnectionLost, sinkVars
    <3> QED  BY <3>1, SameExchange
  <2> QED  BY <2>1, <2>2 DEF BusStep
<1> QED  BY <1>1, <1>2, HandledQuiet, SerialQuietPops

LEMMA SinkBusSerial ==
  ASSUME IInv, SerialPops, SinkBusStep
  PROVE  SerialPops'
<1>1. bus[Sink] # <<>> /\ Handled(Sink, <<>>)
  BY DEF SinkBusStep, IncrBroadcastCounter, SendToSerial, RecvInit, RecvAnswer, SinkSend, At
<1>2. bus'[Sink] = Tail(bus[Sink]) /\ bus[Sink] \in Seq(EventsOf(Sink))
  BY <1>1, HandledTail, NodeAssumption
<1>3. Head(bus[Sink]) \in EventsOf(Sink)
  BY <1>1, HeadEvent, NodeAssumption DEF IInv
<1>4. CASE IncrBroadcastCounter \/ RecvInit \/ \E f \in Caller : SinkSend(f)
  <2>1. ExchangeKept
    <3>1. CASE IncrBroadcastCounter
      BY <3>1, SameExchange DEF IncrBroadcastCounter
    <3>2. CASE RecvInit
      BY <3>2 DEF RecvInit, ExchangeKept, IInv, SerialInv
    <3>3. CASE \E f \in Caller : SinkSend(f)
      <4>0. PICK d \in Node : serial' = [serial EXCEPT !.get_payload = d, !.waits = TRUE, !.out =
                                 Append(@, [mode |-> "GET", route |-> <<>>, dest |-> d])]
        BY <3>3 DEF SinkSend
      <4> DEFINE q == [mode |-> "GET", route |-> <<>>, dest |-> d]
      <4>1. /\ serial'.up = serial.up /\ serial'.state = serial.state
            /\ serial'.received = serial.received /\ serial'.out = Append(serial.out, q)
        BY <4>0 DEF IInv, SerialInv
      <4> QED  BY <4>1, QueuedKeeps
    <3> QED  BY <1>4, <3>1, <3>2, <3>3
  <2> QED  BY <1>1, <2>1, HandledQuiet, SerialQuietPops, NodeAssumption
<1>5. CASE SendToSerial
  <2>1. Head(bus[Sink]) \in SerialReady
    BY <1>3, <1>5 DEF SendToSerial, At, EventsOf, SerialReady
  <2>2. NoneOf(bus'[Sink], SerialReady)
    BY <1>1, <1>2, <2>1, SerialTail DEF SerialPops
  <2> QED  BY <2>2, SerialNone DEF SerialPops
<1>6. CASE RecvAnswer
  <2>1. Head(bus[Sink]) \in Tables /\ serial.received.mode = "ANSWER"
    BY <1>3, <1>6 DEF RecvAnswer, At, EventsOf, Tables
  <2>2. NoneOf(bus'[Sink], SerialReady)
    BY <1>1, <1>2, <2>1, SerialTail DEF SerialPops
  <2> QED  BY <2>2, SerialNone DEF SerialPops
<1> QED  BY <1>4, <1>5, <1>6 DEF SinkBusStep

\* A message of the host is put in the slot when there is none on the bus.
LEMMA HostDeliversSerial ==
  ASSUME IInv, SerialPops, NEW m, HostDelivers(m)
  PROVE  SerialPops'
<1>1. /\ LineRead /\ Fire(Sink, <<Event("table")>>)
      /\ serial'.up = serial.up /\ serial'.state = serial.state /\ serial'.out = serial.out
  BY DEF HostDelivers, IInv, SerialInv
<1>2. NoneOf(bus[Sink], Tables)
  BY <1>1, LineIsRead
<1>3. SerialFine(bus[Sink], serial')
  BY <1>1, <1>2 DEF SerialPops, SerialFine, NoneOf
<1>4. PICK e : e = Event("table")
  OBVIOUS
<1>5. bus'[Sink] = bus[Sink] \o <<e>> /\ bus[Sink] \in Seq(EventsOf(Sink))
  BY <1>1, <1>4, FireAdds, NodeAssumption
<1> DEFINE U == EventsOf(Sink) \cup {e}
<1>6. bus[Sink] \in Seq(U) /\ <<e>> \in Seq(U)
  <2>1. EventsOf(Sink) \subseteq U /\ e \in U
    OBVIOUS
  <2> HIDE DEF U
  <2> QED  BY <1>5, <2>1, SeqMonotonic
<1> HIDE DEF U
<1>7. e \notin SerialReady
  BY <1>4 DEF Event, SerialReady
<1>8. NoneOf(<<e>>, SerialReady)
  BY <1>7, SingleOne
<1>9. SerialFine(bus[Sink] \o <<e>>, serial')
  BY <1>3, <1>6, <1>8, SerialAdds
<1> QED  BY <1>5, <1>9 DEF SerialPops

LEMMA SerialIdleSerial ==
  ASSUME IInv, SerialPops, ~UnawaitedAnswer, SerialIdleTick
  PROVE  SerialPops'
<1>1. /\ serial.up /\ serial.state = "READY" /\ serial.out # <<>>
      /\ serial' = [serial EXCEPT !.state = Head(serial.out).mode]
      /\ Fire(Sink, <<Event("serial_ready")>>)
  BY DEF SerialIdleTick, SerialIdle
<1>2. Head(serial.out).mode # "READY"
  <2>1. serial.out \in Seq(ToHost)
    BY DEF IInv, SerialInv
  <2>2. Head(serial.out) \in ToHost
    BY <1>1, <2>1, TailIsSeq
  <2> QED  BY <2>2 DEF ToHost
<1>3. /\ serial'.up /\ serial'.state # "READY" /\ serial'.out # <<>>
      /\ serial'.received = serial.received
  BY <1>1, <1>2 DEF IInv, SerialInv
<1>4. serial.received.mode = "ANSWER" => NoneOf(bus[Sink], Tables)
  BY <1>1, IdleLine DEF SerialIdle
<1>5. PICK e : e = Event("serial_ready")
  OBVIOUS
<1>6. e \notin Tables /\ e \in EventsOf(Sink)
  BY <1>5 DEF Event, Tables, EventsOf
<1>7. bus'[Sink] = bus[Sink] \o <<e>> /\ bus[Sink] \in Seq(EventsOf(Sink))
  BY <1>1, <1>5, FireAdds, NodeAssumption
<1>8. SerialFine(bus[Sink] \o <<e>>, serial')
  BY <1>1, <1>3, <1>4, <1>6, <1>7, SerialStarts DEF SerialPops
<1> QED  BY <1>7, <1>8 DEF SerialPops

LEMMA DispatchQuiet ==
  ASSUME IInv, NEW n \in Node, NEW q, NEW e, e.ev # "serial_ready",
         NEW fired \in {<<>>, <<e>>}, Dispatch(n, q, fired)
  PROVE  SerialQuiet
<1>1. PICK r, d : /\ d = Event("ready") /\ r \in {<<>>, <<d>>} /\ Fire(n, fired \o r)
  BY DEF Dispatch
<1>2. e \notin SerialReady /\ d \notin SerialReady
  BY <1>1 DEF SerialReady, Event
<1>3. <<>> \in Seq({e, d}) /\ <<e>> \in Seq({e, d}) /\ <<d>> \in Seq({e, d})
  BY EmptyIsSeq
<1>4. NoneOf(<<>>, SerialReady)
  BY DEF NoneOf
<1>5. NoneOf(<<e>>, SerialReady) /\ NoneOf(<<d>>, SerialReady)
  BY <1>2, SingleOne
<1>6. fired \in Seq({e, d}) /\ r \in Seq({e, d}) /\ NoneOf(fired, SerialReady) /\ NoneOf(r, SerialReady)
  BY <1>1, <1>3, <1>4, <1>5
<1>7. fired \o r \in Seq({e, d}) /\ NoneOf(fired \o r, SerialReady)
  BY <1>6, ConcatOne, ConcatIsSeq
<1> QED  BY <1>1, <1>7, FireQuiet

LEMMA SerialPopsStep ==
  ASSUME IInv, SerialPops, ~UnawaitedAnswer, [Next]_vars
  PROVE  SerialPops'
<1>1. CASE \E n \in Node : BusStep(n)
  BY <1>1, BusSerial
<1>2. CASE \E n \in Node : MacStep(n)
  <2>1. PICK n \in Node : MacStep(n)
    BY <1>2
  <2>2. UNCHANGED serial
    BY <2>1 DEF MacStep, MacDeliver, MacRepeat, MacSent, MacTimeout, sinkVars
  <2>3. SerialQuiet
    <3>1. CASE MacDeliver(n)
      <4>1. PICK i \in DOMAIN mac[n] : \E m \in mac[n][i].left :
              Fire(m, <<EventOf("recv", mac[n][i].pkt)>>)
        BY <3>1 DEF MacDeliver
      <4>2. mac[n][i].left \subseteq Node
        BY <4>1, InMac DEF Message
      <4>3. PICK e : e = EventOf("recv", mac[n][i].pkt)
        OBVIOUS
      <4>4. e.ev # "serial_ready"
        BY <4>3 DEF EventOf
      <4> QED  BY <4>1, <4>2, <4>3, <4>4, FireOneQuiet
    <3>2. CASE MacSent(n) \/ MacTimeout(n)
      <4>1. PICK i \in DOMAIN mac[n], ev \in {"sent", "timeout"} :
              Fire(n, <<EventOf(ev, mac[n][i].pkt)>>)
        BY <3>2 DEF MacSent, MacTimeout
      <4>2. PICK e : e = EventOf(ev, mac[n][i].pkt)
        OBVIOUS
      <4>3. e.ev # "serial_ready"
        BY <4>2 DEF EventOf
      <4> QED  BY <4>1, <4>2, <4>3, FireOneQuiet
    <3>3. CASE MacRepeat(n)
      BY <3>3 DEF MacRepeat, SerialQuiet
    <3> QED  BY <2>1, <3>1, <3>2, <3>3 DEF MacStep
  <2> QED  BY <2>2, <2>3, SameExchange, SerialQuietPops
<1>3. CASE \E n \in Node : Restart(n)
  <2>1. PICK n \in Node : Restart(n)
    BY <1>3
  <2>2. CASE n = Sink
    <3>1. bus'[Sink] = <<>>
      BY <2>1, <2>2 DEF Restart, IInv, Buses
    <3>2. NoneOf(<<>>, SerialReady)
      BY DEF NoneOf
    <3> QED  BY <3>1, <3>2, SerialNone DEF SerialPops
  <2>3. CASE n # Sink
    <3>1. bus'[Sink] = bus[Sink] /\ UNCHANGED serial
      BY <2>1, <2>3, NodeAssumption DEF Restart, IInv, Buses
    <3> QED  BY <3>1, SameExchange, SerialQuietPops DEF SerialQuiet
  <2> QED  BY <2>2, <2>3
<1>4. CASE \/ \E n \in Node : Send(n) \/ Recv(n) \/ RecvConnection(n)
           \/ (\E f \in Caller : SinkSendReturns(f)) \/ UNCHANGED vars
  <2>1. UNCHANGED <<bus, serial>>
    BY <1>4 DEF Send, Recv, RecvConnection, SinkSendReturns, vars, sinkVars
  <2> QED  BY <2>1 DEF SerialPops
<1>5. CASE SinkBusStep
  BY <1>5, SinkBusSerial
<1>6. CASE SerialIdleTick
  BY <1>6, SerialIdleSerial
<1>7. CASE SinkIdleTick \/ \E n \in Node : NodeIdleTick(n)
  <2>1. UNCHANGED serial
    BY <1>7 DEF SinkIdleTick, NodeIdleTick, sinkVars
  <2>2. PICK e : e = Event("incr")
    OBVIOUS
  <2>3. e.ev # "serial_ready"
    BY <2>2 DEF Event
  <2>4. \E n \in Node : \E q : \E fired \in {<<>>, <<e>>} : Dispatch(n, q, fired)
    BY <1>7, <2>2, NodeAssumption DEF SinkIdleTick, NodeIdleTick
  <2> QED  BY <2>1, <2>3, <2>4, DispatchQuiet, SameExchange, SerialQuietPops
<1>8. CASE HostAnswer \/ HostStart
  <2>1. \E m : HostDelivers(m)
    BY <1>8 DEF HostAnswer, HostStart
  <2> QED  BY <2>1, HostDeliversSerial
<1>9. CASE Boot
  <2>1. ~serial.up /\ UNCHANGED bus
    BY <1>9 DEF Boot
  <2>2. NoneOf(bus[Sink], SerialReady)
    BY <2>1 DEF SerialPops, SerialFine
  <2> QED  BY <2>1, <2>2, SerialNone DEF SerialPops
<1>10. CASE Request
  <2>1. UNCHANGED serial /\ Fire(Sink, <<Event("request")>>) /\ Event("request").ev # "serial_ready"
    BY <1>10 DEF Request, sinkVars, Event
  <2> QED  BY <2>1, FireOneQuiet, SameExchange, SerialQuietPops, NodeAssumption
<1> QED  BY <1>1, <1>2, <1>3, <1>4, <1>5, <1>6, <1>7, <1>8, <1>9, <1>10 DEF Next, IdleStep

\* send_to_mac finds a packet and send_to_serial a request behind each of their
\* events, as long as a message has one fragment, so that it is answered once,
\* and each answer of the host is the one the sink waits for.
THEOREM QueuesHaveWork ==
  Frags = 1 => (Spec /\ []~UnawaitedAnswer => []NeverPopsEmpty)
<1> SUFFICES ASSUME Frags = 1 PROVE Spec /\ []~UnawaitedAnswer => []NeverPopsEmpty
  OBVIOUS
<1>1. Init => PopsInv /\ FloodsInv /\ SerialPops
  <2> SUFFICES ASSUME Init PROVE PopsInv /\ FloodsInv /\ SerialPops
    OBVIOUS
  <2>1. \A S : NoneOf(<<>>, S) /\ One(<<>>, S)
    BY DEF NoneOf, One
  <2>2. Elements(<<>>) = {}
    BY DEF Elements
  <2>3. FloodsInv
    BY <2>2 DEF Init, FloodsInv, Packets, PacketsOf
  <2>4. PopsInv
    BY <2>1 DEF Init, PopsInv, Fine
  <2>5. SerialPops
    BY <2>1, SerialNone, NodeAssumption DEF Init, SerialPops
  <2> QED  BY <2>3, <2>4, <2>5
<1>2. IInv /\ NothingForLostRely /\ ~UnawaitedAnswer /\ PopsInv /\ FloodsInv /\ SerialPops
        /\ [Next]_vars => PopsInv' /\ FloodsInv' /\ SerialPops'
  BY PopsStep, FloodsStep, SerialPopsStep
<1>3. IInv /\ PopsInv /\ SerialPops => NeverPopsEmpty
  <2> SUFFICES ASSUME IInv, PopsInv, SerialPops PROVE NeverPopsEmpty
    OBVIOUS
  <2>1. ASSUME NEW n \in Node, At(n, "ready") PROVE outBufferPackets[n] # <<>>
    <3>1. bus[n] # <<>> /\ bus[n] \in Seq(EventsOf(n)) /\ Head(bus[n]) \in ReadyEvents
      BY <2>1, OwnEvent DEF At, IInv, Buses
    <3>2. ~NoneOf(bus[n], ReadyEvents)
      BY <3>1, TailOne
    <3> QED  BY <3>2 DEF PopsInv, Fine
  <2>2. ASSUME At(Sink, "serial_ready") PROVE serial.out # <<>>
    <3>1. bus[Sink] # <<>> /\ bus[Sink] \in Seq(EventsOf(Sink))
      BY <2>2, NodeAssumption DEF At, IInv, Buses
    <3>2. Head(bus[Sink]) \in EventsOf(Sink)
      BY <3>1, TailIsSeq
    <3>3. Head(bus[Sink]) \in SerialReady
      BY <2>2, <3>2 DEF At, EventsOf, SerialReady
    <3>4. ~NoneOf(bus[Sink], SerialReady)
      BY <3>1, <3>3, TailOne
    <3> QED  BY <3>4 DEF SerialPops, SerialFine
  <2> QED  BY <2>1, <2>2 DEF NeverPopsEmpty
<1> QED  BY <1>1, <1>2, <1>3, Invariance, QueueWithoutRely, PTL DEF Spec

-----------------------------------------------------------------------------
(* The answer the sink gets is to the request it waits for.                *)

Gets == {q \in ToHost : q.mode = "GET"}

\* The fibers of the sink take turns.
OneCaller == \A f, g \in Caller : f = g

Answers(a, q, routes) ==
  a.found => q.mode = "GET" /\ a.route \in routes /\ Last(a.route) = q.dest

\* With the sink's bus b, its exchange with the host s, and the requests to the
\* host and its routes: the request that is out is the one of the exchange, and
\* so is every copy of it; an answer that is on the bus answers it.
Out(b, s, to, routes) ==
  /\ s.in_send.mode = s.state
  /\ s.state = "GET" => s.in_send.dest = s.get_payload /\ NoneOf(s.out, Gets)
  /\ \A q \in Elements(to) : q = s.in_send
  /\ s.received.mode = "ANSWER" /\ ~NoneOf(b, Tables) => Answers(s.received, s.in_send, routes)

\* At most one request for a route is queued, the one for get_payload; and the
\* exchange under way is about the first of the queue until that is sent.
Paired(b, s, to, routes) ==
  /\ One(s.out, Gets)
  /\ \A q \in Elements(s.out) : q.mode = "GET" => q.dest = s.get_payload
  /\ ~NoneOf(b, SerialReady) => s.out # <<>> /\ Head(s.out).mode = s.state
  /\ NoneOf(b, SerialReady) /\ s.state # "READY" => Out(b, s, to, routes)

\* The fiber that asked for a route sleeps until the exchange is over; before
\* the sink is up nothing is asked.
Asking == [ev : {"request"}, pkt : {NULL}]
Awaited ==
  /\ caller \in [Caller -> Node \cup {NULL}]
  /\ ~serial.up => /\ serial.state = "READY" /\ serial.out = <<>>
                   /\ NoneOf(bus[Sink], Asking)
  /\ serial.state = "GET" \/ ~NoneOf(serial.out, Gets) =>
       serial.waits /\ \E f \in Caller : caller[f] # NULL

PairInv == Paired(bus[Sink], serial, host.to, host.routes) /\ Awaited

LEMMA TailBack ==
  ASSUME NEW T, NEW q \in Seq(T), q # <<>>, NEW S, Head(q) \notin S, NoneOf(Tail(q), S)
  PROVE  NoneOf(q, S)
<1>1. Len(q) \in Nat \ {0} /\ DOMAIN q = 1 .. Len(q) /\ Head(q) = q[1]
  BY LenProperties, EmptySeq, HeadTailProperties
<1>2. /\ Tail(q) \in Seq(T) /\ Len(Tail(q)) = Len(q) - 1
      /\ \A i \in 1 .. Len(Tail(q)) : Tail(q)[i] = q[i + 1]
  BY HeadTailProperties
<1>3. DOMAIN Tail(q) = 1 .. Len(q) - 1
  BY <1>1, <1>2, LenProperties
<1>4. ASSUME NEW i \in DOMAIN q
      PROVE  q[i] \notin S
  <2>1. CASE i = 1
    BY <1>1, <2>1
  <2>2. CASE i # 1
    <3>1. i - 1 \in DOMAIN Tail(q) /\ i - 1 + 1 = i
      BY <1>1, <1>3, <2>2
    <3>2. Tail(q)[i - 1] = q[i]
      BY <1>2, <1>3, <3>1
    <3> QED  BY <3>1, <3>2 DEF NoneOf
  <2> QED  BY <2>1, <2>2
<1> QED  BY <1>4 DEF NoneOf

LEMMA ConcatBack ==
  ASSUME NEW T, NEW q \in Seq(T), NEW r \in Seq(T), NEW S, NoneOf(q \o r, S)
  PROVE  NoneOf(q, S)
<1>1. /\ Len(q) \in Nat /\ Len(r) \in Nat /\ DOMAIN q = 1 .. Len(q)
  BY LenProperties
<1>2. PICK t : t = q \o r
  OBVIOUS
<1>3. /\ t \in Seq(T) /\ Len(t) = Len(q) + Len(r)
      /\ \A i \in 1 .. Len(q) + Len(r) : t[i] = IF i <= Len(q) THEN q[i] ELSE r[i - Len(q)]
  BY <1>2, ConcatProperties
<1>4. DOMAIN t = 1 .. Len(q) + Len(r)
  BY <1>3, LenProperties
<1>5. \A i \in DOMAIN q : i \in DOMAIN t /\ t[i] = q[i]
  BY <1>1, <1>3, <1>4
<1> QED  BY <1>2, <1>5 DEF NoneOf

\* Events that are no message of the host are handled, or come.
LEMMA PairedTail ==
  ASSUME NEW T, NEW b \in Seq(T), b # <<>>, Head(b) \notin SerialReady,
         NEW s, NEW to, NEW routes, Paired(b, s, to, routes)
  PROVE  Paired(Tail(b), s, to, routes)
<1>1. /\ NoneOf(Tail(b), SerialReady) => NoneOf(b, SerialReady)
      /\ ~NoneOf(Tail(b), SerialReady) => ~NoneOf(b, SerialReady)
      /\ ~NoneOf(Tail(b), Tables) => ~NoneOf(b, Tables)
  BY TailBack, TailOne
<1>2. Out(b, s, to, routes) => Out(Tail(b), s, to, routes)
  BY <1>1 DEF Out
<1> QED  BY <1>1, <1>2 DEF Paired

LEMMA PairedAdds ==
  ASSUME NEW T, NEW b \in Seq(T), NEW r \in Seq(T), NoneOf(r, SerialReady), NoneOf(r, Tables),
         NEW s, NEW to, NEW routes, Paired(b, s, to, routes)
  PROVE  Paired(b \o r, s, to, routes)
<1>1. /\ NoneOf(b \o r, SerialReady) => NoneOf(b, SerialReady)
      /\ ~NoneOf(b \o r, SerialReady) => ~NoneOf(b, SerialReady)
      /\ ~NoneOf(b \o r, Tables) => ~NoneOf(b, Tables)
  BY ConcatBack, ConcatOne
<1>2. Out(b, s, to, routes) => Out(b \o r, s, to, routes)
  BY <1>1 DEF Out
<1> QED  BY <1>1, <1>2 DEF Paired

\* A message of the host comes.
LEMMA PairedHears ==
  ASSUME NEW T, NEW b \in Seq(T), NEW e \in T, e \notin SerialReady,
         NEW s, NEW to, NEW routes, Paired(b, s, to, routes),
         NEW t, t.out = s.out, t.state = s.state, t.in_send = s.in_send,
         t.get_payload = s.get_payload,
         NEW left, Elements(left) \subseteq Elements(to), NEW more, routes \subseteq more,
         /\ NoneOf(b, SerialReady) /\ s.state # "READY" /\ t.received.mode = "ANSWER"
         => Answers(t.received, s.in_send, more)
  PROVE  Paired(b \o <<e>>, t, left, more)
<1>1. <<e>> \in Seq(T) /\ NoneOf(<<e>>, SerialReady)
  BY SingleOne
<1>2. /\ NoneOf(b \o <<e>>, SerialReady) => NoneOf(b, SerialReady)
      /\ ~NoneOf(b \o <<e>>, SerialReady) => ~NoneOf(b, SerialReady)
  BY <1>1, ConcatBack, ConcatOne
<1>3. NoneOf(b, SerialReady) /\ s.state # "READY" => Out(b \o <<e>>, t, left, more)
  BY DEF Paired, Out
<1> QED  BY <1>2, <1>3 DEF Paired

\* A request is queued: to store a route, or the only one for a route.
LEMMA PairedQueues ==
  ASSUME NEW b, NEW s, s.out \in Seq(ToHost), NEW to, NEW routes, Paired(b, s, to, routes),
         NEW q \in ToHost, NEW t, t.out = Append(s.out, q), t.state = s.state,
         t.in_send = s.in_send, t.received = s.received,
         \/ q.mode # "GET" /\ t.get_payload = s.get_payload
         \/ NoneOf(s.out, Gets) /\ s.state # "GET" /\ t.get_payload = q.dest
  PROVE  Paired(b, t, to, routes)
<1>1. <<q>> \in Seq(ToHost) /\ Append(s.out, q) = s.out \o <<q>> /\ Elements(<<q>>) = {q}
  BY AppendIsConcat DEF Elements
<1>2. Elements(t.out) \subseteq Elements(s.out) \cup {q}
  BY <1>1, ElementsConcat
<1>3. One(<<q>>, Gets) /\ (q \notin Gets => NoneOf(<<q>>, Gets))
  BY SingleOne
<1>4. q.mode # "GET" => q \notin Gets
  BY DEF Gets
<1>5. One(s.out, Gets)
  BY DEF Paired
<1>6. One(t.out, Gets)
  <2>1. CASE q.mode # "GET"
    <3>1. One(s.out \o <<q>>, Gets)
      BY <1>1, <1>3, <1>4, <1>5, <2>1, ConcatOne
    <3> QED  BY <1>1, <3>1
  <2>2. CASE NoneOf(s.out, Gets)
    <3>1. One(s.out \o <<q>>, Gets)
      BY <1>1, <1>3, <2>2, ConcatOne
    <3> QED  BY <1>1, <3>1
  <2> QED  BY <2>1, <2>2
<1>7. NoneOf(s.out, Gets) /\ q.mode # "GET" => NoneOf(t.out, Gets)
  <2>1. NoneOf(s.out, Gets) /\ q.mode # "GET" => NoneOf(s.out \o <<q>>, Gets)
    BY <1>1, <1>3, <1>4, ConcatOne
  <2> QED  BY <1>1, <2>1
<1>8. \A x \in Elements(t.out) : x.mode = "GET" => x.dest = t.get_payload
  <2>1. \A x \in Elements(s.out) : x \in ToHost
    <3>1. \A i \in DOMAIN s.out : s.out[i] \in ToHost
      BY ElementOfSeq, LenProperties
    <3> QED  BY <3>1 DEF Elements
  <2>2. NoneOf(s.out, Gets) => \A x \in Elements(s.out) : x.mode # "GET"
    BY <2>1 DEF NoneOf, Elements, Gets
  <2> QED  BY <1>2, <2>2 DEF Paired
<1>9. s.out # <<>> => t.out # <<>> /\ Head(t.out) = Head(s.out)
  <2>1. s.out # <<>> => s.out \o <<q>> # <<>> /\ Head(s.out \o <<q>>) = Head(s.out)
    BY <1>1, ConcatHead
  <2> QED  BY <1>1, <2>1
<1>10. ~NoneOf(b, SerialReady) => t.out # <<>> /\ Head(t.out).mode = t.state
  BY <1>9 DEF Paired
<1>11. NoneOf(b, SerialReady) /\ t.state # "READY" => Out(b, t, to, routes)
  <2> SUFFICES ASSUME NoneOf(b, SerialReady), t.state # "READY" PROVE Out(b, t, to, routes)
    OBVIOUS
  <2>1. Out(b, s, to, routes)
    BY DEF Paired
  <2> QED  BY <1>7, <2>1 DEF Out
<1> QED  BY <1>6, <1>8, <1>10, <1>11 DEF Paired

\* The exchange with the first request of the queue begins.
LEMMA PairedStarts ==
  ASSUME NEW T, NEW b \in Seq(T), NEW e \in T, e \in SerialReady,
         NEW s, NEW to, NEW routes, Paired(b, s, to, routes), s.out # <<>>,
         NEW t, t.out = s.out, t.get_payload = s.get_payload, t.state = Head(s.out).mode
  PROVE  Paired(b \o <<e>>, t, to, routes)
<1>1. <<e>> \in Seq(T)
  OBVIOUS
<1>2. ~NoneOf(b \o <<e>>, SerialReady)
  <2>1. b \o <<e>> = Append(b, e)
    BY AppendIsConcat
  <2>2. Append(b, e)[Len(b) + 1] = e /\ Len(b) + 1 \in DOMAIN Append(b, e)
    BY AppendProperties, LenProperties
  <2> QED  BY <2>1, <2>2 DEF NoneOf
<1> QED  BY <1>2 DEF Paired

\* It is sent, and nothing else is out.
LEMMA PairedSent ==
  ASSUME NEW b, NEW s, s.out \in Seq(ToHost), s.out # <<>>, NEW to, NEW routes,
         One(s.out, Gets), \A q \in Elements(s.out) : q.mode = "GET" => q.dest = s.get_payload,
         Head(s.out).mode = s.state, NEW c, NoneOf(c, SerialReady),
         NEW t, t.out = Tail(s.out), t.state = s.state, t.in_send = Head(s.out),
         t.get_payload = s.get_payload,
         t.received.mode = "ANSWER" => NoneOf(c, Tables),
         NEW l, Elements(l) = {Head(s.out)}
  PROVE  Paired(c, t, l, routes)
<1>1. Head(s.out) \in ToHost /\ Head(s.out) \in Elements(s.out)
  <2>1. Head(s.out) = s.out[1] /\ 1 \in DOMAIN s.out
    BY HeadTailProperties, LenProperties, EmptySeq
  <2> QED  BY <2>1, TailIsSeq DEF Elements
<1>2. One(t.out, Gets) /\ (Head(s.out) \in Gets => NoneOf(t.out, Gets))
  BY TailOne
<1>3. Elements(t.out) \subseteq Elements(s.out)
  BY ElementsTail
<1>4. s.state = "GET" => Head(s.out) \in Gets /\ Head(s.out).dest = s.get_payload
  BY <1>1 DEF Gets
<1>5. Out(c, t, l, routes)
  BY <1>1, <1>2, <1>4 DEF Out
<1> QED  BY <1>2, <1>3, <1>5 DEF Paired

\* No exchange is under way.
LEMMA PairedIdle ==
  ASSUME NEW b, NoneOf(b, SerialReady), NEW s, s.state = "READY", NEW to, NEW routes,
         One(s.out, Gets), \A q \in Elements(s.out) : q.mode = "GET" => q.dest = s.get_payload
  PROVE  Paired(b, s, to, routes)
  BY DEF Paired

\* The steps of the model. The bus of the sink goes on, and no request is sent
\* or answered.
BusGoesOn ==
  \/ bus'[Sink] = bus[Sink]
  \/ bus[Sink] # <<>> /\ Head(bus[Sink]) \notin SerialReady /\ bus'[Sink] = Tail(bus[Sink])
  \/ \E r : NoneOf(r, SerialReady) /\ NoneOf(r, Tables)
              /\ (\E T : r \in Seq(T) /\ bus[Sink] \in Seq(T)) /\ bus'[Sink] = bus[Sink] \o r

LEMMA GoesOnPaired ==
  ASSUME IInv, BusGoesOn, NEW s, NEW to, NEW routes, Paired(bus[Sink], s, to, routes)
  PROVE  Paired(bus'[Sink], s, to, routes)
<1>1. bus[Sink] \in Seq(EventsOf(Sink))
  BY NodeAssumption DEF IInv, Buses
<1>2. CASE bus[Sink] # <<>> /\ Head(bus[Sink]) \notin SerialReady /\ bus'[Sink] = Tail(bus[Sink])
  BY <1>1, <1>2, PairedTail
<1>3. CASE \E r : NoneOf(r, SerialReady) /\ NoneOf(r, Tables)
                    /\ (\E T : r \in Seq(T) /\ bus[Sink] \in Seq(T)) /\ bus'[Sink] = bus[Sink] \o r
  BY <1>3, PairedAdds
<1> QED  BY <1>2, <1>3 DEF BusGoesOn

LEMMA HandledGoesOn ==
  ASSUME IInv, NEW n \in Node, bus[n] # <<>>, Handled(n, <<>>), Head(bus[n]).ev # "serial_ready"
  PROVE  BusGoesOn
<1>1. /\ \A k \in Node : k # n => bus'[k] = bus[k]
      /\ bus'[n] = Tail(bus[n])
  BY HandledTail
<1>2. Head(bus[n]) \notin SerialReady
  BY DEF SerialReady
<1> QED  BY <1>1, <1>2, NodeAssumption DEF BusGoesOn

LEMMA FireGoesOn ==
  ASSUME IInv, NEW n \in Node, NEW T, NEW r \in Seq(T), NoneOf(r, SerialReady), NoneOf(r, Tables),
         Fire(n, r)
  PROVE  BusGoesOn
<1>1. /\ \A k \in Node : k # n => bus'[k] = bus[k]
      /\ bus'[n] = bus[n] \o r /\ bus[n] \in Seq(EventsOf(n))
  BY FireAdds
<1>2. CASE n = Sink
  <2> DEFINE U == EventsOf(n) \cup T
  <2>1. EventsOf(n) \subseteq U /\ T \subseteq U
    OBVIOUS
  <2> HIDE DEF U
  <2>2. bus[n] \in Seq(U) /\ r \in Seq(U)
    BY <1>1, <2>1, SeqMonotonic
  <2> QED  BY <1>1, <1>2, <2>2 DEF BusGoesOn
<1> QED  BY <1>1, <1>2, NodeAssumption DEF BusGoesOn

LEMMA FireOneGoesOn ==
  ASSUME IInv, NEW n \in Node, NEW e, e.ev \notin {"serial_ready", "table"}, Fire(n, <<e>>)
  PROVE  BusGoesOn
<1>1. <<e>> \in Seq({e}) /\ e \notin SerialReady /\ e \notin Tables
  BY DEF SerialReady, Tables
<1>2. NoneOf(<<e>>, SerialReady) /\ NoneOf(<<e>>, Tables)
  BY <1>1, SingleOne
<1> QED  BY <1>1, <1>2, FireGoesOn

LEMMA DispatchGoesOn ==
  ASSUME IInv, NEW n \in Node, NEW q, NEW e, e.ev \notin {"serial_ready", "table"},
         NEW fired \in {<<>>, <<e>>}, Dispatch(n, q, fired)
  PROVE  BusGoesOn
<1>1. PICK r, d : /\ d = Event("ready") /\ r \in {<<>>, <<d>>} /\ Fire(n, fired \o r)
  BY DEF Dispatch
<1> DEFINE S == SerialReady \cup Tables
<1>2. e \notin S /\ d \notin S
  BY <1>1 DEF SerialReady, Tables, Event
<1> HIDE DEF S
<1>3. <<>> \in Seq({e, d}) /\ <<e>> \in Seq({e, d}) /\ <<d>> \in Seq({e, d})
  BY EmptyIsSeq
<1>4. NoneOf(<<>>, S)
  BY DEF NoneOf
<1>5. NoneOf(<<e>>, S) /\ NoneOf(<<d>>, S)
  BY <1>2, SingleOne
<1>6. fired \in Seq({e, d}) /\ r \in Seq({e, d}) /\ NoneOf(fired, S) /\ NoneOf(r, S)
  BY <1>1, <1>3, <1>4, <1>5
<1>7. fired \o r \in Seq({e, d}) /\ NoneOf(fired \o r, S)
  BY <1>6, ConcatOne, ConcatIsSeq
<1>8. NoneOf(fired \o r, SerialReady) /\ NoneOf(fired \o r, Tables)
  BY <1>7 DEF NoneOf, S
<1> QED  BY <1>1, <1>7, <1>8, FireGoesOn

\* One bus of a node goes on when a packet is delivered or answered.
LEMMA MacGoesOn ==
  ASSUME IInv, NEW n \in Node, MacStep(n)
  PROVE  BusGoesOn /\ UNCHANGED sinkVars
<1>1. UNCHANGED sinkVars
  BY DEF MacStep, MacDeliver, MacRepeat, MacSent, MacTimeout
<1>2. CASE MacDeliver(n)
  <2>1. PICK i \in DOMAIN mac[n] : \E m \in mac[n][i].left :
          Fire(m, <<EventOf("recv", mac[n][i].pkt)>>)
    BY <1>2 DEF MacDeliver
  <2>2. mac[n][i].left \subseteq Node
    BY <2>1, InMac DEF Message
  <2>3. PICK e : e = EventOf("recv", mac[n][i].pkt)
    OBVIOUS
  <2>4. e.ev \notin {"serial_ready", "table"}
    BY <2>3 DEF EventOf
  <2> QED  BY <1>1, <2>1, <2>2, <2>3, <2>4, FireOneGoesOn
<1>3. CASE MacSent(n) \/ MacTimeout(n)
  <2>1. PICK i \in DOMAIN mac[n], ev \in {"sent", "timeout"} :
          Fire(n, <<EventOf(ev, mac[n][i].pkt)>>)
    BY <1>3 DEF MacSent, MacTimeout
  <2>2. PICK e : e = EventOf(ev, mac[n][i].pkt)
    OBVIOUS
  <2>3. e.ev \notin {"serial_ready", "table"}
    BY <2>2 DEF EventOf
  <2> QED  BY <1>1, <2>1, <2>2, <2>3, FireOneGoesOn
<1>4. CASE MacRepeat(n)
  BY <1>1, <1>4 DEF MacRepeat, BusGoesOn
<1> QED  BY <1>2, <1>3, <1>4 DEF MacStep

LEMMA BusStepPaired ==
  ASSUME IInv, IInv', PairInv, NEW n \in Node, BusStep(n)
  PROVE  Paired(bus[Sink], serial, host.to, host.routes)'
<1>1. bus[n] # <<>> /\ Handled(n, <<>>) /\ Head(bus[n]).ev # "serial_ready" /\ UNCHANGED host
  BY DEF BusStep, SendToMac, PacketSent, PacketTimeout, RecvIgnored, RecvRtInit, RecvData,
     RecvCommand, RecvRtAck, RecvJoin, RecvLeave, RecvConnectionLost, Accepted, At, sinkVars
<1>2. Paired(bus'[Sink], serial, host.to, host.routes)
  BY <1>1, HandledGoesOn, GoesOnPaired DEF PairInv
<1>3. Paired(bus'[Sink], serial', host.to, host.routes)
  <2>1. CASE RecvRtAck(n) /\ n = Sink
    <3>1. PICK q : q = [mode |-> "PUT", route |-> Received(n).route, dest |-> NULL]
      OBVIOUS
    <3>2. /\ serial'.out = Append(serial.out, q) /\ serial'.state = serial.state
          /\ serial'.in_send = serial.in_send /\ serial'.received = serial.received
          /\ serial'.get_payload = serial.get_payload
      BY <2>1, <3>1 DEF RecvRtAck, RelayRtAck, IInv, SerialInv
    <3>3. q.mode # "GET" /\ serial.out \in Seq(ToHost)
      BY <3>1 DEF IInv, SerialInv
    <3>4. q \in ToHost
      <4>1. serial'.out \in Seq(ToHost)
        BY DEF IInv, SerialInv
      <4>2. serial.out \in Seq(ToHost \cup {q})
        BY <3>3, SeqMonotonic
      <4>3. Append(serial.out, q)[Len(serial.out) + 1] = q
            /\ Len(Append(serial.out, q)) = Len(serial.out) + 1 /\ Len(serial.out) \in Nat
        BY <4>2, AppendProperties, LenProperties
      <4>4. Len(serial.out) + 1 \in 1 .. Len(serial'.out)
        BY <3>2, <4>3
      <4> QED  BY <3>2, <4>1, <4>3, <4>4, ElementOfSeq
    <3> QED  BY <1>2, <3>2, <3>3, <3>4, PairedQueues
  <2>2. CASE ~(RecvRtAck(n) /\ n = Sink)
    <3>1. UNCHANGED serial
      BY <2>2 DEF BusStep, SendToMac, PacketSent, PacketTimeout, RecvIgnored, RecvRtInit, RecvData,
         RecvCommand, RecvRtAck, RecvJoin, RecvLeave, RecvConnectionLost, sinkVars
    <3> QED  BY <1>2, <3>1
  <2> QED  BY <2>1, <2>2
<1> QED  BY <1>1, <1>3

LEMMA CountOf ==
  ASSUME NEW T, NEW b \in Seq(T), NEW ev
  PROVE  LET n == Cardinality({i \in DOMAIN b : b[i].ev = ev})
         IN n \in Nat /\ (n = 0 => \A i \in DOMAIN b : b[i].ev # ev)
<1> DEFINE S == {i \in DOMAIN b : b[i].ev = ev}
<1>1. DOMAIN b = 1 .. Len(b) /\ Len(b) \in Nat
  BY LenProperties
<1>2. IsFiniteSet(DOMAIN b)
  BY <1>1, FS_Interval
<1>3. IsFiniteSet(S)
  BY <1>2, FS_Subset
<1>4. Cardinality(S) \in Nat /\ (Cardinality(S) = 0 => S = {})
  BY <1>3, FS_CardinalityType, FS_EmptySet
<1> QED  BY <1>4

\* A request was just sent: it is the only one that is out.
LEMMA OnlyRequest ==
  ASSUME IInv, IInv', ~UnawaitedAnswer', NEW q \in ToHost, host'.to = Append(host.to, q)
  PROVE  /\ Elements(host'.to) = {q}
         /\ serial'.received.mode = "ANSWER" => NoneOf(bus'[Sink], Tables)
<1> DEFINE n == Cardinality({i \in DOMAIN bus'[Sink] : bus'[Sink][i].ev = "table"})
<1>1. host.to \in Seq(ToHost)
  BY DEF IInv, HostInv
<1>2. /\ Len(host'.to) = Len(host.to) + 1 /\ Len(host.to) \in Nat
      /\ Append(host.to, q) = host.to \o <<q>>
  BY <1>1, AppendProperties, LenProperties, AppendIsConcat
<1>3. bus'[Sink] \in Seq(EventsOf(Sink)')
  BY NodeAssumption DEF IInv, Buses
<1>4. n \in Nat /\ (n = 0 => \A i \in DOMAIN bus'[Sink] : bus'[Sink][i].ev # "table")
  BY <1>3, CountOf
<1>5. Len(host'.to) + (IF serial'.received.mode = "ANSWER" THEN n ELSE 0) <= 1
  <2>1. ~(Len(host'.to) + (IF serial'.received.mode = "ANSWER" THEN n ELSE 0)
            > IF serial'.state = "READY" THEN 0 ELSE 1)
    BY DEF UnawaitedAnswer, Pending, SerialIdle
  <2> HIDE DEF n
  <2> QED  BY <1>2, <1>4, <2>1
<1> HIDE DEF n
<1>6. Len(host.to) = 0 /\ (serial'.received.mode = "ANSWER" => n = 0)
  <2>1. CASE serial'.received.mode = "ANSWER"
    <3>1. Len(host.to) + 1 + n <= 1
      BY <1>2, <1>5, <2>1
    <3> QED  BY <1>2, <1>4, <3>1
  <2>2. CASE serial'.received.mode # "ANSWER"
    <3>1. Len(host.to) + 1 + 0 <= 1
      BY <1>2, <1>5, <2>2
    <3> QED  BY <1>2, <2>2, <3>1
  <2> QED  BY <2>1, <2>2
<1>7. host.to = <<>>
  BY <1>1, <1>6, EmptySeq
<1>8. host'.to = <<q>>
  BY <1>2, <1>7
<1>9. Elements(host'.to) = {q}
  BY <1>8 DEF Elements
<1> QED  BY <1>4, <1>6, <1>9 DEF NoneOf, Tables

LEMMA SendToSerialPaired ==
  ASSUME IInv, IInv', SerialPops, PairInv, ~UnawaitedAnswer', SendToSerial
  PROVE  Paired(bus[Sink], serial, host.to, host.routes)'
<1>1. /\ bus[Sink] # <<>> /\ Head(bus[Sink]).ev = "serial_ready" /\ Handled(Sink, <<>>)
      /\ serial.out # <<>> /\ serial' = [serial EXCEPT !.in_send = Head(serial.out), !.out = Tail(@)]
      /\ host' = [host EXCEPT !.to = Append(@, Head(serial.out))]
  BY DEF SendToSerial, At
<1>2. bus'[Sink] = Tail(bus[Sink]) /\ bus[Sink] \in Seq(EventsOf(Sink))
  BY <1>1, HandledTail, NodeAssumption
<1>3. Head(bus[Sink]) \in SerialReady
  <2>1. Head(bus[Sink]) \in EventsOf(Sink)
    BY <1>1, HeadEvent, NodeAssumption DEF IInv
  <2> QED  BY <1>1, <2>1 DEF EventsOf, SerialReady
<1>4. NoneOf(bus'[Sink], SerialReady) /\ ~NoneOf(bus[Sink], SerialReady)
  BY <1>1, <1>2, <1>3, SerialTail, TailOne DEF SerialPops
<1>5. /\ One(serial.out, Gets)
      /\ \A q \in Elements(serial.out) : q.mode = "GET" => q.dest = serial.get_payload
      /\ Head(serial.out).mode = serial.state
  BY <1>4 DEF PairInv, Paired
<1>6. serial.out \in Seq(ToHost) /\ Head(serial.out) \in ToHost
  BY <1>1, TailIsSeq DEF IInv, SerialInv
<1>7. /\ serial'.out = Tail(serial.out) /\ serial'.state = serial.state
      /\ serial'.in_send = Head(serial.out) /\ serial'.get_payload = serial.get_payload
      /\ host'.to = Append(host.to, Head(serial.out)) /\ host'.routes = host.routes
  BY <1>1 DEF IInv, SerialInv, HostInv
<1>8. /\ Elements(host'.to) = {Head(serial.out)}
      /\ serial'.received.mode = "ANSWER" => NoneOf(bus'[Sink], Tables)
  BY <1>6, <1>7, OnlyRequest
<1>9. Paired(bus'[Sink], serial', host'.to, host.routes)
  BY <1>1, <1>4, <1>5, <1>6, <1>7, <1>8, PairedSent
<1> QED  BY <1>7, <1>9

\* The request that is out is sent once more.
LEMMA PairedResent ==
  ASSUME NEW b, NEW s, NEW to, NEW routes, Paired(b, s, to, routes),
         NEW t, t.out = s.out, t.state = s.state, t.in_send = s.in_send,
         t.get_payload = s.get_payload, t.received = s.received,
         NEW l, Elements(l) \subseteq Elements(to) \cup {s.in_send}
  PROVE  Paired(b, t, l, routes)
<1>1. Out(b, s, to, routes) => Out(b, t, l, routes)
  BY DEF Out
<1> QED  BY <1>1 DEF Paired

LEMMA RecvInitPaired ==
  ASSUME IInv, PairInv, RecvInit
  PROVE  Paired(bus[Sink], serial, host.to, host.routes)'
<1>1. /\ bus[Sink] # <<>> /\ Head(bus[Sink]).ev = "table" /\ Handled(Sink, <<>>)
      /\ serial' = [serial EXCEPT !.initiated = TRUE]
      /\ host' = [host EXCEPT !.to = @ \o Resent]
  BY DEF RecvInit, At
<1>2. Paired(bus'[Sink], serial, host.to, host.routes)
  BY <1>1, HandledGoesOn, GoesOnPaired, NodeAssumption DEF PairInv
<1>3. /\ serial'.out = serial.out /\ serial'.state = serial.state
      /\ serial'.in_send = serial.in_send /\ serial'.received = serial.received
      /\ serial'.get_payload = serial.get_payload
      /\ host'.to = host.to \o Resent /\ host'.routes = host.routes
  BY <1>1 DEF IInv, SerialInv, HostInv
<1> DEFINE S == ToHost \cup {serial.in_send}
<1>4. host.to \in Seq(S) /\ Resent \in Seq(S)
  <2>1. host.to \in Seq(ToHost) /\ ToHost \subseteq S /\ serial.in_send \in S
    BY DEF IInv, HostInv
  <2> HIDE DEF S
  <2> QED  BY <2>1, SeqMonotonic, EmptyIsSeq DEF Resent
<1> HIDE DEF S
<1>5. Elements(Resent) \subseteq {serial.in_send}
  BY DEF Elements, Resent
<1>6. Elements(host.to \o Resent) \subseteq Elements(host.to) \cup Elements(Resent)
  BY <1>4, ElementsConcat
<1>7. Elements(host'.to) \subseteq Elements(host.to) \cup {serial.in_send}
  BY <1>3, <1>5, <1>6
<1>8. Paired(bus'[Sink], serial', host'.to, host.routes)
  BY <1>2, <1>3, <1>7, PairedResent
<1> QED  BY <1>3, <1>8

\* The exchange the answer ends has been sent.
LEMMA AnswerAfterSending ==
  ASSUME IInv, SerialPops, RecvAnswer
  PROVE  /\ NoneOf(bus[Sink], SerialReady) /\ ~NoneOf(bus[Sink], Tables)
         /\ NoneOf(bus'[Sink], SerialReady) /\ bus'[Sink] = Tail(bus[Sink])
<1>1. /\ bus[Sink] # <<>> /\ Head(bus[Sink]).ev = "table" /\ Handled(Sink, <<>>)
      /\ serial.received.mode = "ANSWER"
  BY DEF RecvAnswer, At
<1>2. bus'[Sink] = Tail(bus[Sink]) /\ bus[Sink] \in Seq(EventsOf(Sink))
  BY <1>1, HandledTail, NodeAssumption
<1>3. Head(bus[Sink]) \in Tables /\ Head(bus[Sink]) \notin SerialReady
  <2>1. Head(bus[Sink]) \in EventsOf(Sink)
    BY <1>1, HeadEvent, NodeAssumption DEF IInv
  <2> QED  BY <1>1, <2>1 DEF EventsOf, Tables, SerialReady
<1>4. NoneOf(Tail(bus[Sink]), SerialReady)
  BY <1>1, <1>2, <1>3, SerialTail DEF SerialPops
<1>5. NoneOf(bus[Sink], SerialReady)
  BY <1>1, <1>2, <1>3, <1>4, TailBack
<1>6. ~NoneOf(bus[Sink], Tables)
  BY <1>1, <1>2, <1>3, TailOne
<1> QED  BY <1>2, <1>4, <1>5, <1>6

LEMMA RecvAnswerPaired ==
  ASSUME IInv, SerialPops, PairInv, RecvAnswer
  PROVE  Paired(bus[Sink], serial, host.to, host.routes)'
<1>1. NoneOf(bus'[Sink], SerialReady) /\ UNCHANGED host
  BY AnswerAfterSending DEF RecvAnswer
<1>2. serial.state \in {"GET", "PUT", "READY"}
  BY DEF IInv, SerialInv
<1>3. serial'.state = "READY" /\ serial'.out = serial.out /\ serial'.get_payload = serial.get_payload
  BY <1>2 DEF RecvAnswer, RouteAnswered, IInv, SerialInv
<1>4. /\ One(serial.out, Gets)
      /\ \A q \in Elements(serial.out) : q.mode = "GET" => q.dest = serial.get_payload
  BY DEF PairInv, Paired
<1>5. Paired(bus'[Sink], serial', host.to, host.routes)
  BY <1>1, <1>3, <1>4, PairedIdle
<1> QED  BY <1>1, <1>5

LEMMA SinkSendPaired ==
  ASSUME IInv, PairInv, OneCaller, NEW f \in Caller, SinkSend(f)
  PROVE  Paired(bus[Sink], serial, host.to, host.routes)'
<1>1. PICK d \in Node : serial' = [serial EXCEPT !.get_payload = d, !.waits = TRUE, !.out =
                          Append(@, [mode |-> "GET", route |-> <<>>, dest |-> d])]
  BY DEF SinkSend
<1>2. /\ bus[Sink] # <<>> /\ Head(bus[Sink]).ev = "request" /\ Handled(Sink, <<>>)
      /\ UNCHANGED host /\ caller[f] = NULL
  BY DEF SinkSend, At
<1>3. Paired(bus'[Sink], serial, host.to, host.routes)
  BY <1>2, HandledGoesOn, GoesOnPaired, NodeAssumption DEF PairInv
<1>4. PICK q : q = [mode |-> "GET", route |-> <<>>, dest |-> d]
  OBVIOUS
<1>5. /\ serial'.out = Append(serial.out, q) /\ serial'.state = serial.state
      /\ serial'.in_send = serial.in_send /\ serial'.received = serial.received
      /\ serial'.get_payload = q.dest /\ serial.out \in Seq(ToHost)
  BY <1>1, <1>4 DEF IInv, SerialInv
<1>6. q \in ToHost
  <2>1. <<>> \in Seq(Node)
    BY EmptyIsSeq
  <2> QED  BY <1>4, <2>1 DEF ToHost
<1>7. NoneOf(serial.out, Gets) /\ serial.state # "GET"
  BY <1>2 DEF PairInv, Awaited, OneCaller
<1>8. Paired(bus'[Sink], serial', host.to, host.routes)
  BY <1>3, <1>5, <1>6, <1>7, PairedQueues
<1> QED  BY <1>2, <1>8

LEMMA SerialIdlePaired ==
  ASSUME IInv, PairInv, SerialIdleTick
  PROVE  Paired(bus[Sink], serial, host.to, host.routes)'
<1>1. /\ serial.out # <<>> /\ serial' = [serial EXCEPT !.state = Head(serial.out).mode]
      /\ Fire(Sink, <<Event("serial_ready")>>) /\ UNCHANGED host
  BY DEF SerialIdleTick
<1>2. PICK e : e = Event("serial_ready")
  OBVIOUS
<1>3. e \in SerialReady /\ e \in EventsOf(Sink)
  BY <1>2 DEF Event, SerialReady, EventsOf
<1>4. bus'[Sink] = bus[Sink] \o <<e>> /\ bus[Sink] \in Seq(EventsOf(Sink))
  BY <1>1, <1>2, FireAdds, NodeAssumption
<1>5. /\ serial'.out = serial.out /\ serial'.state = Head(serial.out).mode
      /\ serial'.get_payload = serial.get_payload
  BY <1>1 DEF IInv, SerialInv
<1>6. Paired(bus[Sink] \o <<e>>, serial', host.to, host.routes)
  BY <1>1, <1>3, <1>4, <1>5, PairedStarts DEF PairInv
<1> QED  BY <1>1, <1>4, <1>6

\* The host delivers m, and has left requests to answer and more routes.
LEMMA HostDeliversPaired ==
  ASSUME IInv, PairInv, NEW m, HostDelivers(m),
         Elements(host'.to) \subseteq Elements(host.to), host.routes \subseteq host'.routes,
         /\ Out(bus[Sink], serial, host.to, host.routes) /\ m.mode = "ANSWER"
         => Answers(m, serial.in_send, host'.routes)
  PROVE  Paired(bus[Sink], serial, host.to, host.routes)'
<1>1. Fire(Sink, <<Event("table")>>) /\ serial' = [serial EXCEPT !.received = m]
  BY DEF HostDelivers
<1>2. PICK e : e = Event("table")
  OBVIOUS
<1>3. e \notin SerialReady /\ e \in EventsOf(Sink)
  BY <1>2 DEF Event, SerialReady, EventsOf
<1>4. bus'[Sink] = bus[Sink] \o <<e>> /\ bus[Sink] \in Seq(EventsOf(Sink))
  BY <1>1, <1>2, FireAdds, NodeAssumption
<1>5. /\ serial'.out = serial.out /\ serial'.state = serial.state /\ serial'.received = m
      /\ serial'.in_send = serial.in_send /\ serial'.get_payload = serial.get_payload
  BY <1>1 DEF IInv, SerialInv
<1>6. /\ NoneOf(bus[Sink], SerialReady) /\ serial.state # "READY" /\ serial'.received.mode = "ANSWER"
      => Answers(serial'.received, serial.in_send, host'.routes)
  BY <1>5 DEF PairInv, Paired
<1>7. PICK left, more : left = host'.to /\ more = host'.routes
  OBVIOUS
<1>8. Paired(bus[Sink] \o <<e>>, serial', left, more)
  BY <1>3, <1>4, <1>5, <1>6, <1>7, PairedHears DEF PairInv
<1> QED  BY <1>4, <1>7, <1>8

LEMMA HostStartPaired ==
  ASSUME IInv, PairInv, HostStart
  PROVE  Paired(bus[Sink], serial, host.to, host.routes)'
<1>1. host.to \in Seq(ToHost) /\ Len(host.to) \in Nat
  BY LenProperties DEF IInv, HostInv
<1>2. PICK k \in 0 .. Len(host.to) :
        host' = [host EXCEPT !.to = SubSeq(@, Len(@) - k + 1, Len(@))]
  BY DEF HostStart
<1>3. /\ host'.to = SubSeq(host.to, Len(host.to) - k + 1, Len(host.to))
      /\ host'.routes = host.routes
  BY <1>2 DEF IInv, HostInv
<1>4. Len(host.to) - k + 1 \in Nat \ {0} /\ Len(host.to) \in 0 .. Len(host.to)
  BY <1>1
<1>5. Elements(host'.to) \subseteq Elements(host.to)
  BY <1>1, <1>3, <1>4, ElementsSub
<1>6. PICK m : m = [mode |-> "INIT"] /\ HostDelivers(m)
  BY DEF HostStart
<1>7. m.mode # "ANSWER"
  BY <1>6
<1> QED  BY <1>3, <1>5, <1>6, <1>7, HostDeliversPaired

LEMMA HostAnswerPaired ==
  ASSUME IInv, PairInv, HostAnswer
  PROVE  Paired(bus[Sink], serial, host.to, host.routes)'
<1> DEFINE q == Head(host.to)
<1>1. /\ host.to # <<>>
      /\ host' = [to |-> Tail(host.to),
                  routes |-> host.routes \cup IF q.mode = "PUT" THEN {q.route} ELSE {}]
  BY DEF HostAnswer
<1>2. PICK m :
        /\ HostDelivers(m)
        /\ m.found => q.mode = "GET" /\ m.route \in host.routes /\ Last(m.route) = q.dest
  <2>1. CASE q.mode = "GET" /\ RoutesTo(q.dest) # {}
    <3>1. PICK r \in RoutesTo(q.dest) :
            HostDelivers([mode |-> "ANSWER", found |-> TRUE, route |-> r])
      BY <2>1 DEF HostAnswer
    <3>2. r \in host.routes /\ Last(r) = q.dest
      BY DEF RoutesTo
    <3>3. PICK m : m = [mode |-> "ANSWER", found |-> TRUE, route |-> r]
      OBVIOUS
    <3>4. m.route = r
      BY <3>3
    <3> QED  BY <2>1, <3>1, <3>2, <3>3, <3>4
  <2>2. CASE ~(q.mode = "GET" /\ RoutesTo(q.dest) # {})
    <3>1. HostDelivers(EmptyAnswer)
      BY <2>2 DEF HostAnswer
    <3> QED  BY <3>1 DEF EmptyAnswer
  <2> QED  BY <2>1, <2>2
<1>3. host.to \in Seq(ToHost)
  BY DEF IInv, HostInv
<1>4. q \in Elements(host.to)
  <2>1. q = host.to[1] /\ 1 \in DOMAIN host.to
    BY <1>1, <1>3, HeadTailProperties, LenProperties, EmptySeq
  <2> QED  BY <2>1 DEF Elements
<1>5. Elements(Tail(host.to)) \subseteq Elements(host.to)
  BY <1>1, <1>3, ElementsTail
<1> HIDE DEF q
<1>6. host'.to = Tail(host.to) /\ host.routes \subseteq host'.routes
  BY <1>1
<1>7. Out(bus[Sink], serial, host.to, host.routes) => Answers(m, serial.in_send, host'.routes)
  <2> SUFFICES ASSUME Out(bus[Sink], serial, host.to, host.routes), m.found
               PROVE  /\ serial.in_send.mode = "GET" /\ m.route \in host'.routes
                      /\ Last(m.route) = serial.in_send.dest
    BY DEF Answers
  <2>1. q = serial.in_send
    BY <1>4 DEF Out
  <2>2. q.mode = "GET" /\ m.route \in host.routes /\ Last(m.route) = q.dest
    BY <1>2
  <2> QED  BY <1>6, <2>1, <2>2
<1> QED  BY <1>2, <1>5, <1>6, <1>7, HostDeliversPaired

LEMMA PairedStep ==
  ASSUME IInv, IInv', SerialPops, PairInv, OneCaller, ~UnawaitedAnswer', [Next]_vars
  PROVE  Paired(bus[Sink], serial, host.to, host.routes)'
<1>1. CASE \E n \in Node : BusStep(n)
  BY <1>1, BusStepPaired
<1>2. CASE \E n \in Node : MacStep(n)
  <2>1. BusGoesOn /\ UNCHANGED <<serial, host>>
    BY <1>2, MacGoesOn DEF sinkVars
  <2>2. Paired(bus'[Sink], serial, host.to, host.routes)
    BY <2>1, GoesOnPaired DEF PairInv
  <2> QED  BY <2>1, <2>2
<1>3. CASE \E n \in Node : Restart(n)
  <2>1. PICK n \in Node : Restart(n)
    BY <1>3
  <2>2. CASE n = Sink
    <3>1. bus'[Sink] = <<>> /\ serial'.state = "READY" /\ serial'.out = <<>>
      <4>1. bus' = [bus EXCEPT ![Sink] = <<>>] /\ serial' = NoSerial
        BY <2>1, <2>2 DEF Restart
      <4> QED  BY <4>1, NodeAssumption DEF IInv, Buses, NoSerial
    <3>2. NoneOf(<<>>, SerialReady) /\ One(<<>>, Gets) /\ Elements(<<>>) = {}
      BY DEF NoneOf, One, Elements
    <3>3. \A to, routes : Paired(bus'[Sink], serial', to, routes)
      BY <3>1, <3>2, PairedIdle
    <3> QED  BY <3>3
  <2>3. CASE n # Sink
    <3>1. bus'[Sink] = bus[Sink] /\ UNCHANGED <<serial, host>>
      BY <2>1, <2>3, NodeAssumption DEF Restart, IInv, Buses
    <3> QED  BY <3>1 DEF PairInv
  <2> QED  BY <2>2, <2>3
<1>4. CASE \/ \E n \in Node : Send(n) \/ Recv(n) \/ RecvConnection(n)
           \/ (\E f \in Caller : SinkSendReturns(f)) \/ UNCHANGED vars
  <2>1. UNCHANGED <<bus, serial, host>>
    BY <1>4 DEF Send, Recv, RecvConnection, SinkSendReturns, vars, sinkVars
  <2> QED  BY <2>1 DEF PairInv
<1>5. CASE IncrBroadcastCounter
  <2>1. /\ bus[Sink] # <<>> /\ Head(bus[Sink]).ev # "serial_ready" /\ Handled(Sink, <<>>)
        /\ UNCHANGED <<serial, host>>
    BY <1>5 DEF IncrBroadcastCounter, At
  <2>2. Paired(bus'[Sink], serial, host.to, host.routes)
    BY <2>1, HandledGoesOn, GoesOnPaired, NodeAssumption DEF PairInv
  <2> QED  BY <2>1, <2>2
<1>6. CASE SendToSerial \/ RecvInit \/ RecvAnswer \/ \E f \in Caller : SinkSend(f)
  BY <1>6, SendToSerialPaired, RecvInitPaired, RecvAnswerPaired, SinkSendPaired
<1>7. CASE SerialIdleTick
  BY <1>7, SerialIdlePaired
<1>8. CASE SinkIdleTick \/ \E n \in Node : NodeIdleTick(n)
  <2>1. UNCHANGED <<serial, host>>
    BY <1>8 DEF SinkIdleTick, NodeIdleTick, sinkVars
  <2>2. PICK e : e = Event("incr")
    OBVIOUS
  <2>3. e.ev \notin {"serial_ready", "table"}
    BY <2>2 DEF Event
  <2>4. \E n \in Node : \E q : \E fired \in {<<>>, <<e>>} : Dispatch(n, q, fired)
    BY <1>8, <2>2, NodeAssumption DEF SinkIdleTick, NodeIdleTick
  <2>5. Paired(bus'[Sink], serial, host.to, host.routes)
    BY <2>3, <2>4, DispatchGoesOn, GoesOnPaired DEF PairInv
  <2> QED  BY <2>1, <2>5
<1>9. CASE HostAnswer \/ HostStart
  BY <1>9, HostAnswerPaired, HostStartPaired
<1>10. CASE Boot
  <2>1. /\ ~serial.up /\ UNCHANGED <<bus, host>>
        /\ serial'.state = serial.state /\ serial'.out = serial.out
    BY <1>10 DEF Boot, IInv, SerialInv
  <2>2. NoneOf(bus'[Sink], SerialReady)
    BY <2>1 DEF SerialPops, SerialFine
  <2>3. serial'.state = "READY" /\ serial'.out = <<>>
    BY <2>1 DEF PairInv, Awaited
  <2>4. One(<<>>, Gets) /\ Elements(<<>>) = {}
    BY DEF One, Elements
  <2>5. Paired(bus'[Sink], serial', host.to, host.routes)
    BY <2>2, <2>3, <2>4, PairedIdle
  <2> QED  BY <2>1, <2>5
<1>11. CASE Request
  <2>1. UNCHANGED <<serial, host>> /\ Fire(Sink, <<Event("request")>>)
    BY <1>11 DEF Request, sinkVars
  <2>2. PICK e : e = Event("request")
    OBVIOUS
  <2>3. e.ev \notin {"serial_ready", "table"}
    BY <2>2 DEF Event
  <2>4. Paired(bus'[Sink], serial, host.to, host.routes)
    BY <2>1, <2>2, <2>3, FireOneGoesOn, GoesOnPaired, NodeAssumption DEF PairInv
  <2> QED  BY <2>1, <2>4
<1> QED  BY <1>1, <1>2, <1>3, <1>4, <1>5, <1>6, <1>7, <1>8, <1>9, <1>10, <1>11
         DEF Next, SinkBusStep, IdleStep

\* The fibers: what keeps the fiber that asked waiting.
AsksNothing(b, c) == NoneOf(b, Asking) => NoneOf(c, Asking)
Wanted(s) == s.state = "GET" \/ ~NoneOf(s.out, Gets)

LEMMA AwaitedKept ==
  ASSUME IInv, Awaited, UNCHANGED caller,
         ~serial'.up => /\ ~serial.up /\ serial'.state = serial.state /\ serial'.out = serial.out
                        /\ AsksNothing(bus[Sink], bus'[Sink]),
         Wanted(serial') => Wanted(serial) /\ serial'.waits = serial.waits
  PROVE  Awaited'
<1>1. Wanted(serial') => serial'.waits /\ \E f \in Caller : caller'[f] # NULL
  BY DEF Awaited, Wanted
<1>2. ~serial'.up => /\ serial'.state = "READY" /\ serial'.out = <<>>
                     /\ NoneOf(bus'[Sink], Asking)
  BY DEF Awaited, AsksNothing
<1>3. caller' \in [Caller -> Node \cup {NULL}]
  BY DEF Awaited
<1> QED  BY <1>1, <1>2, <1>3 DEF Awaited, Wanted, Gets

LEMMA HandledAsks ==
  ASSUME IInv, NEW n \in Node, bus[n] # <<>>, Handled(n, <<>>)
  PROVE  AsksNothing(bus[Sink], bus'[Sink])
<1>1. /\ \A k \in Node : k # n => bus'[k] = bus[k]
      /\ bus'[n] = Tail(bus[n]) /\ bus[n] \in Seq(EventsOf(n))
  BY HandledTail
<1>2. NoneOf(bus[n], Asking) => NoneOf(Tail(bus[n]), Asking)
  BY <1>1, TailOne
<1> QED  BY <1>1, <1>2, NodeAssumption DEF AsksNothing

LEMMA FireAsks ==
  ASSUME IInv, NEW n \in Node, NEW e, e.ev # "request", Fire(n, <<e>>)
  PROVE  AsksNothing(bus[Sink], bus'[Sink])
<1>1. /\ \A k \in Node : k # n => bus'[k] = bus[k]
      /\ bus'[n] = bus[n] \o <<e>> /\ bus[n] \in Seq(EventsOf(n))
  BY FireAdds
<1> DEFINE U == EventsOf(n) \cup {e}
<1>2. bus[n] \in Seq(U) /\ <<e>> \in Seq(U)
  <2>1. EventsOf(n) \subseteq U /\ e \in U
    OBVIOUS
  <2> HIDE DEF U
  <2> QED  BY <1>1, <2>1, SeqMonotonic
<1> HIDE DEF U
<1>3. e \notin Asking
  BY DEF Asking
<1>4. NoneOf(<<e>>, Asking)
  BY <1>3, SingleOne
<1>5. NoneOf(bus[n], Asking) => NoneOf(bus[n] \o <<e>>, Asking)
  BY <1>2, <1>4, ConcatOne
<1> QED  BY <1>1, <1>5, NodeAssumption DEF AsksNothing

LEMMA BusStepAwaited ==
  ASSUME IInv, IInv', Awaited, NEW n \in Node, BusStep(n)
  PROVE  Awaited'
<1>1. bus[n] # <<>> /\ Handled(n, <<>>) /\ UNCHANGED caller /\ Up(n)
  BY DEF BusStep, SendToMac, PacketSent, PacketTimeout, RecvIgnored, RecvRtInit, RecvData,
     RecvCommand, RecvRtAck, RecvJoin, RecvLeave, RecvConnectionLost, Accepted, At, sinkVars
<1>2. CASE RecvRtAck(n) /\ n = Sink
  <2>1. PICK q : q = [mode |-> "PUT", route |-> Received(n).route, dest |-> NULL]
    OBVIOUS
  <2>2. /\ serial'.out = Append(serial.out, q) /\ serial'.state = serial.state
        /\ serial'.waits = serial.waits /\ serial'.up = serial.up
        /\ serial.out \in Seq(ToHost)
    BY <1>2, <2>1 DEF RecvRtAck, RelayRtAck, IInv, SerialInv
  <2>3. serial.up
    BY <1>1, <1>2 DEF Up
  <2>4. NoneOf(serial.out, Gets) => NoneOf(serial'.out, Gets)
    <3> DEFINE U == ToHost \cup {q}
    <3>1. ToHost \subseteq U /\ q \in U
      OBVIOUS
    <3> HIDE DEF U
    <3>2. serial.out \in Seq(U) /\ <<q>> \in Seq(U)
      BY <2>2, <3>1, SeqMonotonic
    <3>3. serial'.out = serial.out \o <<q>>
      BY <2>2, <3>1, <3>2, AppendIsConcat
    <3>4. q \notin Gets
      BY <2>1 DEF Gets
    <3>5. NoneOf(<<q>>, Gets)
      BY <3>4, SingleOne
    <3>6. NoneOf(serial.out, Gets) => NoneOf(serial.out \o <<q>>, Gets)
      BY <3>2, <3>5, ConcatOne
    <3> QED  BY <3>3, <3>6
  <2> QED  BY <1>1, <2>2, <2>3, <2>4, AwaitedKept DEF Wanted
<1>3. CASE ~(RecvRtAck(n) /\ n = Sink)
  <2>1. UNCHANGED serial
    BY <1>3 DEF BusStep, SendToMac, PacketSent, PacketTimeout, RecvIgnored, RecvRtInit, RecvData,
       RecvCommand, RecvRtAck, RecvJoin, RecvLeave, RecvConnectionLost, sinkVars
  <2>2. AsksNothing(bus[Sink], bus'[Sink])
    BY <1>1, HandledAsks
  <2> QED  BY <1>1, <2>1, <2>2, AwaitedKept
<1> QED  BY <1>2, <1>3

LEMMA SinkBusAwaited ==
  ASSUME IInv, SerialPops, PairInv, SinkBusStep
  PROVE  Awaited'
<1>1. bus[Sink] # <<>> /\ Handled(Sink, <<>>)
  BY DEF SinkBusStep, IncrBroadcastCounter, SendToSerial, RecvInit, RecvAnswer, SinkSend, At
<1>2. AsksNothing(bus[Sink], bus'[Sink]) /\ Awaited
  BY <1>1, HandledAsks, NodeAssumption DEF PairInv
<1>3. CASE IncrBroadcastCounter
  <2>1. UNCHANGED <<serial, caller>>
    BY <1>3 DEF IncrBroadcastCounter
  <2> QED  BY <1>2, <2>1, AwaitedKept
<1>4. CASE RecvInit
  <2>1. /\ serial'.out = serial.out /\ serial'.state = serial.state
        /\ serial'.waits = serial.waits /\ serial'.up = serial.up /\ UNCHANGED caller
    BY <1>4 DEF RecvInit, IInv, SerialInv
  <2> QED  BY <1>2, <2>1, AwaitedKept DEF Wanted
<1>5. CASE SendToSerial
  <2>1. /\ serial.out # <<>> /\ serial.out \in Seq(ToHost)
        /\ serial'.out = Tail(serial.out) /\ serial'.state = serial.state
        /\ serial'.waits = serial.waits /\ serial'.up = serial.up /\ UNCHANGED caller
    BY <1>5 DEF SendToSerial, IInv, SerialInv
  <2>2. NoneOf(serial.out, Gets) => NoneOf(serial'.out, Gets)
    BY <2>1, TailOne
  <2>3. serial.up
    BY <1>2, <2>1 DEF Awaited
  <2> QED  BY <1>2, <2>1, <2>2, <2>3, AwaitedKept DEF Wanted
<1>6. CASE RecvAnswer
  <2>1. serial.state \in {"GET", "PUT", "READY"}
    BY DEF IInv, SerialInv
  <2>2. /\ serial'.out = serial.out /\ serial'.up = serial.up /\ UNCHANGED caller
        /\ serial'.state = "READY"
        /\ serial.state # "GET" => serial'.waits = serial.waits
    BY <1>6, <2>1 DEF RecvAnswer, RouteAnswered, IInv, SerialInv
  <2>3. serial.state = "GET" => NoneOf(serial.out, Gets)
    BY <1>6, AnswerAfterSending DEF PairInv, Paired, Out
  <2>4. ~serial.up => serial.state = "READY"
    BY <1>2 DEF Awaited
  <2> QED  BY <1>2, <2>2, <2>3, <2>4, AwaitedKept DEF Wanted
<1>7. CASE \E f \in Caller : SinkSend(f)
  <2>1. PICK f \in Caller : SinkSend(f)
    BY <1>7
  <2>2. PICK d \in Node :
          /\ serial' = [serial EXCEPT !.get_payload = d, !.waits = TRUE, !.out =
                 Append(@, [mode |-> "GET", route |-> <<>>, dest |-> d])]
          /\ caller' = [caller EXCEPT ![f] = d]
    BY <2>1 DEF SinkSend
  <2>3. caller' \in [Caller -> Node \cup {NULL}] /\ caller'[f] # NULL
    BY <1>2, <2>2, NullAssumption DEF Awaited
  <2>4. serial'.waits /\ serial'.up = serial.up
    BY <2>2 DEF IInv, SerialInv
  <2>5. serial.up
    <3>1. Head(bus[Sink]) \in EventsOf(Sink) /\ Head(bus[Sink]).ev = "request"
      BY <1>1, <2>1, HeadEvent, NodeAssumption DEF IInv, SinkSend, At
    <3>2. Head(bus[Sink]) \in Asking
      BY <3>1 DEF EventsOf, Asking
    <3>3. bus[Sink] \in Seq(EventsOf(Sink))
      BY NodeAssumption DEF IInv, Buses
    <3>4. ~NoneOf(bus[Sink], Asking)
      BY <1>1, <3>2, <3>3, TailOne
    <3> QED  BY <1>2, <3>4 DEF Awaited
  <2> QED  BY <2>3, <2>4, <2>5 DEF Awaited
<1> QED  BY <1>3, <1>4, <1>5, <1>6, <1>7 DEF SinkBusStep

LEMMA AwaitedStep ==
  ASSUME IInv, IInv', SerialPops, PairInv, [Next]_vars
  PROVE  Awaited'
<1>0. Awaited
  BY DEF PairInv
<1>1. CASE \E n \in Node : BusStep(n)
  BY <1>0, <1>1, BusStepAwaited
<1>2. CASE \E n \in Node : MacStep(n)
  <2>1. PICK n \in Node : MacStep(n)
    BY <1>2
  <2>2. UNCHANGED <<serial, caller>>
    BY <2>1, MacGoesOn DEF sinkVars
  <2>3. AsksNothing(bus[Sink], bus'[Sink])
    <3>1. CASE MacDeliver(n)
      <4>1. PICK i \in DOMAIN mac[n] : \E m \in mac[n][i].left :
              Fire(m, <<EventOf("recv", mac[n][i].pkt)>>)
        BY <3>1 DEF MacDeliver
      <4>2. mac[n][i].left \subseteq Node
        BY <4>1, InMac DEF Message
      <4>3. PICK e : e = EventOf("recv", mac[n][i].pkt)
        OBVIOUS
      <4>4. e.ev # "request"
        BY <4>3 DEF EventOf
      <4> QED  BY <4>1, <4>2, <4>3, <4>4, FireAsks
    <3>2. CASE MacSent(n) \/ MacTimeout(n)
      <4>1. PICK i \in DOMAIN mac[n], ev \in {"sent", "timeout"} :
              Fire(n, <<EventOf(ev, mac[n][i].pkt)>>)
        BY <3>2 DEF MacSent, MacTimeout
      <4>2. PICK e : e = EventOf(ev, mac[n][i].pkt)
        OBVIOUS
      <4>3. e.ev # "request"
        BY <4>2 DEF EventOf
      <4> QED  BY <4>1, <4>2, <4>3, FireAsks
    <3>3. CASE MacRepeat(n)
      BY <3>3 DEF MacRepeat, AsksNothing
    <3> QED  BY <2>1, <3>1, <3>2, <3>3 DEF MacStep
  <2> QED  BY <1>0, <2>2, <2>3, AwaitedKept
<1>3. CASE \E n \in Node : Restart(n)
  <2>1. PICK n \in Node : Restart(n)
    BY <1>3
  <2>2. CASE n = Sink
    <3>1. bus' = [bus EXCEPT ![Sink] = <<>>] /\ serial' = NoSerial /\ caller' = [f \in Caller |-> NULL]
      BY <2>1, <2>2 DEF Restart
    <3>2. bus'[Sink] = <<>> /\ serial'.state = "READY" /\ serial'.out = <<>>
      BY <3>1, NodeAssumption DEF IInv, Buses, NoSerial
    <3>3. NoneOf(<<>>, Asking) /\ NoneOf(<<>>, Gets)
      BY DEF NoneOf
    <3>4. caller' \in [Caller -> Node \cup {NULL}]
      BY <3>1
    <3> QED  BY <3>2, <3>3, <3>4 DEF Awaited
  <2>3. CASE n # Sink
    <3>1. bus'[Sink] = bus[Sink] /\ UNCHANGED <<serial, caller>>
      BY <2>1, <2>3, NodeAssumption DEF Restart, IInv, Buses
    <3> QED  BY <1>0, <3>1, AwaitedKept DEF AsksNothing
  <2> QED  BY <2>2, <2>3
<1>4. CASE (\E n \in Node : Send(n) \/ Recv(n) \/ RecvConnection(n)) \/ UNCHANGED vars
  <2>1. UNCHANGED <<bus, serial, caller>>
    BY <1>4 DEF Send, Recv, RecvConnection, vars, sinkVars
  <2> QED  BY <1>0, <2>1, AwaitedKept DEF AsksNothing
<1>5. CASE SinkBusStep
  BY <1>5, SinkBusAwaited
<1>6. CASE SerialIdleTick
  <2>1. /\ serial.out # <<>> /\ serial.out \in Seq(ToHost) /\ serial.up
        /\ serial'.out = serial.out /\ serial'.state = Head(serial.out).mode
        /\ serial'.waits = serial.waits /\ serial'.up = serial.up /\ UNCHANGED caller
    BY <1>6 DEF SerialIdleTick, IInv, SerialInv
  <2>2. serial'.state = "GET" => ~NoneOf(serial.out, Gets)
    <3>1. Head(serial.out) \in ToHost
      BY <2>1, TailIsSeq
    <3>2. serial'.state = "GET" => Head(serial.out) \in Gets
      BY <2>1, <3>1 DEF Gets
    <3> QED  BY <2>1, <3>2, TailOne
  <2> QED  BY <1>0, <2>1, <2>2, AwaitedKept DEF Wanted
<1>7. CASE SinkIdleTick \/ \E n \in Node : NodeIdleTick(n)
  <2>1. UNCHANGED <<serial, caller>>
    BY <1>7 DEF SinkIdleTick, NodeIdleTick, sinkVars
  <2>2. ~serial.up => bus'[Sink] = bus[Sink]
    <3> SUFFICES ASSUME ~serial.up PROVE bus'[Sink] = bus[Sink]
      OBVIOUS
    <3>1. PICK n \in Node : NodeIdleTick(n)
      BY <1>7 DEF SinkIdleTick
    <3>2. n # Sink /\ \E r : Fire(n, r)
      BY <3>1 DEF NodeIdleTick, Dispatch
    <3> QED  BY <3>2, FireAdds, NodeAssumption
  <2> QED  BY <1>0, <2>1, <2>2, AwaitedKept DEF AsksNothing
<1>8. CASE HostAnswer \/ HostStart
  <2>1. PICK m : HostDelivers(m) /\ UNCHANGED caller
    BY <1>8 DEF HostAnswer, HostStart
  <2>2. /\ serial'.out = serial.out /\ serial'.state = serial.state
        /\ serial'.waits = serial.waits /\ serial'.up = serial.up
        /\ Fire(Sink, <<Event("table")>>)
    BY <2>1 DEF HostDelivers, IInv, SerialInv
  <2>3. PICK e : e = Event("table")
    OBVIOUS
  <2>4. e.ev # "request"
    BY <2>3 DEF Event
  <2>5. AsksNothing(bus[Sink], bus'[Sink])
    BY <2>2, <2>3, <2>4, FireAsks, NodeAssumption
  <2> QED  BY <1>0, <2>1, <2>2, <2>5, AwaitedKept DEF Wanted
<1>9. CASE Boot
  <2>1. /\ ~serial.up /\ serial'.up /\ UNCHANGED caller
        /\ serial'.state = serial.state /\ serial'.out = serial.out
        /\ serial'.waits = serial.waits
    BY <1>9 DEF Boot, IInv, SerialInv
  <2> QED  BY <1>0, <2>1, AwaitedKept DEF Wanted
<1>10. CASE Request
  <2>1. serial.up /\ UNCHANGED <<serial, caller>>
    BY <1>10 DEF Request, sinkVars
  <2> QED  BY <1>0, <2>1, AwaitedKept
<1>11. CASE \E f \in Caller : SinkSendReturns(f)
  <2>1. PICK f \in Caller : SinkSendReturns(f)
    BY <1>11
  <2>2. ~serial.waits /\ caller' = [caller EXCEPT ![f] = NULL] /\ UNCHANGED <<serial, bus>>
    BY <2>1 DEF SinkSendReturns
  <2>3. caller' \in [Caller -> Node \cup {NULL}]
    BY <1>0, <2>2 DEF Awaited
  <2> QED  BY <1>0, <2>2, <2>3 DEF Awaited
<1> QED  BY <1>1, <1>2, <1>3, <1>4, <1>5, <1>6, <1>7, <1>8, <1>9, <1>10, <1>11 DEF Next, IdleStep

-----------------------------------------------------------------------------
(* Commands follow a route.                                                *)

LEMMA SuffixByIndex ==
  ASSUME NEW S, NEW s \in Seq(S), NEW t \in Seq(S)
  PROVE  IsSuffix(s, t) <=>
           /\ Len(s) <= Len(t)
           /\ \A i \in 1 .. Len(s) : s[i] = t[Len(t) - Len(s) + i]
<1>1. PICK m, n : m = Len(s) /\ n = Len(t)
  OBVIOUS
<1>2. m \in Nat /\ n \in Nat /\ DOMAIN s = 1 .. m /\ DOMAIN t = 1 .. n
  BY <1>1, LenProperties
<1>3. PICK u, v : u = Reverse(s) /\ v = Reverse(t)
  OBVIOUS
<1>4. /\ u = [i \in 1 .. m |-> s[m - i + 1]]
      /\ v = [i \in 1 .. n |-> t[n - i + 1]]
  BY <1>1, <1>3 DEF Reverse
<1>5. /\ u \in Seq(S) /\ v \in Seq(S)
  <2>1. \A i \in 1 .. m : s[m - i + 1] \in S
    BY <1>1, <1>2, ElementOfSeq
  <2>2. \A i \in 1 .. n : t[n - i + 1] \in S
    BY <1>1, <1>2, ElementOfSeq
  <2> QED  BY <1>2, <1>4, <2>1, <2>2, IsASeq
<1>6. Len(u) = m /\ Len(v) = n
  BY <1>2, <1>4, <1>5, LenProperties
<1>7. IsSuffix(s, t) <=> m <= n /\ SubSeq(u, 1, m) = SubSeq(v, 1, m)
  BY <1>3, <1>6 DEF IsSuffix, IsPrefix
<1>8. m <= n => (SubSeq(u, 1, m) = SubSeq(v, 1, m) <=> \A i \in 1 .. m : u[i] = v[i])
  <2> SUFFICES ASSUME m <= n
               PROVE  SubSeq(u, 1, m) = SubSeq(v, 1, m) <=> \A i \in 1 .. m : u[i] = v[i]
    OBVIOUS
  <2>1. PICK x, y : x = SubSeq(u, 1, m) /\ y = SubSeq(v, 1, m)
    OBVIOUS
  <2>2. x \in Seq(S) /\ Len(x) = m /\ \A i \in 1 .. m : x[i] = u[i]
    <3>1. \A i \in 1 .. m : u[i] \in S
      BY <1>2, <1>5, <1>6, ElementOfSeq
    <3>2. /\ SubSeq(u, 1, m) \in Seq(S)
          /\ Len(SubSeq(u, 1, m)) = IF 1 <= m THEN m - 1 + 1 ELSE 0
          /\ \A i \in 1 .. m - 1 + 1 : SubSeq(u, 1, m)[i] = u[1 + i - 1]
      BY <1>2, <3>1, SubSeqProperties
    <3> QED  BY <1>2, <2>1, <3>2
  <2>3. y \in Seq(S) /\ Len(y) = m /\ \A i \in 1 .. m : y[i] = v[i]
    <3>1. \A i \in 1 .. m : v[i] \in S
      BY <1>2, <1>5, <1>6, ElementOfSeq
    <3>2. /\ SubSeq(v, 1, m) \in Seq(S)
          /\ Len(SubSeq(v, 1, m)) = IF 1 <= m THEN m - 1 + 1 ELSE 0
          /\ \A i \in 1 .. m - 1 + 1 : SubSeq(v, 1, m)[i] = v[1 + i - 1]
      BY <1>2, <3>1, SubSeqProperties
    <3> QED  BY <1>2, <2>1, <3>2
  <2>4. x = y <=> \A i \in 1 .. m : x[i] = y[i]
    BY <2>2, <2>3, SeqEqual
  <2> QED  BY <2>1, <2>2, <2>3, <2>4
<1>9. m <= n => ((\A i \in 1 .. m : u[i] = v[i]) <=> \A i \in 1 .. m : s[i] = t[n - m + i])
  <2> SUFFICES ASSUME m <= n
               PROVE  (\A i \in 1 .. m : u[i] = v[i]) <=> \A i \in 1 .. m : s[i] = t[n - m + i]
    OBVIOUS
  <2>1. \A i \in 1 .. m : u[i] = s[m - i + 1] /\ v[i] = t[n - i + 1]
    BY <1>2, <1>4
  <2>2. ASSUME \A i \in 1 .. m : u[i] = v[i], NEW i \in 1 .. m
        PROVE  s[i] = t[n - m + i]
    <3>1. m - i + 1 \in 1 .. m /\ m - (m - i + 1) + 1 = i /\ n - (m - i + 1) + 1 = n - m + i
      BY <1>2
    <3> QED  BY <2>1, <2>2, <3>1
  <2>3. ASSUME \A i \in 1 .. m : s[i] = t[n - m + i], NEW i \in 1 .. m
        PROVE  u[i] = v[i]
    <3>1. m - i + 1 \in 1 .. m /\ n - m + (m - i + 1) = n - i + 1
      BY <1>2
    <3> QED  BY <2>1, <2>3, <3>1
  <2> QED  BY <2>2, <2>3
<1> QED  BY <1>1, <1>7, <1>8, <1>9

LEMMA SuffixFacts ==
  ASSUME NEW S, NEW x \in S, NEW s \in Seq(S), NEW t \in Seq(S)
  PROVE  /\ IsSuffix(t, t)
         /\ s # <<>> => <<Head(s)>> \o Tail(s) = s
         /\ IsSuffix(<<x>> \o s, t) => IsSuffix(s, t)
         /\ IsSuffix(<<x>> \o s, t) /\ s = <<>> => Last(t) = x
<1>1. IsSuffix(t, t)
  <2>1. Len(t) \in Nat /\ \A i \in 1 .. Len(t) : Len(t) - Len(t) + i = i
    BY LenProperties
  <2> QED  BY <2>1, SuffixByIndex
<1>2. s # <<>> => <<Head(s)>> \o Tail(s) = s
  <2> SUFFICES ASSUME s # <<>> PROVE <<Head(s)>> \o Tail(s) = s
    OBVIOUS
  <2>1. PICK h, w, v : h = <<Head(s)>> /\ w = Tail(s) /\ v = h \o w
    OBVIOUS
  <2>2. Len(s) \in Nat \ {0} /\ Head(s) = s[1] /\ Head(s) \in S
    BY LenProperties, EmptySeq, HeadTailProperties
  <2>3. h \in Seq(S) /\ Len(h) = 1 /\ h[1] = s[1]
    BY <2>1, <2>2
  <2>4. w \in Seq(S) /\ Len(w) = Len(s) - 1 /\ \A i \in 1 .. Len(w) : w[i] = s[i + 1]
    BY <2>1, HeadTailProperties
  <2>5. /\ v \in Seq(S) /\ Len(v) = Len(h) + Len(w)
        /\ \A i \in 1 .. Len(h) + Len(w) : v[i] = IF i <= Len(h) THEN h[i] ELSE w[i - Len(h)]
    BY <2>1, <2>3, <2>4, ConcatProperties
  <2>6. Len(v) = Len(s)
    BY <2>2, <2>3, <2>4, <2>5
  <2>7. ASSUME NEW i \in 1 .. Len(v)
        PROVE  v[i] = s[i]
    <3>1. CASE i = 1
      BY <2>2, <2>3, <2>4, <2>5, <3>1
    <3>2. CASE i # 1
      <4>1. i - 1 \in 1 .. Len(w) /\ i - 1 + 1 = i /\ ~(i <= 1)
        BY <2>2, <2>4, <2>6, <3>2
      <4>2. v[i] = w[i - 1]
        BY <2>2, <2>3, <2>4, <2>5, <2>6, <4>1
      <4> QED  BY <2>4, <4>1, <4>2
    <3> QED  BY <3>1, <3>2
  <2>8. v = s
    BY <2>5, <2>6, <2>7, SeqEqual
  <2> QED  BY <2>1, <2>8
<1>3. PICK u : u = <<x>> \o s
  OBVIOUS
<1>4. /\ u \in Seq(S) /\ Len(u) = 1 + Len(s) /\ Len(s) \in Nat /\ Len(t) \in Nat
      /\ \A i \in 1 .. Len(s) : u[i + 1] = s[i]
      /\ u[1] = x
  <2>1. <<x>> \in Seq(S) /\ Len(<<x>>) = 1 /\ <<x>>[1] = x
    OBVIOUS
  <2>2. /\ u \in Seq(S) /\ Len(u) = 1 + Len(s)
        /\ \A i \in 1 .. 1 + Len(s) : u[i] = IF i <= 1 THEN <<x>>[i] ELSE s[i - 1]
    BY <1>3, <2>1, ConcatProperties
  <2>3. Len(s) \in Nat /\ Len(t) \in Nat
    BY LenProperties
  <2>4. ASSUME NEW i \in 1 .. Len(s)
        PROVE  u[i + 1] = s[i]
    <3>1. i + 1 \in 1 .. 1 + Len(s) /\ ~(i + 1 <= 1) /\ i + 1 - 1 = i
      BY <2>3
    <3> QED  BY <2>2, <3>1
  <2>5. u[1] = x
    BY <2>1, <2>2, <2>3
  <2> QED  BY <2>2, <2>3, <2>4, <2>5
<1>5. IsSuffix(u, t) => /\ 1 + Len(s) <= Len(t)
                        /\ \A i \in 1 .. 1 + Len(s) : u[i] = t[Len(t) - (1 + Len(s)) + i]
  BY <1>4, SuffixByIndex
<1>6. IsSuffix(u, t) => IsSuffix(s, t)
  <2> SUFFICES ASSUME IsSuffix(u, t) PROVE IsSuffix(s, t)
    OBVIOUS
  <2>1. Len(s) <= Len(t)
    BY <1>4, <1>5
  <2>2. ASSUME NEW i \in 1 .. Len(s)
        PROVE  s[i] = t[Len(t) - Len(s) + i]
    <3>1. i + 1 \in 1 .. 1 + Len(s) /\ Len(t) - (1 + Len(s)) + (i + 1) = Len(t) - Len(s) + i
      BY <1>4
    <3> QED  BY <1>4, <1>5, <3>1
  <2> QED  BY <2>1, <2>2, SuffixByIndex
<1>7. IsSuffix(u, t) /\ s = <<>> => Last(t) = x
  <2> SUFFICES ASSUME IsSuffix(u, t), s = <<>> PROVE Last(t) = x
    OBVIOUS
  <2>1. Len(s) = 0
    OBVIOUS
  <2>2. u[1] = t[Len(t) - (1 + 0) + 1]
    BY <1>5, <2>1
  <2>3. Len(t) - (1 + 0) + 1 = Len(t)
    BY <1>4
  <2> QED  BY <1>4, <2>2, <2>3 DEF Last
<1> QED  BY <1>1, <1>2, <1>3, <1>6, <1>7

\* The rest of the route of p is the end of a route to its destination.
OnRoute(p, routes) ==
  \E r \in routes : Last(r) = p.body /\ IsSuffix(<<p.forward>> \o p.route, r)
CommandsInv == \A p \in Packets : p.type = "COMMAND" => OnRoute(p, host.routes)

LEMMA RoutesGrow ==
  ASSUME IInv, [Next]_vars
  PROVE  host.routes \subseteq host'.routes
<1>1. CASE SendToSerial
  BY <1>1 DEF SendToSerial, IInv, HostInv
<1>2. CASE RecvInit
  BY <1>2 DEF RecvInit, IInv, HostInv
<1>3. CASE HostStart
  BY <1>3 DEF HostStart, IInv, HostInv
<1>4. CASE HostAnswer
  BY <1>4 DEF HostAnswer, IInv, HostInv
<1>5. CASE \E n \in Node : Restart(n)
  BY <1>5 DEF Restart, IInv, HostInv
<1>6. CASE UNCHANGED host
  BY <1>6
<1>7. CASE \E n \in Node : BusStep(n)
  <2>1. PICK n \in Node : BusStep(n)
    BY <1>7
  <2>2. UNCHANGED host
    BY <2>1 DEF BusStep, SendToMac, PacketSent, PacketTimeout, RecvIgnored, RecvRtInit, RecvData,
       RecvCommand, RecvRtAck, RecvJoin, RecvLeave, RecvConnectionLost, sinkVars
  <2> QED  BY <1>6, <2>2
<1>8. CASE \E n \in Node : MacStep(n) \/ Send(n) \/ Recv(n) \/ RecvConnection(n)
  BY <1>8, MacStepKeeps DEF Send, Recv, RecvConnection, sinkVars
<1>9. CASE IncrBroadcastCounter \/ RecvAnswer \/ \E f \in Caller : SinkSend(f)
  BY <1>9 DEF IncrBroadcastCounter, RecvAnswer, SinkSend
<1>10. CASE IdleStep \/ Boot \/ Request \/ \E f \in Caller : SinkSendReturns(f)
  BY <1>10 DEF IdleStep, SerialIdleTick, SinkIdleTick, NodeIdleTick, Boot, Request,
     SinkSendReturns, sinkVars
<1> QED  BY <1>1, <1>2, <1>3, <1>4, <1>5, <1>6, <1>7, <1>8, <1>9, <1>10 DEF Next, SinkBusStep, vars, sinkVars

LEMMA PacketsStamped ==
  ASSUME IInv
  PROVE  \A p \in Packets : IsPacket(p)
<1>1. \A n \in Node : PacketsOf(n) \subseteq Stamped
  BY PacketIsStamped
<1> QED  BY <1>1 DEF Packets, Stamped

LEMMA CommandsStep ==
  ASSUME IInv, SerialPops, PairInv, CommandsInv, [Next]_vars
  PROVE  CommandsInv'
<1> SUFFICES ASSUME NEW p \in Packets', p.type = "COMMAND" PROVE OnRoute(p, host'.routes)
  BY DEF CommandsInv, OnRoute
<1>1. OnRoute(p, host.routes) => OnRoute(p, host'.routes)
  BY RoutesGrow DEF OnRoute
<1>2. CASE p \in Packets
  BY <1>1, <1>2 DEF CommandsInv
<1>3. CASE RelayedCommand(p)
  <2>1. PICK n \in Node :
          /\ RecvCommand(n) /\ Received(n).route # <<>>
          /\ p = Command(n, Received(n).route, Received(n).body, Received(n).origin)
    BY <1>3 DEF RelayedCommand
  <2>2. PICK c : c = Received(n)
    OBVIOUS
  <2>3. c \in Packets /\ c.type = "COMMAND" /\ c.forward = n
    <3>1. At(n, "recv") /\ c.type = "COMMAND" /\ Accepts(n, c)
      BY <2>1, <2>2 DEF RecvCommand, Accepted, Received
    <3> QED  BY <2>2, <3>1, ReceivedIsPacket DEF Accepts, AcceptsCommand
  <2>4. PICK r \in host.routes : Last(r) = c.body /\ IsSuffix(<<n>> \o c.route, r)
    BY <2>3 DEF CommandsInv, OnRoute
  <2>5. r \in Seq(Node) /\ c.route \in Seq(Node)
    <3>1. IsPacket(c)
      BY <2>3, PacketsStamped
    <3> QED  BY <3>1 DEF IsPacket, IInv, HostInv
  <2>6. p.forward = Head(c.route) /\ p.route = Tail(c.route) /\ p.body = c.body
    BY <2>1, <2>2 DEF Command, Packet
  <2>7. <<p.forward>> \o p.route = c.route
    BY <2>1, <2>2, <2>5, <2>6, SuffixFacts
  <2>8. IsSuffix(c.route, r)
    BY <2>4, <2>5, SuffixFacts
  <2> QED  BY <1>1, <2>4, <2>6, <2>7, <2>8 DEF OnRoute
<1>4. CASE FirstCommand(p)
  <2>1. /\ RecvAnswer /\ serial.state = "GET" /\ serial.received.found
        /\ serial.received.mode = "ANSWER"
        /\ p = Command(Sink, serial.received.route, serial.get_payload, Sink)
    BY <1>4 DEF FirstCommand, RecvAnswer
  <2>2. Out(bus[Sink], serial, host.to, host.routes) /\ ~NoneOf(bus[Sink], Tables)
    BY <2>1, AnswerAfterSending DEF PairInv, Paired
  <2>3. PICK r : r = serial.received.route
    OBVIOUS
  <2>4. r \in host.routes /\ Last(r) = serial.get_payload
    BY <2>1, <2>2, <2>3 DEF Out, Answers
  <2>5. r \in Seq(Node) /\ r # <<>>
    BY <2>4 DEF IInv, HostInv
  <2>6. p.forward = Head(r) /\ p.route = Tail(r) /\ p.body = serial.get_payload
    BY <2>1, <2>3 DEF Command, Packet
  <2>7. <<p.forward>> \o p.route = r
    BY <2>5, <2>6, NodeAssumption, SuffixFacts
  <2>8. IsSuffix(r, r)
    BY <2>5, NodeAssumption, SuffixFacts
  <2> QED  BY <1>1, <2>4, <2>6, <2>7, <2>8 DEF OnRoute
<1>5. p \in Packets \/ RelayedCommand(p) \/ FirstCommand(p)
  <2>1. p \in Packets \/ Made(p)
    BY NextMade DEF OldOrMade
  <2> QED  BY <2>1, MadeTypes DEF Made, MadeInit
<1> QED  BY <1>2, <1>3, <1>4, <1>5

\* What the application of a node was given is meant for it.
Mine(n) == [source : Node \cup {Broadcast}, body : {n}]
MineInv == DOMAIN inBufferPackets = Node /\ \A n \in Plant : inBufferPackets[n] \in Seq(Mine(n))

LEMMA MineStep ==
  ASSUME IInv, CommandsInv, MineInv, [Next]_vars
  PROVE  MineInv'
<1>1. CASE UNCHANGED inBufferPackets
  BY <1>1 DEF MineInv, Mine
<1>2. CASE \E n \in Node : RecvData(n) /\ ~UNCHANGED inBufferPackets
  <2>1. inBufferPackets' = [inBufferPackets EXCEPT ![Sink] =
          Append(@, [source |-> Received(Sink).origin, body |-> Received(Sink).body])]
    BY <1>2 DEF RecvData, ToApplication
  <2> QED  BY <2>1 DEF MineInv, Plant, Mine
<1>3. CASE \E n \in Node : RecvCommand(n) /\ ~UNCHANGED inBufferPackets
  <2>1. PICK n \in Node : RecvCommand(n) /\ ~UNCHANGED inBufferPackets
    BY <1>3
  <2>2. PICK c : c = Received(n)
    OBVIOUS
  <2>3. /\ c.route = <<>>
        /\ inBufferPackets' = [inBufferPackets EXCEPT ![n] =
             Append(@, [source |-> c.origin, body |-> c.body])]
    BY <2>1, <2>2 DEF RecvCommand, ToApplication
  <2>4. c \in Packets /\ c.type = "COMMAND" /\ c.forward = n /\ n \in Plant
    <3>1. At(n, "recv") /\ c.type = "COMMAND" /\ Accepts(n, c)
      BY <2>1, <2>2 DEF RecvCommand, Accepted, Received
    <3> QED  BY <2>2, <3>1, ReceivedIsPacket DEF Accepts, AcceptsCommand, Plant
  <2>5. PICK r \in host.routes : Last(r) = c.body /\ IsSuffix(<<n>> \o c.route, r)
    BY <2>4 DEF CommandsInv, OnRoute
  <2>6. r \in Seq(Node) /\ c.route \in Seq(Node) /\ c.origin \in Node \cup {Broadcast}
    <3>1. IsPacket(c)
      BY <2>4, PacketsStamped
    <3> QED  BY <3>1 DEF IsPacket, IInv, HostInv
  <2>7. c.body = n
    BY <2>3, <2>5, <2>6, SuffixFacts
  <2>8. PICK m : m = [source |-> c.origin, body |-> c.body]
    OBVIOUS
  <2>9. m \in Mine(n)
    BY <2>6, <2>7, <2>8 DEF Mine
  <2>10. inBufferPackets[n] \in Seq(Mine(n))
    BY <2>4 DEF MineInv
  <2>11. Append(inBufferPackets[n], m) \in Seq(Mine(n))
    BY <2>9, <2>10, AppendIsSeq
  <2>12. /\ DOMAIN inBufferPackets' = Node
         /\ inBufferPackets'[n] = Append(inBufferPackets[n], m)
         /\ \A k \in Node : k # n => inBufferPackets'[k] = inBufferPackets[k]
    BY <2>3, <2>8 DEF MineInv
  <2>13. \A k \in Plant : inBufferPackets'[k] \in Seq(Mine(k))
    BY <2>11, <2>12 DEF MineInv, Plant
  <2> QED  BY <2>12, <2>13 DEF MineInv, Mine
<1>4. CASE \E n \in Node : Recv(n)
  <2>1. PICK n \in Node :
          inBufferPackets[n] # <<>> /\ inBufferPackets' = [inBufferPackets EXCEPT ![n] = Tail(@)]
    BY <1>4 DEF Recv
  <2>2. n \in Plant => Tail(inBufferPackets[n]) \in Seq(Mine(n))
    BY <2>1, TailIsSeq DEF MineInv
  <2> QED  BY <2>1, <2>2 DEF MineInv, Mine
<1>5. CASE \E n \in Node : Restart(n)
  <2>1. PICK n \in Node : inBufferPackets' = [inBufferPackets EXCEPT ![n] = <<>>]
    BY <1>5 DEF Restart
  <2>2. <<>> \in Seq(Mine(n))
    BY EmptyIsSeq
  <2> QED  BY <2>1, <2>2 DEF MineInv, Mine
<1>6. CASE \E n \in Node : BusStep(n)
  BY <1>1, <1>2, <1>3, <1>6 DEF BusStep, SendToMac, PacketSent, PacketTimeout, RecvIgnored,
     RecvRtInit, RecvRtAck, RecvJoin, RecvLeave, RecvConnectionLost, appVars
<1>7. CASE \E n \in Node : MacStep(n) \/ Send(n) \/ RecvConnection(n)
  BY <1>1, <1>7, MacStepKeeps DEF Send, RecvConnection, appVars
<1>8. CASE SinkBusStep
  BY <1>1, <1>8 DEF SinkBusStep, IncrBroadcastCounter, SendToSerial, RecvInit, RecvAnswer, SinkSend,
     appVars
<1>9. CASE IdleStep \/ Boot \/ Request \/ HostAnswer \/ HostStart
             \/ (\E f \in Caller : SinkSendReturns(f)) \/ UNCHANGED vars
  BY <1>1, <1>9 DEF IdleStep, SerialIdleTick, SinkIdleTick, NodeIdleTick, Boot, Request,
     HostAnswer, HostStart, SinkSendReturns, vars, appVars
<1> QED  BY <1>4, <1>5, <1>6, <1>7, <1>8, <1>9 DEF Next

\* A command is on a route to its destination that the host knows, and the
\* application of a node is given those for that node only, as long as the
\* fibers of the sink take turns and each answer of the host is the one the
\* sink waits for.
THEOREM CommandsGetThere ==
  OneCaller => (Spec /\ []~UnawaitedAnswer => []CommandsArrive)
<1> SUFFICES ASSUME OneCaller PROVE Spec /\ []~UnawaitedAnswer => []CommandsArrive
  OBVIOUS
<1>1. Init => SerialPops /\ PairInv /\ CommandsInv /\ MineInv
  <2> SUFFICES ASSUME Init PROVE SerialPops /\ PairInv /\ CommandsInv /\ MineInv
    OBVIOUS
  <2>1. \A S : NoneOf(<<>>, S) /\ One(<<>>, S)
    BY DEF NoneOf, One
  <2>2. Elements(<<>>) = {}
    BY DEF Elements
  <2>3. SerialPops
    BY <2>1, SerialNone, NodeAssumption DEF Init, SerialPops
  <2>4. bus[Sink] = <<>> /\ serial.state = "READY" /\ serial.out = <<>> /\ ~serial.up
    BY NodeAssumption DEF Init, NoSerial
  <2>5. Paired(bus[Sink], serial, host.to, host.routes)
    BY <2>1, <2>2, <2>4, PairedIdle
  <2>6. caller \in [Caller -> Node \cup {NULL}]
    BY DEF Init
  <2>7. Awaited
    BY <2>1, <2>4, <2>6 DEF Awaited
  <2>8. CommandsInv
    BY <2>2 DEF Init, CommandsInv, Packets, PacketsOf
  <2>9. MineInv
    BY EmptyIsSeq DEF Init, MineInv, Plant
  <2> QED  BY <2>3, <2>5, <2>7, <2>8, <2>9 DEF PairInv
<1>2. IInv /\ IInv' /\ ~UnawaitedAnswer /\ ~UnawaitedAnswer' /\ SerialPops /\ PairInv
        /\ CommandsInv /\ MineInv /\ [Next]_vars => SerialPops' /\ PairInv' /\ CommandsInv' /\ MineInv'
  BY SerialPopsStep, PairedStep, AwaitedStep, CommandsStep, MineStep DEF PairInv
<1>3. CommandsInv /\ MineInv => CommandsArrive
  <2> SUFFICES ASSUME CommandsInv, MineInv PROVE CommandsArrive
    OBVIOUS
  <2>1. ASSUME NEW n \in Node \ {Sink}, NEW m \in Elements(inBufferPackets[n])
        PROVE  m.body = n
    <3>1. inBufferPackets[n] \in Seq(Mine(n))
      BY DEF MineInv, Plant
    <3>2. \A i \in DOMAIN inBufferPackets[n] : inBufferPackets[n][i] \in Mine(n)
      BY <3>1, ElementOfSeq, LenProperties
    <3>3. m \in Mine(n)
      BY <3>2 DEF Elements
    <3> QED  BY <3>3 DEF Mine
  <2>2. ASSUME NEW p \in Packets, p.type = "COMMAND"
        PROVE  \E r \in RoutesTo(p.body) : IsSuffix(<<p.forward>> \o p.route, r)
    BY <2>2 DEF CommandsInv, OnRoute, RoutesTo
  <2> QED  BY <2>1, <2>2 DEF CommandsArrive
<1> QED  BY <1>1, <1>2, <1>3, Invariance, PTL DEF Spec

-----------------------------------------------------------------------------
(* On a tree that stays as it is the payloads of a node reach the sink in   *)
(* the order they were sent in.                                             *)

\* The elements of q that v numbers have ascending numbers, after lo and up to
\* hi; and q may become r when it keeps that.
Run(q, v, lo, hi) ==
  /\ lo <= hi
  /\ \A i \in DOMAIN q : q[i] \in DOMAIN v => lo < v[q[i]] /\ v[q[i]] <= hi
  /\ \A i, j \in DOMAIN q :
       i < j /\ q[i] \in DOMAIN v /\ q[j] \in DOMAIN v => v[q[i]] < v[q[j]]
KeepsRun(q, r, v) == \A lo, hi \in Nat : Run(q, v, lo, hi) => Run(r, v, lo, hi)

LEMMA RunTail ==
  ASSUME NEW T, NEW q \in Seq(T), q # <<>>, NEW S, NEW v \in [S -> Nat],
         NEW lo \in Nat, NEW hi \in Nat, Run(q, v, lo, hi)
  PROVE  /\ Run(Tail(q), v, lo, hi)
         /\ Head(q) \in S => /\ lo < v[Head(q)] /\ v[Head(q)] <= hi
                             /\ Run(Tail(q), v, v[Head(q)], hi)
<1>1. Len(q) \in Nat \ {0} /\ DOMAIN q = 1 .. Len(q) /\ Head(q) = q[1]
  BY LenProperties, EmptySeq, HeadTailProperties
<1>2. PICK r, h : r = Tail(q) /\ h = Head(q)
  OBVIOUS
<1>3. DOMAIN r = 1 .. Len(q) - 1 /\ \A i \in 1 .. Len(q) - 1 : r[i] = q[i + 1]
  <2>1. /\ r \in Seq(T) /\ Len(r) = Len(q) - 1
        /\ \A i \in 1 .. Len(r) : r[i] = q[i + 1]
    BY <1>2, HeadTailProperties
  <2> QED  BY <2>1, LenProperties
<1>4. \A i \in DOMAIN r : i + 1 \in DOMAIN q /\ r[i] = q[i + 1] /\ 1 < i + 1
  BY <1>1, <1>3
<1>5. \A i, j \in DOMAIN r : i < j => i + 1 < j + 1
  BY <1>1, <1>3
<1>6. Run(r, v, lo, hi)
  BY <1>4, <1>5 DEF Run
<1>7. ASSUME h \in S
      PROVE  lo < v[h] /\ v[h] <= hi /\ Run(r, v, v[h], hi)
  <2>1. 1 \in DOMAIN q /\ q[1] = h /\ DOMAIN v = S
    BY <1>1, <1>2
  <2>2. lo < v[h] /\ v[h] <= hi
    BY <1>7, <2>1 DEF Run
  <2>3. \A i \in DOMAIN r : r[i] \in DOMAIN v => v[h] < v[r[i]]
    BY <1>4, <1>7, <2>1 DEF Run
  <2> QED  BY <1>6, <2>2, <2>3 DEF Run
<1> QED  BY <1>2, <1>6, <1>7

LEMMA RunOthers ==
  ASSUME NEW T, NEW q \in Seq(T), NEW r \in Seq(T), NEW S, NEW v \in [S -> Nat], NoneOf(r, S),
         NEW lo \in Nat, NEW hi \in Nat, Run(q, v, lo, hi)
  PROVE  Run(q \o r, v, lo, hi)
<1>1. /\ Len(q) \in Nat /\ Len(r) \in Nat
      /\ DOMAIN q = 1 .. Len(q) /\ DOMAIN r = 1 .. Len(r) /\ DOMAIN v = S
  BY LenProperties
<1>2. PICK t : t = q \o r
  OBVIOUS
<1>3. /\ t \in Seq(T) /\ Len(t) = Len(q) + Len(r)
      /\ \A i \in 1 .. Len(q) + Len(r) : t[i] = IF i <= Len(q) THEN q[i] ELSE r[i - Len(q)]
  BY <1>2, ConcatProperties
<1>4. DOMAIN t = 1 .. Len(q) + Len(r)
  BY <1>3, LenProperties
<1>5. \A i \in DOMAIN t : t[i] \in DOMAIN v => i \in DOMAIN q /\ t[i] = q[i]
  <2> SUFFICES ASSUME NEW i \in DOMAIN t, t[i] \in S PROVE i \in DOMAIN q /\ t[i] = q[i]
    BY <1>1
  <2>1. i \in DOMAIN q \/ (i - Len(q) \in DOMAIN r /\ t[i] = r[i - Len(q)])
    BY <1>1, <1>3, <1>4
  <2>2. i \in DOMAIN q
    BY <2>1 DEF NoneOf
  <2> QED  BY <1>1, <1>3, <1>4, <2>2
<1>6. Run(t, v, lo, hi)
  BY <1>5 DEF Run
<1> QED  BY <1>2, <1>6

LEMMA RunNext ==
  ASSUME NEW T, NEW q \in Seq(T), NEW e \in T, NEW S, e \in S, NEW v \in [S -> Nat],
         NEW lo \in Nat, NEW hi \in Nat, Run(q, v, lo, hi), hi < v[e]
  PROVE  Run(q \o <<e>>, v, lo, v[e])
<1>1. Len(q) \in Nat /\ DOMAIN q = 1 .. Len(q) /\ DOMAIN v = S /\ v[e] \in Nat
  BY LenProperties
<1>2. PICK r, t : r = <<e>> /\ t = q \o r
  OBVIOUS
<1>3. r \in Seq(T) /\ Len(r) = 1 /\ r[1] = e
  BY <1>2
<1>4. /\ t \in Seq(T) /\ Len(t) = Len(q) + 1
      /\ \A i \in 1 .. Len(q) + 1 : t[i] = IF i <= Len(q) THEN q[i] ELSE r[i - Len(q)]
  BY <1>2, <1>3, ConcatProperties
<1>5. DOMAIN t = 1 .. Len(q) + 1
  BY <1>4, LenProperties
<1>6. /\ \A i \in DOMAIN q : i \in DOMAIN t /\ t[i] = q[i]
      /\ t[Len(q) + 1] = e
  BY <1>1, <1>3, <1>4, <1>5
<1>7. \A i \in DOMAIN t : i \in DOMAIN q \/ i = Len(q) + 1
  BY <1>1, <1>5
<1>8. \A i \in DOMAIN q : q[i] \in S => lo < v[q[i]] /\ v[q[i]] < v[e] /\ v[q[i]] \in Nat
  BY <1>1 DEF Run
<1>9. lo < v[e]
  BY <1>1 DEF Run
<1>10. \A i, j \in DOMAIN t : i < j => i \in DOMAIN q
  BY <1>1, <1>5
<1>11. \A i \in DOMAIN t : t[i] \in DOMAIN v => lo < v[t[i]] /\ v[t[i]] <= v[e]
  BY <1>1, <1>6, <1>7, <1>8, <1>9
<1>12. ASSUME NEW i \in DOMAIN t, NEW j \in DOMAIN t, i < j, t[i] \in DOMAIN v, t[j] \in DOMAIN v
       PROVE  v[t[i]] < v[t[j]]
  <2>1. i \in DOMAIN q /\ t[i] = q[i] /\ q[i] \in S
    BY <1>1, <1>6, <1>10, <1>12
  <2>2. CASE j \in DOMAIN q
    BY <1>6, <1>12, <2>1, <2>2 DEF Run
  <2>3. CASE j = Len(q) + 1
    BY <1>6, <1>8, <2>1, <2>3
  <2> QED  BY <1>7, <2>2, <2>3
<1>13. lo <= v[e]
  BY <1>1, <1>9
<1>14. Run(t, v, lo, v[e])
  BY <1>11, <1>12, <1>13 DEF Run
<1> QED  BY <1>2, <1>14

LEMMA RunNone ==
  ASSUME NEW q, NEW S, NEW v \in [S -> Nat], NoneOf(q, S), NEW lo \in Nat, NEW hi \in Nat, lo <= hi
  PROVE  Run(q, v, lo, hi)
  BY DEF Run, NoneOf

\* What keeps the runs of a sequence.
LEMMA TailKeepsRun ==
  ASSUME NEW T, NEW q \in Seq(T), q # <<>>, NEW S, NEW v \in [S -> Nat]
  PROVE  KeepsRun(q, Tail(q), v)
  BY RunTail DEF KeepsRun

LEMMA OthersKeepRun ==
  ASSUME NEW T, NEW q \in Seq(T), NEW r \in Seq(T), NEW S, NEW v \in [S -> Nat], NoneOf(r, S)
  PROVE  KeepsRun(q, q \o r, v)
  BY RunOthers DEF KeepsRun

LEMMA NoneKeepsRun ==
  ASSUME NEW q, NEW r, NEW S, NEW v \in [S -> Nat], NoneOf(r, S)
  PROVE  KeepsRun(q, r, v)
<1> SUFFICES ASSUME NEW lo \in Nat, NEW hi \in Nat, Run(q, v, lo, hi) PROVE Run(r, v, lo, hi)
  BY DEF KeepsRun
<1>1. lo <= hi
  BY DEF Run
<1> QED  BY <1>1, RunNone


-----------------------------------------------------------------------------
(* The lane of a node: the nodes its payloads go through, and how far they  *)
(* are.                                                                     *)

\* The payloads of o where they are: queued, on a bus, or with the application.
DataOf(o) == {p \in RawPacket : p.type = "DATA" /\ p.origin = o /\ p.body \in Nat}
HearingsOf(o) == [ev : {"recv"}, pkt : DataOf(o)]
GivenOf(o) == [source : {o}, body : Nat]
Queueing(o) == [p \in DataOf(o) |-> p.body]
OnBus(o) == [e \in HearingsOf(o) |-> e.pkt.body]
Given(o) == [m \in GivenOf(o) |-> m.body]

\* The packets of k that the MAC layer may still deliver.
InAir(k) == {m.pkt : m \in {x \in Elements(mac[k]) : x.left # {}}}

\* Where the packets of o go: from each node of the lane but the sink to its
\* rely, which is on the lane, and the rely of no other.
Path(o, C) ==
  /\ C \subseteq Node /\ o \in C
  /\ \A k \in C \ {Sink} : rely[k] \in C /\ rely[k] # o
  /\ \A j, k \in C \ {Sink} : rely[j] = rely[k] => j = k

\* Each node of the lane of o has had the payloads up to B[k], sent those up to
\* Q[k] and delivered those up to L[k]; what is under way is in between, in order.
Lane(o, C, L, Q, B) ==
  /\ Path(o, C)
  /\ \A k \in C \ {Sink} :
       /\ Run(outBufferPackets[k], Queueing(o), Q[k], B[k])
       /\ L[k] <= Q[k] /\ \A p \in InAir(k) \cap DataOf(o) : L[k] < p.body /\ p.body <= Q[k]
       /\ Run(bus[rely[k]], OnBus(o), B[rely[k]], L[k])
  /\ Run(inBufferPackets[Sink], Given(o), 0, B[Sink])
  /\ B[o] = used.data[o]
  /\ \A p \in Packets : p.type = "DATA" /\ p.origin = o =>
       p \in DataOf(o) /\ p.source \in C \ {Sink} /\ p.forward = rely[p.source]

\* A node that was never connected has sent nothing.
Silent(o) ==
  /\ used.data[o] = 0
  /\ \A p \in Packets : p.type = "DATA" => p.origin # o
  /\ Run(inBufferPackets[Sink], Given(o), 0, 0)

HasLane(o) == \E C \in SUBSET Node, L, Q, B \in [Node -> Nat] : Lane(o, C, L, Q, B)
LanesInv == \A o \in Plant : IF rely[o] = Broadcast THEN Silent(o) ELSE HasLane(o)

\* RT_INIT comes from a node of the tree and data from a node; and the MAC layer
\* sends what its node gave it, and answers data when it is delivered.
RootsInv == \A p \in Packets :
  /\ p.type = "RT_INIT" => p.source = Sink \/ rely[p.source] # Broadcast
  /\ p.type = "DATA" => p.origin \in Plant
GivenInv ==
  /\ DOMAIN inBufferPackets = Node
  /\ inBufferPackets[Sink] \in Seq([source : Plant, body : Nat])
AirInv == \A k \in Node : \A m \in Elements(mac[k]) :
  /\ m.pkt.source = k
  /\ m.pkt.forward # Broadcast => m.left \subseteq {m.pkt.forward}
  /\ m.pkt.type = "DATA" /\ m.left # {} => m.sent = 0 /\ m.timeouts = 0

\* What is assumed: nothing is given up or repeated, and a node that took a rely
\* keeps it.
Steady == used.timeout = 0 /\ \A n \in Node : used.repeat[n] = 0
RelyKept == \A n \in Node : rely[n] # Broadcast => rely'[n] = rely[n]
RelyStays == [][RelyKept]_vars

\* A step that does not move the payloads of o.
QueuesKeep(o) == \A k \in Node : KeepsRun(outBufferPackets[k], outBufferPackets'[k], Queueing(o))
BusesKeep(o) == \A k \in Node : KeepsRun(bus[k], bus'[k], OnBus(o))
GivenKeep(o) == KeepsRun(inBufferPackets[Sink], inBufferPackets'[Sink], Given(o))
AirKeeps(o) == \A k \in Node : InAir(k)' \cap DataOf(o) \subseteq InAir(k)
NotMoved(o) ==
  /\ QueuesKeep(o) /\ BusesKeep(o) /\ GivenKeep(o) /\ AirKeeps(o)
  /\ used'.data[o] = used.data[o]

LEMMA Numbered ==
  ASSUME NEW o
  PROVE  /\ Queueing(o) \in [DataOf(o) -> Nat]
         /\ OnBus(o) \in [HearingsOf(o) -> Nat]
         /\ Given(o) \in [GivenOf(o) -> Nat]
  BY DEF Queueing, OnBus, Given, DataOf, HearingsOf, GivenOf

\* The packets of o are where they were, or made on the lane.
LEMMA PacketsOfLane ==
  ASSUME IInv, [Next]_vars, RelyKept, NEW o \in Plant, NEW C, Path(o, C), rely[o] # Broadcast,
         \A p \in Packets : p.type = "DATA" /\ p.origin = o =>
           p \in DataOf(o) /\ p.source \in C \ {Sink} /\ p.forward = rely[p.source]
  PROVE  \A p \in Packets' : p.type = "DATA" /\ p.origin = o =>
           p \in DataOf(o) /\ p.source \in C \ {Sink} /\ p.forward = rely'[p.source]
<1> SUFFICES ASSUME NEW p \in Packets', p.type = "DATA", p.origin = o
             PROVE  p \in DataOf(o) /\ p.source \in C \ {Sink} /\ p.forward = rely'[p.source]
  OBVIOUS
<1>1. \A k \in C \ {Sink} : rely'[k] = rely[k] /\ rely[k] \in Node
  BY NodeAssumption DEF Path, RelyKept
<1>2. CASE p \in Packets
  BY <1>1, <1>2
<1>3. CASE FirstData(p)
  <2>1. PICK n \in Node : Send(n) /\ p = Data(n, n, used.data[n] + 1)
    BY <1>3 DEF FirstData
  <2>2. n = o /\ p.source = o /\ p.forward = rely[o] /\ p.body = used.data[o] + 1
    BY <2>1 DEF Data, Packet
  <2>3. p.body \in Nat
    BY <2>2 DEF IInv, UsedInv, Counts, Plant
  <2>4. p \in RawPacket
    <3>1. <<>> \in Seq(Node)
      BY EmptyIsSeq
    <3> QED  BY <2>1, <2>2, <2>3, <3>1 DEF Data, Packet, RawPacket, Type, IInv, TreeInv, Plant
  <2> QED  BY <1>1, <2>2, <2>3, <2>4 DEF DataOf, Path, Plant
<1>4. CASE RelayedData(p)
  <2>1. PICK n \in Plant : RecvData(n) /\ p = Data(n, Received(n).origin, Received(n).body)
    BY <1>4 DEF RelayedData
  <2> DEFINE r == Received(n)
  <2>2. r \in Packets /\ r.type = "DATA" /\ r.forward = n
    <3>1. At(n, "recv") /\ n \in Node
      BY <2>1 DEF RecvData, Accepted, Plant
    <3>2. r \in Packets
      BY <3>1, ReceivedIsPacket
    <3> QED  BY <2>1, <3>2 DEF RecvData, Accepted, Accepts, AcceptsUp, Received
  <2>3. p.source = n /\ p.forward = rely[n] /\ p.body = r.body /\ p.origin = r.origin
    BY <2>1 DEF Data, Packet
  <2>4. r \in DataOf(o) /\ r.source \in C \ {Sink} /\ r.forward = rely[r.source]
    BY <2>2, <2>3
  <2>5. n \in C \ {Sink}
    BY <2>2, <2>4 DEF Path, Plant
  <2>6. p \in RawPacket
    <3>1. <<>> \in Seq(Node) /\ r \in RawPacket /\ n \in Node
      BY <2>4, EmptyIsSeq DEF DataOf, Plant
    <3> HIDE DEF r
    <3> QED  BY <2>1, <2>3, <3>1 DEF r, Data, Packet, RawPacket, Type, IInv, TreeInv, Plant
  <2>7. p.body \in Nat
    BY <2>3, <2>4 DEF DataOf
  <2>8. p \in DataOf(o)
    BY <2>6, <2>7 DEF DataOf
  <2> QED  BY <1>1, <2>3, <2>5, <2>8
<1>5. p \in Packets \/ Made(p)
  BY NextMade DEF OldOrMade
<1> QED  BY <1>2, <1>3, <1>4, <1>5, MadeTypes DEF Made, MadeInit

LEMMA NotMovedLane ==
  ASSUME IInv, [Next]_vars, RelyKept, NEW o \in Plant, rely[o] # Broadcast,
         NEW C \in SUBSET Node, NEW L \in [Node -> Nat], NEW Q \in [Node -> Nat],
         NEW B \in [Node -> Nat], Lane(o, C, L, Q, B), NotMoved(o)
  PROVE  Lane(o, C, L, Q, B)'
<1>1. \A k \in C \ {Sink} : rely'[k] = rely[k] /\ rely[k] \in Node
  BY NodeAssumption DEF Lane, Path, RelyKept
<1>2. Path(o, C)'
  BY <1>1 DEF Lane, Path
<1>3. ASSUME NEW k \in C \ {Sink}
      PROVE  /\ Run(outBufferPackets[k], Queueing(o), Q[k], B[k])'
             /\ \A p \in InAir(k)' \cap DataOf(o) : L[k] < p.body /\ p.body <= Q[k]
             /\ Run(bus'[rely'[k]], OnBus(o), B[rely[k]], L[k])
  <2>1. k \in Node /\ rely[k] \in Node /\ Q[k] \in Nat /\ B[k] \in Nat /\ L[k] \in Nat
        /\ B[rely[k]] \in Nat
    BY <1>1
  <2>2. Run(outBufferPackets'[k], Queueing(o), Q[k], B[k])
    BY <2>1 DEF Lane, NotMoved, QueuesKeep, KeepsRun
  <2>3. Run(bus'[rely[k]], OnBus(o), B[rely[k]], L[k])
    BY <2>1 DEF Lane, NotMoved, BusesKeep, KeepsRun
  <2>4. \A p \in InAir(k)' \cap DataOf(o) : L[k] < p.body /\ p.body <= Q[k]
    BY <2>1 DEF Lane, NotMoved, AirKeeps
  <2> QED  BY <1>1, <2>2, <2>3, <2>4
<1>4. Run(inBufferPackets'[Sink], Given(o), 0, B[Sink])
  <2>1. B[Sink] \in Nat /\ 0 \in Nat
    BY NodeAssumption
  <2> QED  BY <2>1 DEF Lane, NotMoved, GivenKeep, KeepsRun
<1>5. \A p \in Packets' : p.type = "DATA" /\ p.origin = o =>
        p \in DataOf(o) /\ p.source \in C \ {Sink} /\ p.forward = rely'[p.source]
  BY PacketsOfLane DEF Lane
<1>6. B[o] = used'.data[o]
  BY DEF Lane, NotMoved
<1>7. \A k \in C \ {Sink} : L[k] <= Q[k]
  BY DEF Lane
<1> QED  BY <1>1, <1>2, <1>3, <1>4, <1>5, <1>6, <1>7 DEF Lane

\* Queues that do not move the payloads of o.
LEMMA QueuesSameKeep ==
  ASSUME NEW o, UNCHANGED outBufferPackets
  PROVE  QueuesKeep(o)
  BY DEF QueuesKeep, KeepsRun

LEMMA EnqueueKeeps ==
  ASSUME IInv, NEW o, NEW n \in Node, NEW T, NEW r \in Seq(T), Enqueue(n, r), NoneOf(r, DataOf(o))
  PROVE  QueuesKeep(o)
<1> DEFINE S == From(n) \cup T
<1>1. outBufferPackets[n] \in Seq(S) /\ r \in Seq(S)
  <2>1. outBufferPackets[n] \in Seq(From(n)) /\ From(n) \subseteq S /\ T \subseteq S
    BY DEF IInv, Queues
  <2> HIDE DEF S
  <2> QED  BY <2>1, SeqMonotonic
<1> HIDE DEF S
<1>2. /\ \A k \in Node : k # n => outBufferPackets'[k] = outBufferPackets[k]
      /\ outBufferPackets'[n] = outBufferPackets[n] \o r
  BY DEF Enqueue, IInv, Queues
<1>3. KeepsRun(outBufferPackets[n], outBufferPackets[n] \o r, Queueing(o))
  BY <1>1, Numbered, OthersKeepRun
<1> QED  BY <1>2, <1>3 DEF QueuesKeep, KeepsRun

LEMMA EnqueueOneKeeps ==
  ASSUME IInv, NEW o, NEW n \in Node, NEW p, Enqueue(n, <<p>>), p \notin DataOf(o)
  PROVE  QueuesKeep(o)
<1>1. <<p>> \in Seq({p}) /\ NoneOf(<<p>>, DataOf(o))
  BY SingleOne
<1>2. PICK r : r = <<p>>
  OBVIOUS
<1> QED  BY <1>1, <1>2, EnqueueKeeps

LEMMA ReplacedKeeps ==
  ASSUME IInv, NEW o, NEW n \in Node, NEW q, outBufferPackets' = [outBufferPackets EXCEPT ![n] = q],
         KeepsRun(outBufferPackets[n], q, Queueing(o))
  PROVE  QueuesKeep(o)
<1>1. /\ \A k \in Node : k # n => outBufferPackets'[k] = outBufferPackets[k]
      /\ outBufferPackets'[n] = q
  BY DEF IInv, Queues
<1> QED  BY <1>1 DEF QueuesKeep, KeepsRun

LEMMA DisconnectKeeps ==
  ASSUME IInv, NEW o, NEW n \in Node, RtDisconnect(n)
  PROVE  QueuesKeep(o)
<1>1. PICK c : c = ConnectionLost(n)
  OBVIOUS
<1>2. c \notin DataOf(o)
  BY <1>1 DEF ConnectionLost, Packet, DataOf
<1>3. outBufferPackets' = [outBufferPackets EXCEPT ![n] = <<c>>]
  BY <1>1 DEF RtDisconnect
<1>4. KeepsRun(outBufferPackets[n], <<c>>, Queueing(o))
  BY <1>2, SingleOne, Numbered, NoneKeepsRun
<1> QED  BY <1>3, <1>4, ReplacedKeeps

\* Buses.
LEMMA BusesSameKeep ==
  ASSUME NEW o, UNCHANGED bus
  PROVE  BusesKeep(o)
  BY DEF BusesKeep, KeepsRun

LEMMA HandledKeeps ==
  ASSUME IInv, NEW o, NEW n \in Node, bus[n] # <<>>, Handled(n, <<>>)
  PROVE  BusesKeep(o)
<1>1. /\ \A k \in Node : k # n => bus'[k] = bus[k]
      /\ bus'[n] = Tail(bus[n]) /\ bus[n] \in Seq(EventsOf(n))
  BY HandledTail
<1>2. KeepsRun(bus[n], Tail(bus[n]), OnBus(o))
  BY <1>1, Numbered, TailKeepsRun
<1> QED  BY <1>1, <1>2 DEF BusesKeep, KeepsRun

LEMMA FireKeeps ==
  ASSUME IInv, NEW o, NEW n \in Node, NEW T, NEW r \in Seq(T), Fire(n, r),
         NoneOf(r, HearingsOf(o))
  PROVE  BusesKeep(o)
<1> DEFINE S == EventsOf(n) \cup T
<1>1. bus[n] \in Seq(S) /\ r \in Seq(S)
  <2>1. bus[n] \in Seq(EventsOf(n)) /\ EventsOf(n) \subseteq S /\ T \subseteq S
    BY DEF IInv, Buses
  <2> HIDE DEF S
  <2> QED  BY <2>1, SeqMonotonic
<1> HIDE DEF S
<1>2. /\ \A k \in Node : k # n => bus'[k] = bus[k]
      /\ bus'[n] = bus[n] \o r
  BY FireAdds
<1>3. KeepsRun(bus[n], bus[n] \o r, OnBus(o))
  BY <1>1, Numbered, OthersKeepRun
<1> QED  BY <1>2, <1>3 DEF BusesKeep, KeepsRun

LEMMA FireOneKeeps ==
  ASSUME IInv, NEW o, NEW n \in Node, NEW e, Fire(n, <<e>>), e \notin HearingsOf(o)
  PROVE  BusesKeep(o)
<1>1. <<e>> \in Seq({e}) /\ NoneOf(<<e>>, HearingsOf(o))
  BY SingleOne
<1>2. PICK r : r = <<e>>
  OBVIOUS
<1> QED  BY <1>1, <1>2, FireKeeps

\* idleTick: what it queues, r, and fires, f, is no payload.
LEMMA DispatchKeeps ==
  ASSUME IInv, NEW o, NEW n \in Node, NEW T, NEW r \in Seq(T), NoneOf(r, DataOf(o)),
         NEW U, NEW f \in Seq(U), NoneOf(f, HearingsOf(o)),
         Dispatch(n, outBufferPackets[n] \o r, f)
  PROVE  QueuesKeep(o) /\ BusesKeep(o)
<1>1. QueuesKeep(o)
  <2>1. Enqueue(n, r)
    BY DEF Dispatch, Enqueue
  <2> QED  BY <2>1, EnqueueKeeps
<1>2. BusesKeep(o)
  <2>1. PICK g : /\ g \in {<<>>, <<Event("ready")>>}
                 /\ Fire(n, f \o g)
    BY DEF Dispatch
  <2>2. PICK e : e = Event("ready")
    OBVIOUS
  <2> DEFINE S == U \cup {e}
  <2>3. U \subseteq S /\ e \in S
    OBVIOUS
  <2> HIDE DEF S
  <2>4. f \in Seq(S) /\ <<e>> \in Seq(S) /\ <<>> \in Seq(S)
    BY <2>3, SeqMonotonic, EmptyIsSeq
  <2>5. g \in Seq(S)
    BY <2>1, <2>2, <2>4
  <2>6. e \notin HearingsOf(o)
    BY <2>2 DEF Event, HearingsOf
  <2>7. NoneOf(<<e>>, HearingsOf(o)) /\ NoneOf(<<>>, HearingsOf(o))
    BY <2>6, SingleOne DEF NoneOf
  <2>8. NoneOf(g, HearingsOf(o))
    BY <2>1, <2>2, <2>7
  <2>9. f \o g \in Seq(S) /\ NoneOf(f \o g, HearingsOf(o))
    BY <2>4, <2>5, <2>8, ConcatOne, ConcatIsSeq
  <2> QED  BY <2>1, <2>9, FireKeeps
<1> QED  BY <1>1, <1>2

\* The MAC layer.
LEMMA AirSame ==
  ASSUME NEW o, UNCHANGED mac
  PROVE  AirKeeps(o)
<1>1. \A k \in Node : InAir(k)' = InAir(k)
  BY DEF InAir
<1> QED  BY <1>1 DEF AirKeeps

LEMMA ElementsRemoved ==
  ASSUME NEW T, NEW q \in Seq(T), NEW i \in DOMAIN q, NEW e, NEW r,
         r = RemoveAt(q, i) \/ r = ReplaceAt(q, i, e)
  PROVE  Elements(r) \subseteq Elements(q) \cup (IF r = RemoveAt(q, i) THEN {} ELSE {e})
<1>1. CASE r = RemoveAt(q, i)
  <2>1. ASSUME NEW x \in Elements(r), x \notin Elements(q) PROVE FALSE
    <3>1. NoneOf(q, {x})
      BY <2>1 DEF NoneOf, Elements
    <3>2. NoneOf(r, {x})
      BY <1>1, <3>1, RemoveOne
    <3> QED  BY <2>1, <3>2 DEF NoneOf, Elements
  <2> QED  BY <1>1, <2>1
<1>2. CASE r = ReplaceAt(q, i, e) /\ r # RemoveAt(q, i)
  <2>1. Elements(ReplaceAt(q, i, e)) \subseteq Elements(q) \cup {e}
    BY DEF Elements, ReplaceAt
  <2> QED  BY <1>2, <2>1
<1> QED  BY <1>1, <1>2

\* The MAC layer goes on with a message of n, to m.
LEMMA AirBecomes ==
  ASSUME IInv, NEW n \in Node, NEW i \in DOMAIN mac[n], NEW m, m.pkt = mac[n][i].pkt,
         m.left \subseteq mac[n][i].left, MacBecomes(n, i, m)
  PROVE  /\ \A k \in Node : Elements(mac[k])' \subseteq Elements(mac[k]) \cup (IF k = n THEN {m} ELSE {})
         /\ \A o : AirKeeps(o)
<1>1. mac \in [Node -> Seq(Message)] /\ mac[n] \in Seq(Message)
  BY DEF IInv, Messages
<1>2. /\ \A k \in Node : k # n => mac'[k] = mac[k]
      /\ mac'[n] = RemoveAt(mac[n], i) \/ mac'[n] = ReplaceAt(mac[n], i, m)
  BY <1>1 DEF MacBecomes
<1>3. Elements(mac'[n]) \subseteq Elements(mac[n]) \cup {m}
  BY <1>1, <1>2, ElementsRemoved
<1>4. mac[n][i] \in Elements(mac[n])
  BY DEF Elements
<1>5. \A k \in Node : InAir(k)' \subseteq InAir(k)
  BY <1>2, <1>3, <1>4 DEF InAir
<1>6. \A k \in Node : k # n => Elements(mac[k])' = Elements(mac[k])
  BY <1>2 DEF Elements
<1> QED  BY <1>3, <1>5, <1>6 DEF AirKeeps

\* Which steps do not move the payloads of o.
LEMMA GivenSame ==
  ASSUME NEW o, inBufferPackets'[Sink] = inBufferPackets[Sink]
  PROVE  GivenKeep(o)
  BY DEF GivenKeep, KeepsRun

LEMMA HandlerNotMoved ==
  ASSUME IInv, GivenInv, NEW o \in Plant, NEW n \in Node,
         \/ PacketSent(n) \/ PacketTimeout(n) \/ RecvIgnored(n) \/ RecvRtInit(n) \/ RecvCommand(n)
         \/ RecvRtAck(n) \/ RecvJoin(n) \/ RecvLeave(n) \/ RecvConnectionLost(n)
  PROVE  NotMoved(o)
<1>1. bus[n] # <<>> /\ Handled(n, <<>>) /\ UNCHANGED <<mac, used>>
  BY DEF PacketSent, PacketTimeout, RecvIgnored, RecvRtInit, RecvCommand, RecvRtAck, RelayRtAck, RecvJoin,
     RecvLeave, RecvConnectionLost, Accepted, At
<1>2. BusesKeep(o) /\ AirKeeps(o) /\ used'.data[o] = used.data[o]
  BY <1>1, HandledKeeps, AirSame
<1>3. GivenKeep(o)
  <2>1. CASE UNCHANGED inBufferPackets
    BY <2>1, GivenSame
  <2>2. CASE RecvCommand(n)
    <3>1. n # Sink
      BY <2>2 DEF RecvCommand, Accepted, Accepts, AcceptsCommand
    <3>2. UNCHANGED inBufferPackets \/ ToApplication(n, Received(n))
      BY <2>2 DEF RecvCommand
    <3>3. inBufferPackets'[Sink] = inBufferPackets[Sink]
      BY <3>1, <3>2, NodeAssumption DEF ToApplication, GivenInv
    <3> QED  BY <3>3, GivenSame
  <2> QED  BY <2>1, <2>2 DEF PacketSent, PacketTimeout, RecvIgnored, RecvRtInit, RecvRtAck, RelayRtAck,
              RecvJoin, RecvLeave, RecvConnectionLost, appVars
<1>4. QueuesKeep(o)
  <2>1. CASE RecvRtInit(n)
    <3> DEFINE a == RtAck(n, Received(n).source, Received(n).counter, <<n>>, n)
               b == RtInit(n, Received(n).counter, Received(n).depth + 1)
    <3>1. Enqueue(n, <<a, b>>)
      BY <2>1 DEF RecvRtInit
    <3>2. a \notin DataOf(o) /\ b \notin DataOf(o)
      BY DEF RtAck, RtInit, Packet, DataOf
    <3> HIDE DEF a, b
    <3>3. <<a, b>> \in Seq({a, b})
      OBVIOUS
    <3>4. NoneOf(<<a, b>>, DataOf(o))
      <4>1. DOMAIN <<a, b>> = 1 .. 2 /\ <<a, b>>[1] = a /\ <<a, b>>[2] = b
        OBVIOUS
      <4> QED  BY <3>2, <4>1 DEF NoneOf
    <3>5. PICK r : r = <<a, b>>
      OBVIOUS
    <3> QED  BY <3>1, <3>3, <3>4, <3>5, EnqueueKeeps
  <2>2. CASE RtDisconnect(n)
    BY <2>2, DisconnectKeeps
  <2>3. CASE UNCHANGED outBufferPackets
    BY <2>3, QueuesSameKeep
  <2>4. CASE \E p : Enqueue(n, <<p>>) /\ p.type # "DATA"
    <3>1. PICK p : Enqueue(n, <<p>>) /\ p.type # "DATA"
      BY <2>4
    <3>2. p \notin DataOf(o)
      BY <3>1 DEF DataOf
    <3> QED  BY <3>1, <3>2, EnqueueOneKeeps
  <2>5. PacketTimeout(n) \/ RecvCommand(n) \/ RecvRtAck(n) \/ RecvJoin(n) \/ RecvLeave(n) =>
          \/ RtDisconnect(n) \/ UNCHANGED outBufferPackets
          \/ \E p : Enqueue(n, <<p>>) /\ p.type # "DATA"
    <3>1. \A q, r, t, u, v : Leave(n, q, r, t).type = "LEAVE" /\ RtAck(n, q, r, t, u).type = "RT_ACK"
            /\ Command(n, q, r, t).type = "COMMAND" /\ Join(n, q).type = "JOIN"
      BY DEF Leave, RtAck, Command, Join, Packet
    <3>2. CASE PacketTimeout(n)
      BY <3>1, <3>2 DEF PacketTimeout, SendLeave
    <3>3. CASE RecvCommand(n)
      BY <3>1, <3>3 DEF RecvCommand
    <3>4. CASE RecvRtAck(n)
      BY <3>1, <3>4 DEF RecvRtAck, RelayRtAck
    <3>5. CASE RecvJoin(n)
      BY <3>1, <3>5 DEF RecvJoin
    <3>6. CASE RecvLeave(n)
      BY <3>1, <3>6 DEF RecvLeave
    <3> QED  BY <3>2, <3>3, <3>4, <3>5, <3>6
  <2>6. PacketSent(n) \/ RecvIgnored(n) => UNCHANGED outBufferPackets
    BY DEF PacketSent, RecvIgnored, sendVars
  <2>7. RecvConnectionLost(n) => RtDisconnect(n)
    BY DEF RecvConnectionLost
  <2> QED  BY <2>1, <2>2, <2>3, <2>4, <2>5, <2>6, <2>7
<1> QED  BY <1>2, <1>3, <1>4 DEF NotMoved

LEMMA DataNotMoved ==
  ASSUME IInv, GivenInv, NEW o \in Plant, NEW n \in Node, RecvData(n), Received(n).origin # o
  PROVE  NotMoved(o)
<1>1. bus[n] # <<>> /\ Handled(n, <<>>) /\ UNCHANGED <<mac, used>>
  BY DEF RecvData, Accepted, At
<1>2. BusesKeep(o) /\ AirKeeps(o) /\ used'.data[o] = used.data[o]
  BY <1>1, HandledKeeps, AirSame
<1>3. CASE n = Sink
  <2>1. QueuesKeep(o)
    BY <1>3, QueuesSameKeep DEF RecvData
  <2>2. PICK e : e = [source |-> Received(n).origin, body |-> Received(n).body]
    OBVIOUS
  <2>3. inBufferPackets'[Sink] = Append(inBufferPackets[Sink], e)
    BY <1>3, <2>2, NodeAssumption DEF RecvData, ToApplication, GivenInv
  <2> DEFINE S == [source : Plant, body : Nat] \cup {e}
  <2>4. inBufferPackets[Sink] \in Seq(S) /\ <<e>> \in Seq(S) /\ e \in S
    <3>1. [source : Plant, body : Nat] \subseteq S /\ e \in S
      OBVIOUS
    <3> HIDE DEF S
    <3>2. inBufferPackets[Sink] \in Seq(S)
      BY <3>1, SeqMonotonic DEF GivenInv
    <3>3. <<e>> \in Seq(S)
      BY <3>1
    <3> QED  BY <3>1, <3>2, <3>3
  <2> HIDE DEF S
  <2>5. NoneOf(<<e>>, GivenOf(o))
    <3>1. e \notin GivenOf(o)
      BY <2>2 DEF GivenOf
    <3> QED  BY <3>1, SingleOne
  <2>6. inBufferPackets'[Sink] = inBufferPackets[Sink] \o <<e>>
    BY <2>3, <2>4, AppendIsConcat
  <2>7. PICK r : r = <<e>>
    OBVIOUS
  <2>8. KeepsRun(inBufferPackets[Sink], inBufferPackets[Sink] \o r, Given(o))
    BY <2>4, <2>5, <2>7, Numbered, OthersKeepRun
  <2> QED  BY <1>2, <2>1, <2>6, <2>7, <2>8 DEF NotMoved, GivenKeep
<1>4. CASE n # Sink
  <2>1. PICK p : p = Data(n, Received(n).origin, Received(n).body)
    OBVIOUS
  <2>2. Enqueue(n, <<p>>) /\ UNCHANGED inBufferPackets
    BY <1>4, <2>1 DEF RecvData
  <2>3. p \notin DataOf(o)
    BY <2>1 DEF Data, Packet, DataOf
  <2> QED  BY <1>2, <2>2, <2>3, EnqueueOneKeeps, GivenSame DEF NotMoved
<1> QED  BY <1>3, <1>4

LEMMA SendNotMoved ==
  ASSUME IInv, NEW o \in Plant, NEW n \in Node, n # o, Send(n)
  PROVE  NotMoved(o)
<1>1. PICK p : p = Data(n, n, used.data[n] + 1)
  OBVIOUS
<1>2. p \notin DataOf(o)
  BY <1>1 DEF Data, Packet, DataOf
<1>3. /\ Enqueue(n, <<p>>) /\ UNCHANGED <<bus, mac, inBufferPackets>>
      /\ used' = [used EXCEPT !.data[n] = @ + 1]
  BY <1>1 DEF Send, appVars
<1>4. used'.data[o] = used.data[o]
  BY <1>3 DEF IInv, UsedInv, Counts, Plant
<1> QED  BY <1>2, <1>3, <1>4, EnqueueOneKeeps, BusesSameKeep, AirSame, GivenSame DEF NotMoved

LEMMA SendToMacNotMoved ==
  ASSUME IInv, NEW o \in Plant, NEW n \in Node, SendToMac(n),
         Head(outBufferPackets[n]) \notin DataOf(o)
  PROVE  NotMoved(o)
<1> DEFINE p == Head(outBufferPackets[n])
           m == MacMessage(n, p)
<1>1. /\ bus[n] # <<>> /\ Handled(n, <<>>) /\ outBufferPackets[n] # <<>>
      /\ mac' = [mac EXCEPT ![n] = Append(@, m)]
      /\ outBufferPackets' = [outBufferPackets EXCEPT ![n] = Tail(@)]
      /\ UNCHANGED <<inBufferPackets, used>>
  BY DEF SendToMac, At, appVars
<1>2. m.pkt = p /\ p \notin DataOf(o)
  BY DEF MacMessage
<1> HIDE DEF m, p
<1>3. QueuesKeep(o)
  <2>1. outBufferPackets[n] \in Seq(From(n))
    BY DEF IInv, Queues
  <2>2. KeepsRun(outBufferPackets[n], Tail(outBufferPackets[n]), Queueing(o))
    BY <1>1, <2>1, Numbered, TailKeepsRun
  <2> QED  BY <1>1, <2>2, ReplacedKeeps
<1>4. AirKeeps(o)
  <2>1. /\ \A k \in Node : k # n => mac'[k] = mac[k]
        /\ mac'[n] = mac[n] \o <<m>>
    BY <1>1 DEF IInv, Messages
  <2> DEFINE S == Message \cup {m}
  <2>2. mac[n] \in Seq(S) /\ <<m>> \in Seq(S)
    <3>1. mac[n] \in Seq(Message) /\ Message \subseteq S /\ m \in S
      BY DEF IInv, Messages
    <3> HIDE DEF S
    <3> QED  BY <3>1, SeqMonotonic
  <2> HIDE DEF S
  <2>3. Elements(<<m>>) = {m}
    BY DEF Elements
  <2>4. Elements(mac[n] \o <<m>>) \subseteq Elements(mac[n]) \cup {m}
    BY <2>2, <2>3, ElementsConcat
  <2>5. \A k \in Node : InAir(k)' \subseteq InAir(k) \cup {p}
    <3>1. Elements(mac'[n]) \subseteq Elements(mac[n]) \cup {m}
      BY <2>1, <2>4
    <3>2. InAir(n)' \subseteq InAir(n) \cup {p}
      BY <1>2, <3>1 DEF InAir
    <3>3. \A k \in Node : k # n => InAir(k)' = InAir(k)
      BY <2>1 DEF InAir
    <3> QED  BY <3>2, <3>3
  <2> QED  BY <1>2, <2>5 DEF AirKeeps
<1> QED  BY <1>1, <1>3, <1>4, HandledKeeps, GivenSame DEF NotMoved

\* A payload of o is delivered once.
DeliversOf(o) == \E n \in Node : \E i \in DOMAIN mac[n] : \E m \in mac[n][i].left :
  /\ mac[n][i].pkt \in DataOf(o)
  /\ Fire(m, <<EventOf("recv", mac[n][i].pkt)>>)
  /\ MacBecomes(n, i, [mac[n][i] EXCEPT !.left = @ \ {m}])
  /\ UNCHANGED <<outBufferPackets, inBufferPackets, used>>

LEMMA MacNotMoved ==
  ASSUME IInv, NEW o \in Plant, NEW n \in Node, MacStep(n), Steady'
  PROVE  NotMoved(o) \/ DeliversOf(o)
<1>1. QueuesKeep(o) /\ GivenKeep(o)
  <2>1. UNCHANGED <<outBufferPackets, inBufferPackets>>
    BY DEF MacStep, MacDeliver, MacRepeat, MacSent, MacTimeout, sendVars, appVars
  <2> QED  BY <2>1, QueuesSameKeep, GivenSame
<1>2. CASE MacDeliver(n)
  <2>1. PICK i \in DOMAIN mac[n] : \E m \in mac[n][i].left :
          /\ Fire(m, <<EventOf("recv", mac[n][i].pkt)>>)
          /\ MacBecomes(n, i, [mac[n][i] EXCEPT !.left = @ \ {m}])
          /\ UNCHANGED <<outBufferPackets, inBufferPackets, used>>
    BY <1>2 DEF MacDeliver, sendVars, appVars
  <2>2. PICK m \in mac[n][i].left :
          /\ Fire(m, <<EventOf("recv", mac[n][i].pkt)>>)
          /\ MacBecomes(n, i, [mac[n][i] EXCEPT !.left = @ \ {m}])
          /\ UNCHANGED <<outBufferPackets, inBufferPackets, used>>
    BY <2>1
  <2>3. mac[n][i] \in Message /\ m \in Node
    BY InMac DEF Message
  <2>4. CASE mac[n][i].pkt \in DataOf(o)
    BY <2>2, <2>4 DEF DeliversOf
  <2>5. CASE mac[n][i].pkt \notin DataOf(o)
    <3>1. PICK e, x : /\ e = EventOf("recv", mac[n][i].pkt)
                      /\ x = [mac[n][i] EXCEPT !.left = @ \ {m}]
      OBVIOUS
    <3>2. e \notin HearingsOf(o)
      BY <2>5, <3>1 DEF EventOf, HearingsOf
    <3>3. x.pkt = mac[n][i].pkt /\ x.left \subseteq mac[n][i].left
      BY <2>3, <3>1 DEF Message
    <3>4. AirKeeps(o)
      BY <2>2, <3>1, <3>3, AirBecomes
    <3>5. BusesKeep(o)
      BY <2>2, <2>3, <3>1, <3>2, FireOneKeeps
    <3> QED  BY <1>1, <2>2, <3>4, <3>5 DEF NotMoved
  <2> QED  BY <2>4, <2>5
<1>3. ASSUME NEW i \in DOMAIN mac[n], NEW x, NEW e, x.pkt = mac[n][i].pkt, x.left = mac[n][i].left,
             MacBecomes(n, i, x), Fire(n, <<e>>), e.ev # "recv", used'.data[o] = used.data[o]
      PROVE  NotMoved(o)
  <2>1. AirKeeps(o)
    BY <1>3, AirBecomes
  <2>2. e \notin HearingsOf(o)
    BY <1>3 DEF HearingsOf
  <2>3. BusesKeep(o)
    BY <1>3, <2>2, FireOneKeeps
  <2> QED  BY <1>1, <1>3, <2>1, <2>3 DEF NotMoved
<1>4. CASE MacSent(n)
  <2>1. PICK i \in DOMAIN mac[n] :
          /\ MacBecomes(n, i, [mac[n][i] EXCEPT !.sent = 1])
          /\ Fire(n, <<EventOf("sent", mac[n][i].pkt)>>)
          /\ UNCHANGED used
    BY <1>4 DEF MacSent
  <2>2. PICK x, e : x = [mac[n][i] EXCEPT !.sent = 1] /\ e = EventOf("sent", mac[n][i].pkt)
    OBVIOUS
  <2>3. x.pkt = mac[n][i].pkt /\ x.left = mac[n][i].left /\ e.ev # "recv"
    BY <2>2, InMac DEF Message, EventOf
  <2> QED  BY <1>3, <2>1, <2>2, <2>3
<1>5. ~MacTimeout(n) /\ ~MacRepeat(n)
  <2>1. used.timeout \in Nat /\ used.repeat[n] \in Nat
    BY DEF IInv, UsedInv, Counts
  <2>2. MacTimeout(n) => used'.timeout = used.timeout + 1
    BY DEF MacTimeout, IInv, UsedInv, Counts
  <2>3. MacRepeat(n) => used'.repeat[n] = used.repeat[n] + 1
    BY DEF MacRepeat, IInv, UsedInv, Counts
  <2> QED  BY <2>1, <2>2, <2>3 DEF Steady
<1> QED  BY <1>2, <1>4, <1>5 DEF MacStep

LEMMA RestartNotMoved ==
  ASSUME IInv, GivenInv, NEW o \in Plant, NEW n \in Node, Restart(n)
  PROVE  NotMoved(o)
<1>1. /\ outBufferPackets' = [outBufferPackets EXCEPT ![n] = <<>>]
      /\ inBufferPackets' = [inBufferPackets EXCEPT ![n] = <<>>]
      /\ bus' = [bus EXCEPT ![n] = <<>>]
      /\ mac' = [mac EXCEPT ![n] =
           [i \in DOMAIN mac[n] |-> Unanswered(mac[n][i])]]
      /\ used' = [used EXCEPT !.restart[n] = @ + 1]
  BY DEF Restart
<1>2. \A S : NoneOf(<<>>, S)
  BY DEF NoneOf
<1>3. QueuesKeep(o)
  <2>1. KeepsRun(outBufferPackets[n], <<>>, Queueing(o))
    BY <1>2, Numbered, NoneKeepsRun
  <2> QED  BY <1>1, <2>1, ReplacedKeeps
<1>4. BusesKeep(o)
  <2>1. KeepsRun(bus[n], <<>>, OnBus(o))
    BY <1>2, Numbered, NoneKeepsRun
  <2> QED  BY <1>1, <2>1 DEF BusesKeep, KeepsRun, IInv, Buses
<1>5. GivenKeep(o)
  <2>1. KeepsRun(inBufferPackets[Sink], <<>>, Given(o))
    BY <1>2, Numbered, NoneKeepsRun
  <2> QED  BY <1>1, <2>1, NodeAssumption DEF GivenKeep, KeepsRun, GivenInv
<1>6. AirKeeps(o)
  <2>1. \A i \in DOMAIN mac[n] :
          /\ Unanswered(mac[n][i]).pkt = mac[n][i].pkt
          /\ Unanswered(mac[n][i]).left = mac[n][i].left
    BY InMac DEF Message, Unanswered
  <2> DEFINE silent == [i \in DOMAIN mac[n] |-> Unanswered(mac[n][i])]
  <2>2. DOMAIN silent = DOMAIN mac[n]
        /\ \A i \in DOMAIN mac[n] : silent[i].pkt = mac[n][i].pkt /\ silent[i].left = mac[n][i].left
    BY <2>1
  <2>3. mac' = [mac EXCEPT ![n] = silent]
    BY <1>1
  <2> HIDE DEF silent
  <2>4. \A e \in Elements(silent) : e.left # {} => e.pkt \in InAir(n)
    BY <2>2 DEF Elements, InAir
  <2>5. \A k \in Node : InAir(k)' \subseteq InAir(k)
    BY <2>3, <2>4 DEF InAir, IInv, Messages
  <2> QED  BY <2>5 DEF AirKeeps
<1>7. used'.data[o] = used.data[o]
  BY <1>1 DEF IInv, UsedInv, Counts
<1> QED  BY <1>3, <1>4, <1>5, <1>6, <1>7 DEF NotMoved

LEMMA IdleNotMoved ==
  ASSUME IInv, NEW o \in Plant, IdleStep
  PROVE  NotMoved(o)
<1>1. UNCHANGED <<mac, inBufferPackets>>
  BY DEF IdleStep, SerialIdleTick, SinkIdleTick, NodeIdleTick, appVars
<1>2. AirKeeps(o) /\ GivenKeep(o)
  BY <1>1, AirSame, GivenSame
<1>3. \A ev : ev # "recv" => Event(ev) \notin HearingsOf(o)
  BY DEF Event, HearingsOf
<1>4. CASE SerialIdleTick
  <2>1. Fire(Sink, <<Event("serial_ready")>>) /\ UNCHANGED <<outBufferPackets, used>>
    BY <1>4 DEF SerialIdleTick, sendVars
  <2>2. PICK e : e = Event("serial_ready")
    OBVIOUS
  <2>3. BusesKeep(o)
    BY <1>3, <2>1, <2>2, FireOneKeeps, NodeAssumption
  <2> QED  BY <1>2, <2>1, <2>3, QueuesSameKeep DEF NotMoved
<1>5. CASE SinkIdleTick
  <2>1. PICK elapsed \in BOOLEAN :
          Dispatch(Sink, outBufferPackets[Sink], IF elapsed THEN <<Event("incr")>> ELSE <<>>)
    BY <1>5 DEF SinkIdleTick
  <2>2. PICK e, f, r : /\ e = Event("incr") /\ r = <<>>
                       /\ f = IF elapsed THEN <<Event("incr")>> ELSE <<>>
    OBVIOUS
  <2>3. f \in Seq({e}) /\ NoneOf(f, HearingsOf(o))
    <3>1. e \notin HearingsOf(o)
      BY <1>3, <2>2
    <3>2. <<e>> \in Seq({e}) /\ <<>> \in Seq({e})
      BY EmptyIsSeq
    <3>3. NoneOf(<<e>>, HearingsOf(o)) /\ NoneOf(<<>>, HearingsOf(o))
      BY <3>1, SingleOne DEF NoneOf
    <3> QED  BY <2>2, <3>2, <3>3
  <2>4. r \in Seq({}) /\ NoneOf(r, DataOf(o))
    BY <2>2, EmptyIsSeq DEF NoneOf
  <2>5. outBufferPackets[Sink] \o r = outBufferPackets[Sink]
    BY <2>2, NodeAssumption, ConcatEmptySeq DEF IInv, Queues
  <2>6. Dispatch(Sink, outBufferPackets[Sink] \o r, f)
    BY <2>1, <2>2, <2>5
  <2>7. QueuesKeep(o) /\ BusesKeep(o)
    BY <2>3, <2>4, <2>6, DispatchKeeps, NodeAssumption
  <2>8. UNCHANGED used
    BY <1>5 DEF SinkIdleTick
  <2> QED  BY <1>2, <2>7, <2>8 DEF NotMoved
<1>6. CASE \E n \in Node : NodeIdleTick(n)
  <2>1. PICK n \in Node, elapsed \in BOOLEAN :
          /\ Dispatch(n, outBufferPackets[n] \o IF elapsed THEN <<Join(n, n)>> ELSE <<>>, <<>>)
          /\ used' = IF elapsed THEN [used EXCEPT !.join[n] = @ + 1] ELSE used
    BY <1>6 DEF NodeIdleTick
  <2>2. PICK j, f, r : /\ j = Join(n, n) /\ f = <<>>
                       /\ r = IF elapsed THEN <<Join(n, n)>> ELSE <<>>
    OBVIOUS
  <2>3. r \in Seq({j}) /\ NoneOf(r, DataOf(o))
    <3>1. j \notin DataOf(o)
      BY <2>2 DEF Join, Packet, DataOf
    <3>2. <<j>> \in Seq({j}) /\ <<>> \in Seq({j})
      BY EmptyIsSeq
    <3>3. NoneOf(<<j>>, DataOf(o)) /\ NoneOf(<<>>, DataOf(o))
      BY <3>1, SingleOne DEF NoneOf
    <3> QED  BY <2>2, <3>2, <3>3
  <2>4. f \in Seq({}) /\ NoneOf(f, HearingsOf(o))
    BY <2>2, EmptyIsSeq DEF NoneOf
  <2>5. Dispatch(n, outBufferPackets[n] \o r, f)
    BY <2>1, <2>2
  <2>6. QueuesKeep(o) /\ BusesKeep(o)
    BY <2>3, <2>4, <2>5, DispatchKeeps
  <2>7. used'.data[o] = used.data[o]
    BY <2>1 DEF IInv, UsedInv, Counts
  <2> QED  BY <1>2, <2>6, <2>7 DEF NotMoved
<1> QED  BY <1>4, <1>5, <1>6 DEF IdleStep

LEMMA SinkNotMoved ==
  ASSUME IInv, NEW o \in Plant, SinkBusStep
  PROVE  NotMoved(o)
<1>1. bus[Sink] # <<>> /\ Handled(Sink, <<>>) /\ UNCHANGED <<mac, used, inBufferPackets>>
  BY DEF SinkBusStep, IncrBroadcastCounter, SendToSerial, RecvInit, RecvAnswer, SinkSend, At, appVars
<1>2. BusesKeep(o) /\ AirKeeps(o) /\ GivenKeep(o)
  BY <1>1, HandledKeeps, AirSame, GivenSame, NodeAssumption
<1>3. QueuesKeep(o)
  <2>1. \/ UNCHANGED outBufferPackets
        \/ Enqueue(Sink, <<>>)
        \/ \E p : Enqueue(Sink, <<p>>) /\ p.type # "DATA"
    <3>1. \A q, r, t : RtInit(Sink, q, r).type = "RT_INIT" /\ Command(Sink, q, r, t).type = "COMMAND"
      BY DEF RtInit, Command, Packet
    <3>2. CASE IncrBroadcastCounter
      BY <3>1, <3>2 DEF IncrBroadcastCounter
    <3>3. CASE RecvAnswer
      <4>1. serial.state \in {"GET", "PUT", "READY"}
        BY DEF IInv, SerialInv
      <4> QED  BY <3>1, <3>3, <4>1 DEF RecvAnswer
    <3> QED  BY <3>2, <3>3 DEF SinkBusStep, SendToSerial, RecvInit, SinkSend, sendVars
  <2>2. CASE UNCHANGED outBufferPackets
    BY <2>2, QueuesSameKeep
  <2>3. CASE Enqueue(Sink, <<>>)
    <3>1. <<>> \in Seq({}) /\ NoneOf(<<>>, DataOf(o))
      BY EmptyIsSeq DEF NoneOf
    <3> QED  BY <2>3, <3>1, EnqueueKeeps, NodeAssumption
  <2>4. CASE \E p : Enqueue(Sink, <<p>>) /\ p.type # "DATA"
    <3>1. PICK p : Enqueue(Sink, <<p>>) /\ p.type # "DATA"
      BY <2>4
    <3>2. p \notin DataOf(o)
      BY <3>1 DEF DataOf
    <3> QED  BY <3>1, <3>2, EnqueueOneKeeps, NodeAssumption
  <2> QED  BY <2>1, <2>2, <2>3, <2>4
<1> QED  BY <1>1, <1>2, <1>3 DEF NotMoved

LEMMA HostNotMoved ==
  ASSUME IInv, GivenInv, NEW o \in Plant,
         \/ HostAnswer \/ HostStart \/ Boot \/ Request
         \/ (\E f \in Caller : SinkSendReturns(f)) \/ UNCHANGED vars
         \/ \E n \in Node : Recv(n) \/ RecvConnection(n)
  PROVE  NotMoved(o)
<1>1. UNCHANGED <<mac, outBufferPackets>>
  BY DEF HostAnswer, HostStart, Boot, Request, SinkSendReturns, Recv, RecvConnection, vars, sendVars
<1>2. used'.data[o] = used.data[o]
  <2>1. HostStart => used' = [used EXCEPT !.host = @ + 1]
    BY DEF HostStart
  <2>2. Request => used' = [used EXCEPT !.command = @ + 1]
    BY DEF Request
  <2>3. UNCHANGED used \/ HostStart \/ Request
    BY DEF HostAnswer, Boot, SinkSendReturns, Recv, RecvConnection, vars
  <2> QED  BY <2>1, <2>2, <2>3 DEF IInv, UsedInv, Counts
<1>3. BusesKeep(o)
  <2>1. UNCHANGED bus \/ \E ev \in {"table", "request"} : Fire(Sink, <<Event(ev)>>)
    BY DEF HostAnswer, HostStart, HostDelivers, Boot, Request, SinkSendReturns, Recv,
       RecvConnection, vars
  <2>2. CASE \E ev \in {"table", "request"} : Fire(Sink, <<Event(ev)>>)
    <3>1. PICK e : Fire(Sink, <<e>>) /\ e.ev # "recv"
      BY <2>2 DEF Event
    <3>2. e \notin HearingsOf(o)
      BY <3>1 DEF HearingsOf
    <3> QED  BY <3>1, <3>2, FireOneKeeps, NodeAssumption
  <2> QED  BY <2>1, <2>2, BusesSameKeep
<1>4. GivenKeep(o)
  <2>1. UNCHANGED inBufferPackets \/ \E n \in Node : Recv(n)
    BY DEF HostAnswer, HostStart, Boot, Request, SinkSendReturns, RecvConnection, vars, appVars
  <2>2. CASE \E n \in Node : Recv(n)
    <3>1. PICK n \in Node : /\ inBufferPackets[n] # <<>>
                            /\ inBufferPackets' = [inBufferPackets EXCEPT ![n] = Tail(@)]
      BY <2>2 DEF Recv
    <3>2. CASE n # Sink
      <4>1. inBufferPackets'[Sink] = inBufferPackets[Sink]
        BY <3>1, <3>2, NodeAssumption DEF GivenInv
      <4> QED  BY <4>1, GivenSame
    <3>3. CASE n = Sink
      <4>1. inBufferPackets'[Sink] = Tail(inBufferPackets[Sink])
        BY <3>1, <3>3, NodeAssumption DEF GivenInv
      <4>2. KeepsRun(inBufferPackets[Sink], Tail(inBufferPackets[Sink]), Given(o))
        BY <3>1, <3>3, Numbered, TailKeepsRun DEF GivenInv
      <4> QED  BY <4>1, <4>2 DEF GivenKeep
    <3> QED  BY <3>2, <3>3
  <2> QED  BY <2>1, <2>2, GivenSame
<1> QED  BY <1>1, <1>2, <1>3, <1>4, QueuesSameKeep, AirSame DEF NotMoved

\* Steps that move a payload of o: the lane after it.
LEMMA LaneFrom ==
  ASSUME IInv, [Next]_vars, RelyKept, NEW o \in Plant, rely[o] # Broadcast,
         NEW C \in SUBSET Node, NEW L, NEW Q, NEW B, Lane(o, C, L, Q, B),
         NEW L2 \in [Node -> Nat], NEW Q2 \in [Node -> Nat], NEW B2 \in [Node -> Nat],
         \A k \in C \ {Sink} :
           /\ Run(outBufferPackets'[k], Queueing(o), Q2[k], B2[k])
           /\ L2[k] <= Q2[k]
           /\ \A p \in InAir(k)' \cap DataOf(o) : L2[k] < p.body /\ p.body <= Q2[k]
           /\ Run(bus'[rely[k]], OnBus(o), B2[rely[k]], L2[k]),
         Run(inBufferPackets'[Sink], Given(o), 0, B2[Sink]), B2[o] = used'.data[o]
  PROVE  HasLane(o)'
<1>1. \A k \in C \ {Sink} : rely'[k] = rely[k]
  BY NodeAssumption DEF Lane, Path, RelyKept
<1>2. Path(o, C)'
  BY <1>1 DEF Lane, Path
<1>3. \A p \in Packets' : p.type = "DATA" /\ p.origin = o =>
        p \in DataOf(o) /\ p.source \in C \ {Sink} /\ p.forward = rely'[p.source]
  BY PacketsOfLane DEF Lane
<1>4. \A k \in C \ {Sink} :
           /\ Run(outBufferPackets'[k], Queueing(o), Q2[k], B2[k])
           /\ L2[k] <= Q2[k]
           /\ \A p \in InAir(k)' \cap DataOf(o) : L2[k] < p.body /\ p.body <= Q2[k]
           /\ Run(bus'[rely'[k]], OnBus(o), B2[rely'[k]], L2[k])
  BY <1>1
<1>5. Lane(o, C, L2, Q2, B2)'
  BY <1>2, <1>3, <1>4 DEF Lane
<1> QED  BY <1>5 DEF HasLane

\* What the lane of o says of the nodes on it.
LEMMA OnLane ==
  ASSUME NEW o \in Plant, NEW C \in SUBSET Node, NEW L, NEW Q, NEW B, Lane(o, C, L, Q, B)
  PROVE  /\ o \in C \ {Sink} /\ B[o] = used.data[o]
         /\ \A k \in C \ {Sink} : k \in Node /\ rely[k] \in C /\ rely[k] \in Node /\ rely[k] # o
         /\ \A j, k \in C \ {Sink} : rely[j] = rely[k] => j = k
  BY DEF Lane, Path, Plant

LEMMA LaneAir ==
  ASSUME NEW o, NEW C, NEW L, NEW Q, NEW B, Lane(o, C, L, Q, B), NEW k \in C \ {Sink}
  PROVE  L[k] <= Q[k] /\ \A p \in InAir(k) \cap DataOf(o) : L[k] < p.body /\ p.body <= Q[k]
  BY DEF Lane

LEMMA LaneRuns ==
  ASSUME NEW o \in Plant, NEW C \in SUBSET Node, NEW L, NEW Q, NEW B, Lane(o, C, L, Q, B)
  PROVE  /\ \A k \in C \ {Sink} :
              /\ Run(outBufferPackets[k], Queueing(o), Q[k], B[k])
              /\ Run(bus[rely[k]], OnBus(o), B[rely[k]], L[k])
         /\ Run(inBufferPackets[Sink], Given(o), 0, B[Sink])
  BY DEF Lane

LEMMA DataIsOf ==
  ASSUME IInv, NEW n \in Node, NEW o \in Plant, NEW b \in Nat
  PROVE  Data(n, o, b) \in DataOf(o) /\ Data(n, o, b).body = b
<1>1. <<>> \in Seq(Node) /\ rely[n] \in Node \cup {Broadcast} /\ o \in Node
  BY EmptyIsSeq DEF IInv, TreeInv, Plant
<1>2. /\ Data(n, o, b).type = "DATA" /\ Data(n, o, b).origin = o /\ Data(n, o, b).body = b
      /\ Data(n, o, b) \in RawPacket
  BY <1>1 DEF Data, Packet, RawPacket, Type
<1> QED  BY <1>2 DEF DataOf

\* A payload is queued behind the others.
LEMMA QueueNext ==
  ASSUME IInv, NEW o, NEW n \in Node, NEW p \in DataOf(o), Enqueue(n, <<p>>),
         NEW lo \in Nat, NEW hi \in Nat, Run(outBufferPackets[n], Queueing(o), lo, hi), hi < p.body
  PROVE  /\ Run(outBufferPackets'[n], Queueing(o), lo, p.body)
         /\ \A k \in Node : k # n => outBufferPackets'[k] = outBufferPackets[k]
<1> DEFINE S == From(n) \cup {p}
<1>1. outBufferPackets[n] \in Seq(S) /\ p \in S
  <2>1. outBufferPackets[n] \in Seq(From(n)) /\ From(n) \subseteq S /\ p \in S
    BY DEF IInv, Queues
  <2> HIDE DEF S
  <2> QED  BY <2>1, SeqMonotonic
<1> HIDE DEF S
<1>2. /\ \A k \in Node : k # n => outBufferPackets'[k] = outBufferPackets[k]
      /\ outBufferPackets'[n] = outBufferPackets[n] \o <<p>>
  BY DEF Enqueue, IInv, Queues
<1>3. Queueing(o)[p] = p.body
  BY DEF Queueing
<1>4. PICK v : v = Queueing(o)
  OBVIOUS
<1>5. v \in [DataOf(o) -> Nat] /\ v[p] = p.body
  BY <1>3, <1>4, Numbered
<1>6. Run(outBufferPackets[n] \o <<p>>, v, lo, v[p])
  BY <1>1, <1>4, <1>5, RunNext
<1> QED  BY <1>2, <1>4, <1>5, <1>6

LEMMA SendLane ==
  ASSUME IInv, [Next]_vars, RelyKept, NEW o \in Plant, rely[o] # Broadcast,
         NEW C \in SUBSET Node, NEW L \in [Node -> Nat], NEW Q \in [Node -> Nat],
         NEW B \in [Node -> Nat], Lane(o, C, L, Q, B), Send(o)
  PROVE  HasLane(o)'
<1>1. PICK p : p = Data(o, o, used.data[o] + 1)
  OBVIOUS
<1>2. /\ Enqueue(o, <<p>>) /\ UNCHANGED <<bus, mac, inBufferPackets>>
      /\ used' = [used EXCEPT !.data[o] = @ + 1]
  BY <1>1 DEF Send, appVars
<1>3. /\ o \in Node /\ o # Sink /\ o \in C \ {Sink} /\ B[o] = used.data[o] /\ B[o] \in Nat
      /\ used'.data[o] = B[o] + 1
  <2>1. o \in Node /\ o # Sink
    BY DEF Plant
  <2>2. o \in C \ {Sink} /\ B[o] = used.data[o]
    BY OnLane
  <2>3. used'.data[o] = used.data[o] + 1
    BY <1>2, <2>1 DEF IInv, UsedInv, Counts
  <2> QED  BY <2>1, <2>2, <2>3
<1>4. p \in DataOf(o) /\ p.body = B[o] + 1
  BY <1>1, <1>3, DataIsOf
<1>5. PICK B2 : B2 = [B EXCEPT ![o] = B[o] + 1]
  OBVIOUS
<1>6. B2 \in [Node -> Nat] /\ B2[o] = B[o] + 1 /\ \A k \in Node : k # o => B2[k] = B[k]
  BY <1>3, <1>5
<1>7. /\ Run(outBufferPackets'[o], Queueing(o), Q[o], p.body)
      /\ \A k \in Node : k # o => outBufferPackets'[k] = outBufferPackets[k]
  <2>1. Run(outBufferPackets[o], Queueing(o), Q[o], B[o]) /\ Q[o] \in Nat
    BY <1>3, LaneRuns
  <2>2. B[o] < p.body
    BY <1>3, <1>4
  <2> QED  BY <1>2, <1>3, <1>4, <2>1, <2>2, QueueNext
<1>8. ASSUME NEW k \in C \ {Sink}
      PROVE  /\ Run(outBufferPackets'[k], Queueing(o), Q[k], B2[k])
             /\ L[k] <= Q[k]
             /\ \A x \in InAir(k)' \cap DataOf(o) : L[k] < x.body /\ x.body <= Q[k]
             /\ Run(bus'[rely[k]], OnBus(o), B2[rely[k]], L[k])
  <2>1. Run(outBufferPackets'[k], Queueing(o), Q[k], B2[k])
    BY <1>4, <1>6, <1>7, LaneRuns
  <2>2. Run(bus'[rely[k]], OnBus(o), B2[rely[k]], L[k])
    <3>1. rely[k] \in Node /\ rely[k] # o
      BY OnLane
    <3>2. B2[rely[k]] = B[rely[k]]
      BY <1>6, <3>1
    <3>3. Run(bus[rely[k]], OnBus(o), B[rely[k]], L[k])
      BY LaneRuns
    <3> QED  BY <1>2, <3>2, <3>3
  <2>3. InAir(k)' = InAir(k)
    BY <1>2 DEF InAir
  <2> QED  BY <2>1, <2>2, <2>3, LaneAir
<1>9. Run(inBufferPackets'[Sink], Given(o), 0, B2[Sink])
  BY <1>2, <1>3, <1>6, LaneRuns, NodeAssumption
<1>10. B2[o] = used'.data[o]
  BY <1>3, <1>6
<1> QED  BY <1>6, <1>8, <1>9, <1>10, LaneFrom

LEMMA HandOverLane ==
  ASSUME IInv, [Next]_vars, RelyKept, NEW o \in Plant, rely[o] # Broadcast,
         NEW C \in SUBSET Node, NEW L \in [Node -> Nat], NEW Q \in [Node -> Nat],
         NEW B \in [Node -> Nat], Lane(o, C, L, Q, B),
         NEW n \in Node, SendToMac(n), Head(outBufferPackets[n]) \in DataOf(o)
  PROVE  HasLane(o)'
<1>1. PICK p, m : p = Head(outBufferPackets[n]) /\ m = MacMessage(n, p)
  OBVIOUS
<1>2. /\ bus[n] # <<>> /\ Handled(n, <<>>) /\ outBufferPackets[n] # <<>>
      /\ mac' = [mac EXCEPT ![n] = Append(@, m)]
      /\ outBufferPackets' = [outBufferPackets EXCEPT ![n] = Tail(@)]
      /\ UNCHANGED <<inBufferPackets, used>>
  BY <1>1 DEF SendToMac, At, appVars
<1>3. outBufferPackets[n] \in Seq(From(n))
  BY DEF IInv, Queues
<1>4. p \in DataOf(o) /\ p \in Packets /\ p.source = n
  <2>1. p = outBufferPackets[n][1] /\ 1 \in DOMAIN outBufferPackets[n]
    BY <1>1, <1>2, <1>3, HeadTailProperties, LenProperties, EmptySeq
  <2>2. p \in Packets
    BY <2>1, PacketParts DEF Queued, Elements
  <2>3. p \in From(n)
    BY <1>1, <1>2, <1>3, TailIsSeq
  <2> QED  BY <1>1, <2>2, <2>3 DEF From
<1>5. n \in C \ {Sink} /\ p.body \in Nat
  <2>1. p.type = "DATA" /\ p.origin = o /\ p.body \in Nat
    BY <1>4 DEF DataOf
  <2> QED  BY <1>4, <2>1 DEF Lane
<1>6. PICK Q2 : Q2 = [Q EXCEPT ![n] = p.body]
  OBVIOUS
<1>7. Q2 \in [Node -> Nat] /\ Q2[n] = p.body /\ \A k \in Node : k # n => Q2[k] = Q[k]
  BY <1>5, <1>6
<1>8. /\ \A k \in Node : k # n => outBufferPackets'[k] = outBufferPackets[k]
      /\ outBufferPackets'[n] = Tail(outBufferPackets[n])
  BY <1>2 DEF IInv, Queues
<1>9. Q[n] < p.body /\ p.body <= B[n] /\ Run(outBufferPackets'[n], Queueing(o), p.body, B[n])
  <2>1. PICK v : v = Queueing(o)
    OBVIOUS
  <2>2. v \in [DataOf(o) -> Nat] /\ v[p] = p.body
    BY <1>4, <2>1, Numbered DEF Queueing
  <2>3. Run(outBufferPackets[n], v, Q[n], B[n]) /\ Q[n] \in Nat /\ B[n] \in Nat
    BY <1>5, <2>1, LaneRuns
  <2>4. Q[n] < v[p] /\ v[p] <= B[n] /\ Run(Tail(outBufferPackets[n]), v, v[p], B[n])
    BY <1>1, <1>2, <1>3, <1>4, <2>2, <2>3, RunTail
  <2> QED  BY <1>8, <2>1, <2>2, <2>4
<1>10. /\ InAir(n)' \subseteq InAir(n) \cup {p}
       /\ \A k \in Node : k # n => InAir(k)' = InAir(k)
  <2> DEFINE S == Message \cup {m}
  <2>1. mac[n] \in Seq(S) /\ <<m>> \in Seq(S) /\ m \in S
    <3>1. mac[n] \in Seq(Message) /\ Message \subseteq S /\ m \in S
      BY DEF IInv, Messages
    <3> HIDE DEF S
    <3>2. <<m>> \in Seq(S)
      BY <3>1
    <3> QED  BY <3>1, <3>2, SeqMonotonic
  <2> HIDE DEF S
  <2>2. /\ \A k \in Node : k # n => mac'[k] = mac[k]
        /\ mac'[n] = Append(mac[n], m)
    BY <1>2 DEF IInv, Messages
  <2>3. mac'[n] = mac[n] \o <<m>>
    BY <2>1, <2>2, AppendIsConcat
  <2>4. Elements(<<m>>) = {m}
    BY DEF Elements
  <2>5. Elements(mac'[n]) \subseteq Elements(mac[n]) \cup {m}
    BY <2>1, <2>3, <2>4, ElementsConcat
  <2>7. m.pkt = p
    BY <1>1 DEF MacMessage
  <2>8. InAir(n)' \subseteq InAir(n) \cup {p}
    BY <2>5, <2>7 DEF InAir
  <2>6. \A k \in Node : k # n => InAir(k)' = InAir(k)
    BY <2>2 DEF InAir
  <2> QED  BY <2>6, <2>8
<1>11. BusesKeep(o)
  BY <1>2, HandledKeeps
<1>12. ASSUME NEW k \in C \ {Sink}
       PROVE  /\ Run(outBufferPackets'[k], Queueing(o), Q2[k], B[k])
              /\ L[k] <= Q2[k]
              /\ \A x \in InAir(k)' \cap DataOf(o) : L[k] < x.body /\ x.body <= Q2[k]
              /\ Run(bus'[rely[k]], OnBus(o), B[rely[k]], L[k])
  <2>1. Run(bus'[rely[k]], OnBus(o), B[rely[k]], L[k])
    <3>1. rely[k] \in Node /\ k \in Node
      BY OnLane
    <3>2. Run(bus[rely[k]], OnBus(o), B[rely[k]], L[k])
      BY LaneRuns
    <3> QED  BY <1>11, <3>1, <3>2 DEF BusesKeep, KeepsRun
  <2>2. CASE k # n
    BY <1>7, <1>8, <1>10, <2>1, <2>2, LaneRuns, LaneAir
  <2>3. CASE k = n
    <3>1. L[n] <= Q[n] /\ L[n] \in Nat /\ Q[n] \in Nat
      BY <1>5, LaneAir
    <3>2. L[n] < p.body
      BY <1>5, <1>9, <3>1
    <3>3. ASSUME NEW x \in InAir(n)' \cap DataOf(o)
          PROVE  L[n] < x.body /\ x.body <= p.body
      <4>1. CASE x = p
        BY <1>5, <3>2, <4>1
      <4>2. CASE x \in InAir(n)
        <5>1. L[n] < x.body /\ x.body <= Q[n]
          BY <1>5, <3>3, <4>2, LaneAir
        <5>2. x.body \in Nat
          BY <3>3 DEF DataOf
        <5> QED  BY <1>5, <1>9, <3>1, <5>1, <5>2
      <4> QED  BY <1>10, <3>3, <4>1, <4>2
    <3>4. L[n] <= p.body
      BY <1>5, <3>1, <3>2
    <3> QED  BY <1>7, <1>9, <2>1, <2>3, <3>3, <3>4
  <2> QED  BY <2>2, <2>3
<1>13. Run(inBufferPackets'[Sink], Given(o), 0, B[Sink])
  BY <1>2, LaneRuns
<1>14. B[o] = used'.data[o]
  <2>1. used' = used
    BY <1>2
  <2>2. B[o] = used.data[o]
    BY DEF Lane
  <2> QED  BY <2>1, <2>2
<1> QED  BY <1>7, <1>12, <1>13, <1>14, LaneFrom

\* The one message of n that is not answered is the one that is delivered.
LEMMA NothingElseInAir ==
  ASSUME IInv, PopsInv, AirInv, NEW o, NEW n \in Node, NEW i \in DOMAIN mac[n],
         mac[n][i].pkt \in DataOf(o), mac[n][i].pkt.forward # Broadcast, mac[n][i].left # {},
         \A p \in Packets : p.type = "DATA" => p.forward # Broadcast,
         NEW x, x.pkt = mac[n][i].pkt, x.left = {}, MacBecomes(n, i, x)
  PROVE  InAir(n)' \cap DataOf(o) = {}
<1> DEFINE D == {m \in Open : m.left # {}}
<1>1. mac[n] \in Seq(Message) /\ mac \in [Node -> Seq(Message)]
  BY DEF IInv, Messages
<1>2. ASSUME NEW m \in Elements(mac[n]), m.left # {}, m.pkt \in DataOf(o)
      PROVE  m \in D
  <2>1. m \in Message
    <3>1. PICK j \in DOMAIN mac[n] : m = mac[n][j]
      BY <1>2 DEF Elements
    <3> QED  BY <3>1, InMac
  <2>2. m.pkt.type = "DATA"
    BY <1>2 DEF DataOf
  <2>3. m.pkt \in Packets
    BY <1>2, PacketParts DEF Aired
  <2>4. m.sent = 0 /\ m.timeouts = 0 /\ m.pkt.forward # Broadcast
    BY <1>2, <2>2, <2>3 DEF AirInv
  <2>5. m.pkt \in RawPacket
    BY <1>2 DEF DataOf
  <2> QED  BY <1>2, <2>1, <2>4, <2>5 DEF Open, Message
<1>3. mac[n][i] \in Elements(mac[n])
  BY DEF Elements
<1>4. mac[n][i] \in D
  BY <1>2, <1>3
<1>5. One(mac[n], D)
  <2>1. One(mac[n], Open) /\ D \subseteq Open
    BY DEF PopsInv, Fine
  <2> HIDE DEF D
  <2> QED  BY <2>1 DEF One
<1>6. x \notin D
  OBVIOUS
<1> HIDE DEF D
<1>7. mac'[n] = RemoveAt(mac[n], i) \/ mac'[n] = ReplaceAt(mac[n], i, x)
  BY <1>1 DEF MacBecomes
<1>8. NoneOf(mac'[n], D)
  <2>1. CASE mac'[n] = RemoveAt(mac[n], i)
    BY <1>1, <1>4, <1>5, <2>1, RemoveOne
  <2>2. CASE mac'[n] = ReplaceAt(mac[n], i, x)
    BY <1>1, <1>4, <1>5, <1>6, <2>2, ReplaceOne
  <2> QED  BY <1>7, <2>1, <2>2
<1>9. Elements(mac'[n]) \subseteq Elements(mac[n]) \cup {x}
  <2>1. x.left \subseteq mac[n][i].left
    OBVIOUS
  <2> QED  BY <2>1, AirBecomes
<1>10. ASSUME NEW m \in Elements(mac'[n]), m.left # {}, m.pkt \in DataOf(o)
       PROVE  FALSE
  <2>1. m \in Elements(mac[n])
    BY <1>9, <1>10
  <2>2. m \in D
    BY <1>2, <1>10, <2>1
  <2> QED  BY <1>8, <1>10, <2>2 DEF NoneOf, Elements
<1> QED  BY <1>10 DEF InAir

LEMMA DeliverLane ==
  ASSUME IInv, PopsInv, AirInv, [Next]_vars, RelyKept, NEW o \in Plant, rely[o] # Broadcast,
         \A p \in Packets : p.type = "DATA" => p.forward # Broadcast,
         NEW C \in SUBSET Node, NEW L \in [Node -> Nat], NEW Q \in [Node -> Nat],
         NEW B \in [Node -> Nat], Lane(o, C, L, Q, B), DeliversOf(o)
  PROVE  HasLane(o)'
<1>1. PICK n \in Node : \E i \in DOMAIN mac[n] : \E m \in mac[n][i].left :
        /\ mac[n][i].pkt \in DataOf(o)
        /\ Fire(m, <<EventOf("recv", mac[n][i].pkt)>>)
        /\ MacBecomes(n, i, [mac[n][i] EXCEPT !.left = @ \ {m}])
        /\ UNCHANGED <<outBufferPackets, inBufferPackets, used>>
  BY DEF DeliversOf
<1>2. PICK i \in DOMAIN mac[n] : \E m \in mac[n][i].left :
        /\ mac[n][i].pkt \in DataOf(o)
        /\ Fire(m, <<EventOf("recv", mac[n][i].pkt)>>)
        /\ MacBecomes(n, i, [mac[n][i] EXCEPT !.left = @ \ {m}])
        /\ UNCHANGED <<outBufferPackets, inBufferPackets, used>>
  BY <1>1
<1>3. PICK m \in mac[n][i].left :
        /\ mac[n][i].pkt \in DataOf(o)
        /\ Fire(m, <<EventOf("recv", mac[n][i].pkt)>>)
        /\ MacBecomes(n, i, [mac[n][i] EXCEPT !.left = @ \ {m}])
        /\ UNCHANGED <<outBufferPackets, inBufferPackets, used>>
  BY <1>2
<1>4. PICK p, x, e :
        /\ p = mac[n][i].pkt /\ e = EventOf("recv", p)
        /\ x = [mac[n][i] EXCEPT !.left = @ \ {m}]
  OBVIOUS
<1>5. p \in DataOf(o) /\ Fire(m, <<e>>) /\ MacBecomes(n, i, x)
  BY <1>3, <1>4
<1>6. mac[n][i] \in Elements(mac[n]) /\ mac[n][i] \in Message
  BY InMac DEF Elements
<1>7. p \in Packets /\ p.type = "DATA" /\ p.origin = o /\ p.body \in Nat /\ p.source = n
  BY <1>4, <1>5, <1>6, PacketParts DEF Aired, DataOf, AirInv
<1>8. n \in C \ {Sink} /\ p.forward = rely[n] /\ p.forward # Broadcast
  BY <1>7 DEF Lane
<1>9. m = rely[n] /\ x.left = {} /\ x.pkt = p
  <2>1. mac[n][i].left \subseteq {rely[n]}
    BY <1>4, <1>5, <1>6, <1>8 DEF AirInv
  <2> QED  BY <1>4, <1>5, <1>6, <2>1 DEF Message
<1>10. L[n] < p.body /\ p.body <= Q[n]
  <2>1. p \in InAir(n) \cap DataOf(o)
    BY <1>4, <1>5, <1>6 DEF InAir
  <2> QED  BY <1>8, <2>1, LaneAir
<1>11. PICK L2 : L2 = [L EXCEPT ![n] = p.body]
  OBVIOUS
<1>12. L2 \in [Node -> Nat] /\ L2[n] = p.body /\ \A k \in Node : k # n => L2[k] = L[k]
  BY <1>7, <1>11
<1>13. InAir(n)' \cap DataOf(o) = {}
  <2>1. mac[n][i].left # {}
    OBVIOUS
  <2> QED  BY <1>4, <1>5, <1>8, <1>9, <2>1, NothingElseInAir
<1>14. AirKeeps(o)
  <2>1. x.left \subseteq mac[n][i].left
    BY <1>9
  <2> QED  BY <1>4, <1>5, <1>9, <2>1, AirBecomes
<1>15. rely[n] \in Node
  BY <1>8, OnLane
<1>16. /\ \A k \in Node : k # rely[n] => bus'[k] = bus[k]
       /\ bus'[rely[n]] = bus[rely[n]] \o <<e>> /\ bus[rely[n]] \in Seq(EventsOf(rely[n]))
  BY <1>4, <1>5, <1>9, <1>15, FireAdds
<1>17. Run(bus'[rely[n]], OnBus(o), B[rely[n]], p.body)
  <2> DEFINE S == EventsOf(rely[n]) \cup {e}
  <2>1. bus[rely[n]] \in Seq(S) /\ e \in S
    <3>1. EventsOf(rely[n]) \subseteq S /\ e \in S
      OBVIOUS
    <3> HIDE DEF S
    <3> QED  BY <1>16, <3>1, SeqMonotonic
  <2> HIDE DEF S
  <2>2. PICK v : v = OnBus(o)
    OBVIOUS
  <2>3. e \in HearingsOf(o) /\ e.pkt = p
    BY <1>4, <1>5 DEF EventOf, HearingsOf
  <2>4. v \in [HearingsOf(o) -> Nat] /\ v[e] = p.body
    BY <2>2, <2>3, Numbered DEF OnBus
  <2>5. Run(bus[rely[n]], v, B[rely[n]], L[n]) /\ B[rely[n]] \in Nat /\ L[n] \in Nat
    BY <1>8, <1>15, <2>2, LaneRuns
  <2>6. Run(bus[rely[n]] \o <<e>>, v, B[rely[n]], v[e])
    BY <1>10, <2>1, <2>3, <2>4, <2>5, RunNext
  <2> QED  BY <1>16, <2>2, <2>4, <2>6
<1>18. ASSUME NEW k \in C \ {Sink}
       PROVE  /\ Run(outBufferPackets'[k], Queueing(o), Q[k], B[k])
              /\ L2[k] <= Q[k]
              /\ \A y \in InAir(k)' \cap DataOf(o) : L2[k] < y.body /\ y.body <= Q[k]
              /\ Run(bus'[rely[k]], OnBus(o), B[rely[k]], L2[k])
  <2>1. Run(outBufferPackets'[k], Queueing(o), Q[k], B[k])
    BY <1>3, LaneRuns
  <2>2. CASE k = n
    BY <1>10, <1>12, <1>13, <1>17, <2>1, <2>2
  <2>3. CASE k # n
    <3>1. k \in Node /\ rely[k] \in Node /\ rely[k] # rely[n]
      BY <1>8, <2>3, OnLane
    <3>2. L2[k] = L[k] /\ bus'[rely[k]] = bus[rely[k]]
      BY <1>12, <1>16, <2>3, <3>1
    <3>3. \A y \in InAir(k)' \cap DataOf(o) : y \in InAir(k) \cap DataOf(o)
      BY <1>14, <3>1 DEF AirKeeps
    <3> QED  BY <2>1, <3>2, <3>3, LaneRuns, LaneAir
  <2> QED  BY <2>2, <2>3
<1>19. Run(inBufferPackets'[Sink], Given(o), 0, B[Sink])
  BY <1>3, LaneRuns
<1>20. B[o] = used'.data[o]
  <2>1. used' = used
    BY <1>3
  <2>2. B[o] = used.data[o]
    BY DEF Lane
  <2> QED  BY <2>1, <2>2
<1> QED  BY <1>12, <1>18, <1>19, <1>20, LaneFrom

LEMMA TakenIn ==
  ASSUME IInv, GivenInv, NEW o \in Plant, NEW b \in Nat,
         inBufferPackets' = [inBufferPackets EXCEPT ![Sink] = Append(@, [source |-> o, body |-> b])],
         NEW hi \in Nat, Run(inBufferPackets[Sink], Given(o), 0, hi), hi < b
  PROVE  Run(inBufferPackets'[Sink], Given(o), 0, b)
<1> DEFINE S == [source : Plant, body : Nat]
<1>1. PICK e : e = [source |-> o, body |-> b]
  OBVIOUS
<1>2. e \in S /\ e \in GivenOf(o) /\ e.body = b
  BY <1>1 DEF GivenOf
<1>3. inBufferPackets[Sink] \in Seq(S)
  BY DEF GivenInv
<1> HIDE DEF S
<1>4. inBufferPackets'[Sink] = Append(inBufferPackets[Sink], e)
  BY <1>1, NodeAssumption DEF GivenInv
<1>5. inBufferPackets'[Sink] = inBufferPackets[Sink] \o <<e>>
  BY <1>2, <1>3, <1>4, AppendIsConcat
<1>6. PICK v : v = Given(o)
  OBVIOUS
<1>7. v \in [GivenOf(o) -> Nat] /\ v[e] = b
  BY <1>2, <1>6, Numbered DEF Given
<1>8. Run(inBufferPackets[Sink] \o <<e>>, v, 0, v[e])
  BY <1>2, <1>3, <1>6, <1>7, RunNext
<1> QED  BY <1>5, <1>6, <1>7, <1>8

\* What a node of the lane of o is given of o, and by whom.
LEMMA HeardOnLane ==
  ASSUME IInv, NEW o \in Plant, NEW C \in SUBSET Node, NEW L \in [Node -> Nat],
         NEW Q \in [Node -> Nat], NEW B \in [Node -> Nat], Lane(o, C, L, Q, B),
         NEW n \in Node, RecvData(n), Received(n).origin = o
  PROVE  \E j \in C \ {Sink}, b \in Nat :
           /\ rely[j] = n /\ Received(n).body = b
           /\ B[n] < b /\ b <= L[j] /\ Run(Tail(bus[n]), OnBus(o), b, L[j])
<1>1. PICK r, h : r = Received(n) /\ h = Head(bus[n])
  OBVIOUS
<1>2. At(n, "recv") /\ r.type = "DATA" /\ r.forward = n
  BY <1>1 DEF RecvData, Accepted, Accepts, AcceptsUp, Received
<1>3. r \in Packets
  BY <1>1, <1>2, ReceivedIsPacket
<1>4. r \in DataOf(o) /\ r.source \in C \ {Sink} /\ r.forward = rely[r.source]
  BY <1>1, <1>2, <1>3 DEF Lane
<1>5. PICK j : j = r.source
  OBVIOUS
<1>6. j \in C \ {Sink} /\ rely[j] = n /\ r.body \in Nat
  BY <1>2, <1>4, <1>5 DEF DataOf
<1>7. bus[n] \in Seq(EventsOf(n)) /\ bus[n] # <<>> /\ h.ev = "recv" /\ h.pkt = r
  BY <1>1, <1>2 DEF At, Received, IInv, Buses
<1>8. h \in EventsOf(n)
  BY <1>1, <1>7, TailIsSeq
<1>9. h \in HearingsOf(o)
  BY <1>4, <1>7, <1>8 DEF EventsOf, HearingsOf
<1>10. PICK v : v = OnBus(o)
  OBVIOUS
<1>11. v \in [HearingsOf(o) -> Nat] /\ v[h] = r.body
  BY <1>7, <1>9, <1>10, Numbered DEF OnBus
<1>12. Run(bus[n], v, B[n], L[j]) /\ B[n] \in Nat /\ L[j] \in Nat
  BY <1>6, <1>10, LaneRuns
<1>13. B[n] < v[h] /\ v[h] <= L[j] /\ Run(Tail(bus[n]), v, v[h], L[j])
  BY <1>1, <1>7, <1>9, <1>11, <1>12, RunTail
<1> QED  BY <1>1, <1>6, <1>10, <1>11, <1>13

LEMMA RecvDataLane ==
  ASSUME IInv, GivenInv, [Next]_vars, RelyKept, NEW o \in Plant, rely[o] # Broadcast,
         NEW C \in SUBSET Node, NEW L \in [Node -> Nat], NEW Q \in [Node -> Nat],
         NEW B \in [Node -> Nat], Lane(o, C, L, Q, B),
         NEW n \in Node, RecvData(n), Received(n).origin = o
  PROVE  HasLane(o)'
<1>1. PICK j \in C \ {Sink}, b \in Nat :
        /\ rely[j] = n /\ Received(n).body = b
        /\ B[n] < b /\ b <= L[j] /\ Run(Tail(bus[n]), OnBus(o), b, L[j])
  BY HeardOnLane
<1>2. bus[n] # <<>> /\ Handled(n, <<>>) /\ UNCHANGED <<mac, used>>
  BY DEF RecvData, Accepted, At
<1>3. n \in C /\ n # o
  BY <1>1, OnLane
<1>4. PICK B2 : B2 = [B EXCEPT ![n] = b]
  OBVIOUS
<1>5. B2 \in [Node -> Nat] /\ B2[n] = b /\ \A k \in Node : k # n => B2[k] = B[k]
  BY <1>4
<1>6. /\ \A k \in Node : k # n => bus'[k] = bus[k]
      /\ bus'[n] = Tail(bus[n])
  BY <1>2, HandledTail
<1>7. ASSUME NEW k \in C \ {Sink}
      PROVE  Run(bus'[rely[k]], OnBus(o), B2[rely[k]], L[k])
  <2>1. rely[k] \in Node /\ (rely[k] = n => k = j)
    BY <1>1, OnLane
  <2>2. Run(bus[rely[k]], OnBus(o), B[rely[k]], L[k])
    BY LaneRuns
  <2> QED  BY <1>1, <1>5, <1>6, <2>1, <2>2
<1>8. ASSUME NEW k \in C \ {Sink}
      PROVE  Run(outBufferPackets'[k], Queueing(o), Q[k], B2[k])
  <2>1. Run(outBufferPackets[k], Queueing(o), Q[k], B[k]) /\ k \in Node
    BY LaneRuns
  <2>2. CASE n = Sink
    <3>1. outBufferPackets' = outBufferPackets
      BY <2>2 DEF RecvData
    <3> QED  BY <1>5, <2>1, <2>2, <3>1
  <2>3. CASE n # Sink
    <3>1. PICK p : p = Data(n, o, b)
      OBVIOUS
    <3>2. p \in DataOf(o) /\ p.body = b
      BY <3>1, DataIsOf
    <3>3. Enqueue(n, <<p>>)
      BY <1>1, <2>3, <3>1 DEF RecvData
    <3>4. Run(outBufferPackets[n], Queueing(o), Q[n], B[n]) /\ Q[n] \in Nat /\ B[n] \in Nat
      BY <1>3, <2>3, LaneRuns
    <3>5. /\ Run(outBufferPackets'[n], Queueing(o), Q[n], b)
          /\ \A x \in Node : x # n => outBufferPackets'[x] = outBufferPackets[x]
      BY <1>1, <3>2, <3>3, <3>4, QueueNext
    <3> QED  BY <1>5, <2>1, <3>5
  <2> QED  BY <2>2, <2>3
<1>9. \A k \in Node : InAir(k)' = InAir(k)
  BY <1>2 DEF InAir
<1>10. Run(inBufferPackets'[Sink], Given(o), 0, B2[Sink])
  <2>1. Run(inBufferPackets[Sink], Given(o), 0, B[Sink]) /\ B[Sink] \in Nat
    BY LaneRuns, NodeAssumption
  <2>2. CASE n = Sink
    <3>1. inBufferPackets' = [inBufferPackets EXCEPT ![Sink] = Append(@, [source |-> o, body |-> b])]
      BY <1>1, <2>2 DEF RecvData, ToApplication
    <3>2. B[Sink] < b
      BY <1>1, <2>2
    <3>3. Run(inBufferPackets'[Sink], Given(o), 0, b)
      BY <2>1, <3>1, <3>2, TakenIn
    <3> QED  BY <1>5, <2>2, <3>3
  <2>3. CASE n # Sink
    <3>1. inBufferPackets' = inBufferPackets
      BY <2>3 DEF RecvData
    <3> QED  BY <1>5, <2>1, <2>3, <3>1, NodeAssumption
  <2> QED  BY <2>2, <2>3
<1>11. B2[o] = used'.data[o]
  <2>1. B[o] = used.data[o] /\ o \in Node
    BY OnLane DEF Plant
  <2> QED  BY <1>2, <1>3, <1>5, <2>1
<1>12. ASSUME NEW k \in C \ {Sink}
       PROVE  L[k] <= Q[k] /\ \A x \in InAir(k)' \cap DataOf(o) : L[k] < x.body /\ x.body <= Q[k]
  BY <1>9, LaneAir
<1> QED  BY <1>5, <1>7, <1>8, <1>10, <1>11, <1>12, LaneFrom

LEMMA WhichMoves ==
  ASSUME IInv, GivenInv, [Next]_vars, Steady', NEW o \in Plant
  PROVE  \/ NotMoved(o) \/ Send(o) \/ DeliversOf(o)
         \/ \E n \in Node : SendToMac(n) /\ Head(outBufferPackets[n]) \in DataOf(o)
         \/ \E n \in Node : RecvData(n) /\ Received(n).origin = o
<1>1. ASSUME NEW n \in Node, BusStep(n)
      PROVE  \/ NotMoved(o)
             \/ SendToMac(n) /\ Head(outBufferPackets[n]) \in DataOf(o)
             \/ RecvData(n) /\ Received(n).origin = o
  <2>1. CASE SendToMac(n)
    BY <2>1, SendToMacNotMoved
  <2>2. CASE RecvData(n)
    BY <2>2, DataNotMoved
  <2>3. CASE \/ PacketSent(n) \/ PacketTimeout(n) \/ RecvIgnored(n) \/ RecvRtInit(n)
             \/ RecvCommand(n) \/ RecvRtAck(n) \/ RecvJoin(n) \/ RecvLeave(n)
             \/ RecvConnectionLost(n)
    BY <2>3, HandlerNotMoved
  <2> QED  BY <1>1, <2>1, <2>2, <2>3 DEF BusStep
<1>2. ASSUME NEW n \in Node, MacStep(n) PROVE NotMoved(o) \/ DeliversOf(o)
  BY <1>2, MacNotMoved
<1>3. ASSUME NEW n \in Node, Send(n) PROVE NotMoved(o) \/ Send(o)
  BY <1>3, SendNotMoved
<1>4. ASSUME NEW n \in Node, Restart(n) PROVE NotMoved(o)
  BY <1>4, RestartNotMoved
<1>5. IdleStep => NotMoved(o)
  BY IdleNotMoved
<1>6. SinkBusStep => NotMoved(o)
  BY SinkNotMoved
<1>7. CASE \/ HostAnswer \/ HostStart \/ Boot \/ Request
           \/ (\E f \in Caller : SinkSendReturns(f)) \/ UNCHANGED vars
           \/ \E n \in Node : Recv(n) \/ RecvConnection(n)
  BY <1>7, HostNotMoved
<1> QED  BY <1>1, <1>2, <1>3, <1>4, <1>5, <1>6, <1>7 DEF Next

\* Data goes to a node.
LEMMA DataDirected ==
  ASSUME IInv
  PROVE  \A p \in Packets : p.type = "DATA" => p.forward \in Node /\ p.source \in Plant
<1>1. \A p \in Packets : p \in Stamped
  BY PacketIsStamped DEF Packets
<1>2. \A p \in Stamped : p.type = "DATA" => p.forward \in Node /\ p.source \in Plant
  BY DEF Stamped, RawPacket, IsPacket, Plant
<1> QED  BY <1>1, <1>2

LEMMA LaneStep ==
  ASSUME IInv, PopsInv, AirInv, GivenInv, [Next]_vars, RelyKept, Steady', NEW o \in Plant,
         rely[o] # Broadcast, HasLane(o)
  PROVE  HasLane(o)'
<1>1. PICK C \in SUBSET Node, L \in [Node -> Nat], Q \in [Node -> Nat], B \in [Node -> Nat] :
        Lane(o, C, L, Q, B)
  BY DEF HasLane
<1>2. CASE NotMoved(o)
  <2>1. Lane(o, C, L, Q, B)'
    BY <1>1, <1>2, NotMovedLane
  <2> QED  BY <2>1 DEF HasLane
<1>3. CASE Send(o)
  BY <1>1, <1>3, SendLane
<1>4. CASE DeliversOf(o)
  <2>1. \A p \in Packets : p.type = "DATA" => p.forward # Broadcast
    BY DataDirected, NodeAssumption
  <2> QED  BY <1>1, <1>4, <2>1, DeliverLane
<1>5. CASE \E n \in Node : SendToMac(n) /\ Head(outBufferPackets[n]) \in DataOf(o)
  BY <1>1, <1>5, HandOverLane
<1>6. CASE \E n \in Node : RecvData(n) /\ Received(n).origin = o
  BY <1>1, <1>6, RecvDataLane
<1> QED  BY <1>2, <1>3, <1>4, <1>5, <1>6, WhichMoves

\* A node that is not connected sends nothing.
LEMMA SilentStep ==
  ASSUME IInv, GivenInv, [Next]_vars, Steady', NEW o \in Plant, rely[o] = Broadcast, Silent(o)
  PROVE  Silent(o)'
<1>1. ~Send(o)
  <2>1. ~rt_formed[o]
    BY NodeAssumption DEF IInv, TreeInv
  <2> QED  BY <2>1 DEF Send
<1>2. \A n \in Node : RecvData(n) => Received(n).origin # o
  <2> SUFFICES ASSUME NEW n \in Node, RecvData(n) PROVE Received(n).origin # o
    OBVIOUS
  <2>1. At(n, "recv") /\ Received(n).type = "DATA"
    BY DEF RecvData, Accepted, Received
  <2>2. Received(n) \in Packets
    BY <2>1, ReceivedIsPacket
  <2> QED  BY <2>1, <2>2 DEF Silent
<1>3. \A p \in Packets : p \notin DataOf(o)
  BY DEF Silent, DataOf
<1>4. ~DeliversOf(o)
  <2>1. \A n \in Node : \A i \in DOMAIN mac[n] : mac[n][i].pkt \in Packets
    BY PacketParts DEF Aired, Elements
  <2> QED  BY <1>3, <2>1 DEF DeliversOf
<1>5. \A n \in Node : SendToMac(n) => Head(outBufferPackets[n]) \notin DataOf(o)
  <2> SUFFICES ASSUME NEW n \in Node, SendToMac(n) PROVE Head(outBufferPackets[n]) \in Packets
    BY <1>3
  <2>1. outBufferPackets[n] # <<>> /\ outBufferPackets[n] \in Seq(From(n))
    BY DEF SendToMac, IInv, Queues
  <2>2. Head(outBufferPackets[n]) = outBufferPackets[n][1] /\ 1 \in DOMAIN outBufferPackets[n]
    BY <2>1, HeadTailProperties, LenProperties, EmptySeq
  <2> QED  BY <2>2, PacketParts DEF Queued, Elements
<1>6. NotMoved(o)
  BY <1>1, <1>2, <1>4, <1>5, WhichMoves
<1>7. used'.data[o] = 0
  BY <1>6 DEF NotMoved, Silent
<1>8. Run(inBufferPackets'[Sink], Given(o), 0, 0)
  <2>1. 0 \in Nat
    OBVIOUS
  <2> QED  BY <1>6, <2>1 DEF NotMoved, GivenKeep, KeepsRun, Silent
<1>9. \A p \in Packets' : p.type = "DATA" => p.origin # o
  <2> SUFFICES ASSUME NEW p \in Packets', p.type = "DATA", p.origin = o PROVE FALSE
    OBVIOUS
  <2>1. p \notin Packets
    BY DEF Silent
  <2>2. ~FirstData(p)
    <3> SUFFICES ASSUME NEW n \in Node, Send(n), p = Data(n, n, used.data[n] + 1) PROVE FALSE
      BY DEF FirstData
    <3>1. p.origin = n
      BY DEF Data, Packet
    <3> QED  BY <1>1, <3>1
  <2>3. ~RelayedData(p)
    <3> SUFFICES ASSUME NEW n \in Plant, RecvData(n),
                        p = Data(n, Received(n).origin, Received(n).body)
                 PROVE  FALSE
      BY DEF RelayedData
    <3>1. p.origin = Received(n).origin
      BY DEF Data, Packet
    <3> QED  BY <1>2, <3>1 DEF Plant
  <2> QED  BY <2>1, <2>2, <2>3, NextMade, MadeTypes DEF OldOrMade, Made, MadeInit
<1> QED  BY <1>7, <1>8, <1>9 DEF Silent

\* A node that has sent nothing has a lane as soon as it has a way to the sink.
HasWay(o) == \E C \in SUBSET Node : Path(o, C)

LEMMA SilentLane == \A o \in Plant : Silent(o) /\ HasWay(o) => HasLane(o)
<1> SUFFICES ASSUME NEW o \in Plant, NEW C \in SUBSET Node, Silent(o), Path(o, C)
             PROVE  HasLane(o)
  BY DEF HasWay
<1>1. PICK Z : Z = [n \in Node |-> 0]
  OBVIOUS
<1>2. Z \in [Node -> Nat] /\ \A n \in Node : Z[n] = 0
  BY <1>1
<1>3. \A p \in Packets : p \notin DataOf(o)
  BY DEF Silent, DataOf
<1>4. ASSUME NEW k \in C \ {Sink}
      PROVE  /\ Run(outBufferPackets[k], Queueing(o), Z[k], Z[k])
             /\ InAir(k) \cap DataOf(o) = {}
             /\ Run(bus[rely[k]], OnBus(o), Z[rely[k]], Z[k])
  <2>1. k \in Node /\ rely[k] \in Node
    BY DEF Path
  <2>2. NoneOf(outBufferPackets[k], DataOf(o))
    BY <1>3, <2>1, PacketParts DEF Queued, Elements, NoneOf
  <2>3. NoneOf(bus[rely[k]], HearingsOf(o))
    <3>1. \A i \in DOMAIN bus[rely[k]] : bus[rely[k]][i] \in HearingsOf(o) =>
            bus[rely[k]][i].pkt \in Packets /\ bus[rely[k]][i].pkt \in DataOf(o)
      BY <2>1, PacketParts DEF Heard, Elements, HearingsOf
    <3> QED  BY <1>3, <3>1 DEF NoneOf
  <2>4. InAir(k) \cap DataOf(o) = {}
    <3>1. InAir(k) \subseteq Packets
      BY <2>1, PacketParts DEF InAir, Aired
    <3> QED  BY <1>3, <3>1
  <2>5. 0 \in Nat /\ 0 <= 0
    OBVIOUS
  <2>6. Run(outBufferPackets[k], Queueing(o), 0, 0)
    BY <2>2, <2>5, Numbered, RunNone
  <2>7. Run(bus[rely[k]], OnBus(o), 0, 0)
    BY <2>3, <2>5, Numbered, RunNone
  <2> QED  BY <1>2, <2>1, <2>4, <2>6, <2>7
<1>5. Run(inBufferPackets[Sink], Given(o), 0, Z[Sink])
  BY <1>2, NodeAssumption DEF Silent
<1>6. Z[o] = used.data[o]
  BY <1>2 DEF Silent, Plant
<1>7. \A p \in Packets : ~(p.type = "DATA" /\ p.origin = o)
  BY DEF Silent
<1>8. \A k \in C \ {Sink} : Z[k] <= Z[k]
  BY <1>2
<1>9. Lane(o, C, Z, Z, Z)
  BY <1>4, <1>5, <1>6, <1>7, <1>8 DEF Lane
<1> QED  BY <1>2, <1>9 DEF HasLane

LEMMA SilentLaneNext == (\A o \in Plant : Silent(o) /\ HasWay(o) => HasLane(o))'
  BY SilentLane, PTL

\* A node gets its rely from an RT_INIT.
LEMMA RelyChanges ==
  ASSUME IInv, [Next]_vars, NEW o \in Node
  PROVE  rely'[o] = rely[o] \/ rely'[o] = Broadcast \/ RecvRtInit(o)
<1>1. CASE UNCHANGED rely
  BY <1>1
<1>2. CASE \E n \in Node : RecvRtInit(n)
  <2>1. PICK n \in Node : RecvRtInit(n)
    BY <1>2
  <2>2. rely' = [rely EXCEPT ![n] = Received(n).source]
    BY <2>1 DEF RecvRtInit
  <2> QED  BY <2>1, <2>2 DEF IInv, TreeInv
<1>3. CASE \E n \in Node : Restart(n)
  <2>1. PICK n \in Node : rely' = [rely EXCEPT ![n] = Broadcast]
    BY <1>3 DEF Restart
  <2> QED  BY <2>1 DEF IInv, TreeInv
<1>4. CASE \E n \in Node : BusStep(n) /\ ~RecvRtInit(n)
  <2>1. PICK n \in Node : BusStep(n) /\ ~RecvRtInit(n)
    BY <1>4
  <2>2. UNCHANGED rely
    BY <2>1 DEF BusStep, SendToMac, PacketSent, PacketTimeout, RtDisconnect, SendLeave, RecvIgnored,
       RecvData, RecvCommand, RecvRtAck, RecvJoin, RecvLeave, RecvConnectionLost, treeVars
  <2> QED  BY <2>2
<1>5. CASE \/ \E n \in Node : MacStep(n) \/ Send(n) \/ Recv(n) \/ RecvConnection(n)
           \/ (\E f \in Caller : SinkSendReturns(f)) \/ UNCHANGED vars
  <2>1. UNCHANGED rely
    BY <1>5, MacStepKeeps DEF Send, Recv, RecvConnection, SinkSendReturns, vars, treeVars
  <2> QED  BY <2>1
<1>6. CASE SinkBusStep
  <2>1. UNCHANGED rely
    BY <1>6 DEF SinkBusStep, IncrBroadcastCounter, SendToSerial, RecvInit, RecvAnswer, SinkSend,
       treeVars
  <2> QED  BY <2>1
<1>7. CASE IdleStep \/ HostAnswer \/ HostStart \/ Boot \/ Request
  <2>1. UNCHANGED rely
    BY <1>7 DEF IdleStep, SerialIdleTick, SinkIdleTick, NodeIdleTick, HostAnswer, HostStart, Boot,
       Request, treeVars
  <2> QED  BY <2>1
<1> QED  BY <1>2, <1>3, <1>4, <1>5, <1>6, <1>7 DEF Next

\* The way of a node that takes a rely is the one of its rely.
LEMMA WayOfRely ==
  ASSUME IInv, RootsInv, LanesInv, RelyKept, NEW o \in Plant, rely[o] = Broadcast, RecvRtInit(o)
  PROVE  HasWay(o)'
<1>1. PICK m : m = Received(o).source
  OBVIOUS
<1>2. Received(o) \in Packets /\ Received(o).type = "RT_INIT" /\ o \in Node /\ o # Sink
  <2>1. At(o, "recv") /\ Received(o).type = "RT_INIT" /\ o \in Node /\ o # Sink
    BY DEF RecvRtInit, Accepted, Received, Plant
  <2> QED  BY <2>1, ReceivedIsPacket
<1>3. m \in Node /\ (m = Sink \/ rely[m] # Broadcast)
  <2>1. Received(o) \in Stamped
    BY <1>2, PacketIsStamped DEF Packets
  <2> QED  BY <1>1, <1>2, <2>1 DEF RootsInv, Stamped, RawPacket
<1>4. rely'[o] = m
  BY <1>1, <1>2 DEF RecvRtInit, IInv, TreeInv
<1>5. m # o
  BY <1>2, <1>3
<1>6. CASE m = Sink
  <2>1. PICK C : C = {o, Sink}
    OBVIOUS
  <2>2. C \in SUBSET Node /\ o \in C /\ C \ {Sink} = {o}
    BY <1>2, <2>1, NodeAssumption
  <2>3. \A k \in C \ {Sink} : rely'[k] \in C /\ rely'[k] # o
    BY <1>4, <1>5, <1>6, <2>1, <2>2
  <2>4. Path(o, C)'
    BY <2>2, <2>3 DEF Path
  <2> QED  BY <2>2, <2>4 DEF HasWay
<1>7. CASE m # Sink
  <2>1. HasLane(m)
    BY <1>3, <1>7 DEF LanesInv, Plant
  <2>2. PICK D \in SUBSET Node : Path(m, D)
    BY <2>1 DEF HasLane, Lane
  <2>3. /\ m \in D /\ \A k \in D \ {Sink} : rely[k] \in D /\ rely[k] # m /\ rely[k] # Broadcast
        /\ \A j, k \in D \ {Sink} : rely[j] = rely[k] => j = k
    BY <2>2, NodeAssumption DEF Path
  <2>4. o \notin D
    BY <1>2, <2>3
  <2>5. \A k \in D \ {Sink} : rely'[k] = rely[k]
    BY <2>3 DEF RelyKept
  <2>6. PICK C : C = D \cup {o}
    OBVIOUS
  <2>7. C \in SUBSET Node /\ o \in C /\ \A k \in C \ {Sink} : k = o \/ k \in D \ {Sink}
    BY <1>2, <2>6
  <2>8. \A k \in C \ {Sink} : rely'[k] \in C /\ rely'[k] # o
    BY <1>4, <1>5, <2>3, <2>4, <2>5, <2>6, <2>7
  <2>9. \A j, k \in C \ {Sink} : rely'[j] = rely'[k] => j = k
    BY <1>4, <2>3, <2>5, <2>7
  <2>10. Path(o, C)'
    BY <2>7, <2>8, <2>9 DEF Path
  <2> QED  BY <2>7, <2>10 DEF HasWay
<1> QED  BY <1>6, <1>7

LEMMA LanesStep ==
  ASSUME IInv, PopsInv, AirInv, GivenInv, RootsInv, LanesInv, [Next]_vars, RelyKept, Steady'
  PROVE  LanesInv'
<1> SUFFICES ASSUME NEW o \in Plant
             PROVE  IF rely'[o] = Broadcast THEN Silent(o)' ELSE HasLane(o)'
  BY DEF LanesInv
<1>1. CASE rely[o] # Broadcast
  <2>1. HasLane(o)
    BY <1>1 DEF LanesInv
  <2>2. HasLane(o)'
    BY <1>1, <2>1, LaneStep
  <2>3. rely'[o] # Broadcast
    BY <1>1 DEF RelyKept, Plant
  <2> QED  BY <2>2, <2>3
<1>2. CASE rely[o] = Broadcast
  <2>1. Silent(o)'
    <3>1. Silent(o)
      BY <1>2 DEF LanesInv
    <3> QED  BY <1>2, <3>1, SilentStep
  <2>2. CASE rely'[o] # Broadcast
    <3>1. RecvRtInit(o)
      BY <1>2, <2>2, RelyChanges DEF Plant
    <3>2. HasWay(o)'
      BY <1>2, <3>1, WayOfRely
    <3>3. HasLane(o)'
      BY <2>1, <3>2, SilentLaneNext
    <3> QED  BY <2>2, <3>3
  <2> QED  BY <2>1, <2>2
<1> QED  BY <1>1, <1>2

\* Data comes from nodes of the tree.
LEMMA DataConnected ==
  ASSUME IInv, RootsInv, LanesInv, NEW p \in Packets, p.type = "DATA"
  PROVE  p.origin \in Plant /\ p.body \in Nat /\ p.source \in Plant /\ rely[p.source] \in Node
<1>1. PICK o : o = p.origin
  OBVIOUS
<1>2. o \in Plant
  BY <1>1 DEF RootsInv
<1>3. rely[o] # Broadcast
  BY <1>1, <1>2 DEF LanesInv, Silent
<1>4. PICK C \in SUBSET Node, L \in [Node -> Nat], Q \in [Node -> Nat], B \in [Node -> Nat] :
        Lane(o, C, L, Q, B)
  <2>1. HasLane(o)
    BY <1>2, <1>3 DEF LanesInv
  <2> QED  BY <2>1 DEF HasLane
<1>5. p \in DataOf(o) /\ p.source \in C \ {Sink}
  BY <1>1, <1>4 DEF Lane
<1>6. rely[p.source] \in Node
  BY <1>2, <1>4, <1>5, OnLane
<1> QED  BY <1>1, <1>2, <1>5, <1>6 DEF DataOf, Plant

LEMMA RootsStep ==
  ASSUME IInv, RootsInv, [Next]_vars, RelyKept
  PROVE  RootsInv'
<1> SUFFICES ASSUME NEW p \in Packets'
             PROVE  /\ p.type = "RT_INIT" => p.source = Sink \/ rely'[p.source] # Broadcast
                    /\ p.type = "DATA" => p.origin \in Plant
  BY DEF RootsInv
<1>1. CASE p \in Packets
  <2>1. p.source \in Node
    BY <1>1, PacketIsStamped DEF Packets, Stamped, RawPacket
  <2> QED  BY <1>1, <2>1 DEF RootsInv, RelyKept
<1>2. CASE MadeInit(p)
  <2>1. CASE p.source = Sink
    BY <1>2, <2>1 DEF MadeInit
  <2>2. CASE p.source \in Node /\ RecvRtInit(p.source)
    <3>1. PICK n \in Node : n = p.source /\ RecvRtInit(n)
      BY <2>2
    <3>2. Received(n) \in Stamped
      <4>1. At(n, "recv")
        BY <3>1 DEF RecvRtInit, Accepted
      <4> QED  BY <4>1, ReceivedIsPacket, PacketIsStamped DEF Packets
    <3>3. rely'[n] = Received(n).source
      BY <3>1 DEF RecvRtInit, IInv, TreeInv
    <3>4. rely'[n] # Broadcast
      BY <3>2, <3>3, NodeAssumption DEF Stamped, RawPacket
    <3> QED  BY <1>2, <3>1, <3>4 DEF MadeInit
  <2> QED  BY <1>2, <2>1, <2>2 DEF MadeInit
<1>3. CASE FirstData(p)
  <2>1. PICK n \in Node : Send(n) /\ p = Data(n, n, used.data[n] + 1)
    BY <1>3 DEF FirstData
  <2> QED  BY <2>1 DEF Data, Packet, Send, Plant
<1>4. CASE RelayedData(p)
  <2>1. PICK n \in Plant : RecvData(n) /\ p = Data(n, Received(n).origin, Received(n).body)
    BY <1>4 DEF RelayedData
  <2>2. At(n, "recv") /\ Received(n).type = "DATA" /\ n \in Node
    BY <2>1 DEF RecvData, Accepted, Received, Plant
  <2>3. Received(n) \in Packets
    BY <2>2, ReceivedIsPacket
  <2>4. p.type = "DATA" /\ p.origin = Received(n).origin
    BY <2>1 DEF Data, Packet
  <2> QED  BY <2>2, <2>3, <2>4 DEF RootsInv
<1>5. p \in Packets \/ Made(p)
  BY NextMade DEF OldOrMade
<1> QED  BY <1>1, <1>2, <1>3, <1>4, <1>5, MadeTypes DEF Made

\* What happens to what the application of the sink is given.
LEMMA InboxStep ==
  ASSUME IInv, GivenInv, [Next]_vars
  PROVE  /\ DOMAIN inBufferPackets' = Node
         /\ \/ inBufferPackets'[Sink] \in {inBufferPackets[Sink], <<>>}
            \/ inBufferPackets[Sink] # <<>> /\ inBufferPackets'[Sink] = Tail(inBufferPackets[Sink])
            \/ RecvData(Sink) /\ ToApplication(Sink, Received(Sink))
<1>1. CASE UNCHANGED inBufferPackets
  BY <1>1 DEF GivenInv
<1>2. CASE \E n \in Node : RecvData(n) \/ RecvCommand(n)
  <2>1. PICK n \in Node : RecvData(n) \/ RecvCommand(n)
    BY <1>2
  <2>2. UNCHANGED inBufferPackets \/ ToApplication(n, Received(n))
    BY <2>1 DEF RecvData, RecvCommand
  <2>3. RecvCommand(n) => n # Sink
    BY DEF RecvCommand, Accepted, Accepts, AcceptsCommand
  <2>4. CASE n # Sink /\ ToApplication(n, Received(n))
    <3>1. DOMAIN inBufferPackets' = Node /\ inBufferPackets'[Sink] = inBufferPackets[Sink]
      BY <2>4, NodeAssumption DEF ToApplication, GivenInv
    <3> QED  BY <3>1
  <2>5. CASE n = Sink /\ ToApplication(n, Received(n))
    <3>1. DOMAIN inBufferPackets' = Node
      BY <2>5 DEF ToApplication, GivenInv
    <3> QED  BY <2>1, <2>3, <2>5, <3>1
  <2> QED  BY <1>1, <2>2, <2>4, <2>5
<1>3. CASE \E n \in Node : Restart(n)
  <2>1. PICK n \in Node : inBufferPackets' = [inBufferPackets EXCEPT ![n] = <<>>]
    BY <1>3 DEF Restart
  <2>2. DOMAIN inBufferPackets' = Node /\ inBufferPackets'[Sink] \in {inBufferPackets[Sink], <<>>}
    BY <2>1, NodeAssumption DEF GivenInv
  <2> QED  BY <2>2
<1>4. CASE \E n \in Node : Recv(n)
  <2>1. PICK n \in Node : /\ inBufferPackets[n] # <<>>
                          /\ inBufferPackets' = [inBufferPackets EXCEPT ![n] = Tail(@)]
    BY <1>4 DEF Recv
  <2>2. DOMAIN inBufferPackets' = Node
    BY <2>1 DEF GivenInv
  <2>3. n # Sink => inBufferPackets'[Sink] = inBufferPackets[Sink]
    BY <2>1, NodeAssumption DEF GivenInv
  <2>4. n = Sink => inBufferPackets'[Sink] = Tail(inBufferPackets[Sink])
    BY <2>1, NodeAssumption DEF GivenInv
  <2> QED  BY <2>1, <2>2, <2>3, <2>4
<1>5. CASE \E n \in Node : BusStep(n) /\ ~RecvData(n) /\ ~RecvCommand(n)
  <2>1. PICK n \in Node : BusStep(n) /\ ~RecvData(n) /\ ~RecvCommand(n)
    BY <1>5
  <2>2. UNCHANGED inBufferPackets
    BY <2>1 DEF BusStep, SendToMac, PacketSent, PacketTimeout, RecvIgnored, RecvRtInit,
       RecvRtAck, RecvJoin, RecvLeave, RecvConnectionLost, appVars
  <2> QED  BY <1>1, <2>2
<1>6. CASE \/ \E n \in Node : MacStep(n) \/ Send(n) \/ RecvConnection(n)
           \/ (\E f \in Caller : SinkSendReturns(f)) \/ UNCHANGED vars
  <2>1. \A n \in Node : MacStep(n) => UNCHANGED inBufferPackets
    BY MacStepKeeps, Zenon DEF appVars
  <2>2. UNCHANGED inBufferPackets
    BY <1>6, <2>1 DEF Send, RecvConnection, SinkSendReturns, vars, appVars
  <2> QED  BY <1>1, <2>2
<1>7. CASE SinkBusStep
  <2>1. UNCHANGED inBufferPackets
    BY <1>7 DEF SinkBusStep, IncrBroadcastCounter, SendToSerial, RecvInit, RecvAnswer, SinkSend,
       appVars
  <2> QED  BY <1>1, <2>1
<1>8. CASE IdleStep \/ HostAnswer \/ HostStart \/ Boot \/ Request
  <2>1. UNCHANGED inBufferPackets
    BY <1>8 DEF IdleStep, SerialIdleTick, SinkIdleTick, NodeIdleTick, HostAnswer, HostStart, Boot,
       Request, appVars
  <2> QED  BY <1>1, <2>1
<1> QED  BY <1>2, <1>3, <1>4, <1>5, <1>6, <1>7, <1>8 DEF Next

LEMMA GivenStep ==
  ASSUME IInv, GivenInv, RootsInv, LanesInv, [Next]_vars
  PROVE  GivenInv'
<1> DEFINE S == [source : Plant, body : Nat]
<1>1. DOMAIN inBufferPackets' = Node
  BY InboxStep
<1>2. CASE inBufferPackets'[Sink] \in {inBufferPackets[Sink], <<>>}
  <2>1. inBufferPackets'[Sink] \in Seq(S)
    BY <1>2, EmptyIsSeq DEF GivenInv
  <2> QED  BY <1>1, <2>1 DEF GivenInv
<1>3. CASE inBufferPackets[Sink] # <<>> /\ inBufferPackets'[Sink] = Tail(inBufferPackets[Sink])
  <2>1. inBufferPackets[Sink] \in Seq(S)
    BY DEF GivenInv
  <2> HIDE DEF S
  <2>2. inBufferPackets'[Sink] \in Seq(S)
    BY <1>3, <2>1, TailIsSeq
  <2> QED  BY <1>1, <2>2 DEF GivenInv, S
<1>4. CASE RecvData(Sink) /\ ToApplication(Sink, Received(Sink))
  <2>1. PICK e : e = [source |-> Received(Sink).origin, body |-> Received(Sink).body]
    OBVIOUS
  <2>2. e \in S
    <3>1. At(Sink, "recv") /\ Received(Sink).type = "DATA"
      BY <1>4 DEF RecvData, Accepted, Received
    <3>2. Received(Sink) \in Packets
      BY <3>1, ReceivedIsPacket, NodeAssumption
    <3>3. Received(Sink).origin \in Plant /\ Received(Sink).body \in Nat
      BY <3>1, <3>2, DataConnected
    <3> QED  BY <2>1, <3>3
  <2>3. inBufferPackets[Sink] \in Seq(S)
    BY DEF GivenInv
  <2>4. inBufferPackets'[Sink] = Append(inBufferPackets[Sink], e)
    BY <1>4, <2>1, NodeAssumption DEF ToApplication, GivenInv
  <2> HIDE DEF S
  <2>5. inBufferPackets'[Sink] \in Seq(S)
    BY <2>2, <2>3, <2>4, AppendIsSeq
  <2> QED  BY <1>1, <2>5 DEF GivenInv, S
<1> QED  BY <1>2, <1>3, <1>4, InboxStep

\* What AirInv says of one message.
AirOk(k, m) ==
  /\ m.pkt.source = k
  /\ m.pkt.forward # Broadcast => m.left \subseteq {m.pkt.forward}
  /\ m.pkt.type = "DATA" /\ m.left # {} => m.sent = 0 /\ m.timeouts = 0

LEMMA AirFrom ==
  ASSUME AirInv, NEW n \in Node,
         \A k \in Node : \A m \in Elements(mac[k])' :
           m \in Elements(mac[k]) \/ (k = n /\ AirOk(n, m))
  PROVE  AirInv'
  BY DEF AirInv, AirOk

LEMMA SendToMacAir ==
  ASSUME IInv, AirInv, NEW n \in Node, SendToMac(n)
  PROVE  AirInv'
<1>1. PICK p, m : p = Head(outBufferPackets[n]) /\ m = MacMessage(n, p)
  OBVIOUS
<1>2. outBufferPackets[n] # <<>> /\ mac' = [mac EXCEPT ![n] = Append(@, m)]
  BY <1>1 DEF SendToMac
<1>3. p.source = n
  <2>1. outBufferPackets[n] \in Seq(From(n))
    BY DEF IInv, Queues
  <2>2. p \in From(n)
    BY <1>1, <1>2, <2>1, TailIsSeq
  <2> QED  BY <2>2 DEF From
<1>4. AirOk(n, m)
  BY <1>1, <1>3 DEF AirOk, MacMessage
<1> DEFINE S == Message \cup {m}
<1>5. mac[n] \in Seq(S) /\ <<m>> \in Seq(S) /\ m \in S
  <2>1. mac[n] \in Seq(Message) /\ Message \subseteq S /\ m \in S
    BY DEF IInv, Messages
  <2> HIDE DEF S
  <2>2. <<m>> \in Seq(S)
    BY <2>1
  <2> QED  BY <2>1, <2>2, SeqMonotonic
<1> HIDE DEF S
<1>6. /\ \A k \in Node : k # n => mac'[k] = mac[k]
      /\ mac'[n] = Append(mac[n], m)
  BY <1>2 DEF IInv, Messages
<1>7. mac'[n] = mac[n] \o <<m>>
  BY <1>5, <1>6, AppendIsConcat
<1>8. Elements(<<m>>) = {m}
  BY DEF Elements
<1>9. Elements(mac'[n]) \subseteq Elements(mac[n]) \cup {m}
  BY <1>5, <1>7, <1>8, ElementsConcat
<1>10. \A k \in Node : k # n => Elements(mac'[k]) = Elements(mac[k])
  BY <1>6
<1> QED  BY <1>4, <1>9, <1>10, AirFrom

LEMMA MacAir ==
  ASSUME IInv, AirInv, Frags = 1, Steady', NEW n \in Node, MacStep(n)
  PROVE  AirInv'
<1>1. ASSUME NEW i \in DOMAIN mac[n], NEW x, x.pkt = mac[n][i].pkt, x.left \subseteq mac[n][i].left,
             MacBecomes(n, i, x),
             x.left = {} \/ (x.sent = mac[n][i].sent /\ x.timeouts = mac[n][i].timeouts)
      PROVE  AirInv'
  <2>1. AirOk(n, mac[n][i])
    BY DEF AirInv, AirOk, Elements
  <2>2. AirOk(n, x)
    BY <1>1, <2>1 DEF AirOk
  <2>3. \A k \in Node : Elements(mac[k])' \subseteq Elements(mac[k]) \cup (IF k = n THEN {x} ELSE {})
    BY <1>1, AirBecomes
  <2> QED  BY <2>2, <2>3, AirFrom
<1>2. CASE MacDeliver(n)
  <2>1. PICK i \in DOMAIN mac[n] : \E m \in mac[n][i].left :
          MacBecomes(n, i, [mac[n][i] EXCEPT !.left = @ \ {m}])
    BY <1>2 DEF MacDeliver
  <2>2. PICK m \in mac[n][i].left :
          MacBecomes(n, i, [mac[n][i] EXCEPT !.left = @ \ {m}])
    BY <2>1
  <2>3. PICK x : x = [mac[n][i] EXCEPT !.left = @ \ {m}]
    OBVIOUS
  <2>4. /\ x.pkt = mac[n][i].pkt /\ x.left \subseteq mac[n][i].left
        /\ x.sent = mac[n][i].sent /\ x.timeouts = mac[n][i].timeouts
    BY <2>3, InMac DEF Message
  <2> QED  BY <1>1, <2>2, <2>3, <2>4
<1>3. CASE MacSent(n)
  <2>1. PICK i \in DOMAIN mac[n] :
          /\ mac[n][i].pkt.forward # Broadcast
          /\ mac[n][i].pkt.forward \in InRange[n] \ mac[n][i].left
          /\ MacBecomes(n, i, [mac[n][i] EXCEPT !.sent = 1])
    BY <1>3 DEF MacSent
  <2>2. PICK x : x = [mac[n][i] EXCEPT !.sent = 1]
    OBVIOUS
  <2>3. x.pkt = mac[n][i].pkt /\ x.left = mac[n][i].left
    BY <2>2, InMac DEF Message
  <2>4. AirOk(n, mac[n][i])
    BY DEF AirInv, AirOk, Elements
  <2>5. x.left = {}
    BY <2>1, <2>3, <2>4 DEF AirOk
  <2> QED  BY <1>1, <2>1, <2>2, <2>3, <2>5
<1>4. ~MacTimeout(n) /\ ~MacRepeat(n)
  <2>1. used.timeout \in Nat /\ used.repeat[n] \in Nat
    BY DEF IInv, UsedInv, Counts
  <2>2. MacTimeout(n) => used'.timeout = used.timeout + 1
    BY DEF MacTimeout, IInv, UsedInv, Counts
  <2>3. MacRepeat(n) => used'.repeat[n] = used.repeat[n] + 1
    BY DEF MacRepeat, IInv, UsedInv, Counts
  <2> QED  BY <2>1, <2>2, <2>3 DEF Steady
<1> QED  BY <1>2, <1>3, <1>4 DEF MacStep

\* A node that sends data does not lose power, as it would lose its rely.
LEMMA RestartAir ==
  ASSUME IInv, AirInv, RootsInv, LanesInv, RelyKept, NEW n \in Node, Restart(n)
  PROVE  AirInv'
<1> DEFINE silent == [i \in DOMAIN mac[n] |-> Unanswered(mac[n][i])]
<1>1. mac' = [mac EXCEPT ![n] = silent] /\ rely'[n] = Broadcast
  BY DEF Restart, IInv, TreeInv
<1>2. \A i \in DOMAIN mac[n] :
        silent[i].pkt = mac[n][i].pkt /\ silent[i].left = mac[n][i].left
  BY InMac DEF Message, Unanswered
<1>3. DOMAIN silent = DOMAIN mac[n]
  OBVIOUS
<1> HIDE DEF silent
<1>4. \A m \in Elements(mac[n]) : m.pkt.type # "DATA"
  <2> SUFFICES ASSUME NEW m \in Elements(mac[n]), m.pkt.type = "DATA" PROVE FALSE
    OBVIOUS
  <2>1. m.pkt \in Packets
    BY PacketParts DEF Aired
  <2>2. rely[m.pkt.source] \in Node
    BY <2>1, DataConnected
  <2>3. m.pkt.source = n
    BY DEF AirInv
  <2> QED  BY <1>1, <2>2, <2>3, NodeAssumption DEF RelyKept
<1>5. \A m \in Elements(silent) : AirOk(n, m)
  <2> SUFFICES ASSUME NEW i \in DOMAIN silent PROVE AirOk(n, silent[i])
    BY DEF Elements
  <2>1. mac[n][i] \in Elements(mac[n])
    BY <1>3 DEF Elements
  <2>2. AirOk(n, mac[n][i]) /\ mac[n][i].pkt.type # "DATA"
    BY <1>4, <2>1 DEF AirInv, AirOk
  <2> QED  BY <1>2, <1>3, <2>2 DEF AirOk
<1>6. mac'[n] = silent /\ \A k \in Node : k # n => mac'[k] = mac[k]
  BY <1>1 DEF IInv, Messages
<1>7. \A k \in Node : k # n => Elements(mac'[k]) = Elements(mac[k])
  BY <1>6
<1> QED  BY <1>5, <1>6, <1>7, AirFrom

LEMMA AirStep ==
  ASSUME IInv, AirInv, RootsInv, LanesInv, Frags = 1, [Next]_vars, RelyKept, Steady'
  PROVE  AirInv'
<1>1. CASE UNCHANGED mac
  BY <1>1 DEF AirInv, Elements
<1>2. CASE \E n \in Node : SendToMac(n)
  BY <1>2, SendToMacAir
<1>3. CASE \E n \in Node : MacStep(n)
  BY <1>3, MacAir
<1>4. CASE \E n \in Node : Restart(n)
  BY <1>4, RestartAir
<1>5. CASE \E n \in Node : BusStep(n) /\ ~SendToMac(n)
  <2>1. PICK n \in Node : BusStep(n) /\ ~SendToMac(n)
    BY <1>5
  <2>2. UNCHANGED mac
    BY <2>1 DEF BusStep, PacketSent, PacketTimeout, RecvIgnored, RecvRtInit, RecvData, RecvCommand,
       RecvRtAck, RecvJoin, RecvLeave, RecvConnectionLost
  <2> QED  BY <1>1, <2>2
<1>6. CASE \/ \E n \in Node : Send(n) \/ Recv(n) \/ RecvConnection(n)
           \/ (\E f \in Caller : SinkSendReturns(f)) \/ UNCHANGED vars
  <2>1. UNCHANGED mac
    BY <1>6 DEF Send, Recv, RecvConnection, SinkSendReturns, vars
  <2> QED  BY <1>1, <2>1
<1>7. CASE SinkBusStep
  <2>1. UNCHANGED mac
    BY <1>7 DEF SinkBusStep, IncrBroadcastCounter, SendToSerial, RecvInit, RecvAnswer, SinkSend
  <2> QED  BY <1>1, <2>1
<1>8. CASE IdleStep \/ HostAnswer \/ HostStart \/ Boot \/ Request
  <2>1. UNCHANGED mac
    BY <1>8 DEF IdleStep, SerialIdleTick, SinkIdleTick, NodeIdleTick, HostAnswer, HostStart, Boot,
       Request
  <2> QED  BY <1>1, <2>1
<1> QED  BY <1>2, <1>3, <1>4, <1>5, <1>6, <1>7, <1>8 DEF Next

LEMMA FlowInit ==
  ASSUME Init
  PROVE  PopsInv /\ FloodsInv /\ LanesInv /\ RootsInv /\ GivenInv /\ AirInv
<1>1. \A S : NoneOf(<<>>, S) /\ One(<<>>, S)
  BY DEF NoneOf, One
<1>2. Elements(<<>>) = {}
  BY DEF Elements
<1>3. Packets = {}
  BY <1>2 DEF Init, Packets, PacketsOf
<1>4. PopsInv
  BY <1>1 DEF Init, PopsInv, Fine
<1>5. FloodsInv /\ RootsInv
  BY <1>3 DEF FloodsInv, RootsInv
<1>6. GivenInv
  BY NodeAssumption, EmptyIsSeq DEF Init, GivenInv
<1>7. AirInv
  BY <1>2 DEF Init, AirInv
<1>8. \A o \in Plant : rely[o] = Broadcast /\ used.data[o] = 0
  BY DEF Init, Plant
<1>9. inBufferPackets[Sink] = <<>>
  BY NodeAssumption DEF Init
<1>10. \A o \in Plant : Run(<<>>, Given(o), 0, 0)
  <2>1. 0 \in Nat /\ 0 <= 0
    OBVIOUS
  <2> QED  BY <1>1, <2>1, Numbered, RunNone
<1>11. LanesInv
  BY <1>3, <1>8, <1>9, <1>10 DEF LanesInv, Silent
<1> QED  BY <1>4, <1>5, <1>6, <1>7, <1>11

LEMMA LanesAreOrdered ==
  ASSUME GivenInv, LanesInv
  PROVE  DataInOrder
<1> SUFFICES ASSUME NEW i \in DOMAIN inBufferPackets[Sink], NEW j \in DOMAIN inBufferPackets[Sink],
                    i < j, inBufferPackets[Sink][i].source = inBufferPackets[Sink][j].source
             PROVE  inBufferPackets[Sink][i].body < inBufferPackets[Sink][j].body
  BY DEF DataInOrder
<1>1. PICK e, f, q : /\ q = inBufferPackets[Sink] /\ e = q[i] /\ f = q[j]
  OBVIOUS
<1>2. e \in [source : Plant, body : Nat] /\ f \in [source : Plant, body : Nat]
  BY <1>1, ElementOfSeq, LenProperties DEF GivenInv
<1>3. PICK o \in Plant : o = e.source /\ o = f.source
  BY <1>1, <1>2
<1>4. e \in GivenOf(o) /\ f \in GivenOf(o)
  BY <1>2, <1>3 DEF GivenOf
<1>5. \E hi : Run(q, Given(o), 0, hi)
  <2>1. CASE rely[o] = Broadcast
    BY <1>1, <2>1 DEF LanesInv, Silent
  <2>2. CASE rely[o] # Broadcast
    <3>1. PICK C \in SUBSET Node, L \in [Node -> Nat], Q \in [Node -> Nat],
               B \in [Node -> Nat] : Lane(o, C, L, Q, B)
      BY <2>2 DEF LanesInv, HasLane
    <3> QED  BY <1>1, <3>1, LaneRuns
  <2> QED  BY <2>1, <2>2
<1>6. DOMAIN Given(o) = GivenOf(o) /\ Given(o)[e] = e.body /\ Given(o)[f] = f.body
  BY <1>4 DEF Given
<1>7. Given(o)[q[i]] < Given(o)[q[j]]
  <2>1. i \in DOMAIN q /\ j \in DOMAIN q /\ q[i] \in DOMAIN Given(o) /\ q[j] \in DOMAIN Given(o)
    BY <1>1, <1>4, <1>6
  <2> QED  BY <1>5, <2>1 DEF Run
<1> QED  BY <1>1, <1>6, <1>7

\* The application of the sink gets the payloads of each node in the order they
\* were sent in, and none twice, over any number of hops, waves and restarts of
\* the sink: as long as a message has one fragment, none is given up or
\* repeated, and a node that has a rely keeps it.
THEOREM DataKeepsOrder ==
  Frags = 1 => (Spec /\ []Steady /\ RelyStays => []DataInOrder)
<1> SUFFICES ASSUME Frags = 1 PROVE Spec /\ []Steady /\ RelyStays => []DataInOrder
  OBVIOUS
<1> DEFINE FlowInv == PopsInv /\ FloodsInv /\ LanesInv /\ RootsInv /\ GivenInv /\ AirInv
<1>1. Init => FlowInv
  BY FlowInit
<1>2. IInv /\ NothingForLostRely /\ FlowInv /\ [Next]_vars /\ [RelyKept]_vars /\ Steady' => FlowInv'
  <2> SUFFICES ASSUME IInv, NothingForLostRely, FlowInv, [Next]_vars, [RelyKept]_vars, Steady'
               PROVE  FlowInv'
    OBVIOUS
  <2>1. RelyKept
    BY DEF RelyKept, vars, treeVars
  <2>2. PopsInv' /\ FloodsInv'
    BY PopsStep, FloodsStep
  <2>3. LanesInv'
    BY <2>1, LanesStep
  <2>4. RootsInv'
    BY <2>1, RootsStep
  <2>5. GivenInv'
    BY GivenStep
  <2>6. AirInv'
    BY <2>1, AirStep
  <2> QED  BY <2>2, <2>3, <2>4, <2>5, <2>6
<1>3. FlowInv => DataInOrder
  BY LanesAreOrdered
<1> HIDE DEF FlowInv
<1> QED  BY <1>1, <1>2, <1>3, Invariance, QueueWithoutRely, PTL DEF Spec, RelyStays
=============================================================================
