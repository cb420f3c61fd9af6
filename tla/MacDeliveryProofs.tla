------------------------- MODULE MacDeliveryProofs -------------------------
(***************************************************************************)
(* What the MAC layer delivers, proved for every value of the constants:   *)
(* no message is forgotten, each one has one outcome, messages are put     *)
(* together whole and not handed over twice.                               *)
(*                                                                         *)
(* The last three need that no two messages of a node carry the same       *)
(* sequence number (NumbersUnique): a receive record, an acknowledgement   *)
(* and a packet on the air name their message by that number only.         *)
(***************************************************************************)
EXTENDS MacLayerProofs

-----------------------------------------------------------------------------
(* The state as the proofs see it: sets of packets.                        *)

InWaiting(n, h) == h \in DOMAIN waiting[n] /\ waiting[n][h] # NULL

\* The unicast packets that n may still put on the air.
Copies(n) ==
  {p \in ToSet(outBuffer[n]) : IsUnicastData(p)}
    \cup {waiting[n][h].pkt : h \in {g \in DOMAIN waiting[n] : waiting[n][g] # NULL}}

\* Their hashes, for one sequence number and for one message.
Hashes(S) == {getHash(p) : p \in S}
WithNumber(n, s) == Hashes({p \in Copies(n) : p.seq_number = s})
OfMessage(n, k) == Hashes({p \in Copies(n) : p.msg = k})

LastFrag(total) == IF total = 1 THEN 0 ELSE total

\* p is a fragment of the message of the log that it names.
IsPart(p) ==
  /\ p.msg \in DOMAIN log[p.source]
  /\ LET m == log[p.source][p.msg]
     IN /\ m.seq = p.seq_number /\ m.dest = p.destination
        /\ p.frag \in FragsOf(m.total)
        /\ p.control = "last" <=> p.frag = LastFrag(m.total)

-----------------------------------------------------------------------------
(* The inductive invariant, part one: what holds of every behaviour.       *)

LogWell(n) == \A k \in DOMAIN log[n] :
  LET m == log[n][k]
  IN /\ m.total \in 1 .. MaxFrag /\ m.dest # n /\ m.sent <= 1
     /\ m.dest = Broadcast => m.sent = 0 /\ m.timeouts = 0

\* Every data packet is a fragment of a message of its source.
PacketsWell(n) ==
  /\ \A p \in ToSet(outBuffer[n]) :
       /\ p.source = n
       /\ p.type = "data" => IsPart(p)
       /\ p.type = "ack" => p.destination \in Node
  /\ \A p \in Copies(n) : p.source = n /\ IsPart(p)
  /\ \A p \in ToSet(rx[n]) :
       /\ p.source # n
       /\ p.type = "data" => IsPart(p)
       /\ p.type = "ack" => p.destination \in Node

\* A count of acknowledgements belongs to a message not yet answered, whose
\* missing acknowledgements are matched by packets that are still retransmitted.
CountsWell(n) == \A s \in DOMAIN waiting_for_ack[n] :
  LET c == waiting_for_ack[n][s]
      m == log[n][c.msg]
  IN /\ c.msg \in DOMAIN log[n]
     /\ m.seq = s /\ m.total = c.total /\ m.dest # Broadcast
     /\ m.sent = 0 /\ m.timeouts = 0
     /\ c.received < c.total
     /\ c.total <= c.received + Cardinality(WithNumber(n, s))

\* A packet given up is gone: a message has a TIMEOUT for each fragment at most.
TimeoutsWell(n) == \A k \in DOMAIN log[n] :
  log[n][k].timeouts + Cardinality(OfMessage(n, k)) <= log[n][k].total

GotWell(n) == \A g \in got[n] :
  /\ g[1] # n /\ g[2] \in DOMAIN log[g[1]]
  /\ log[g[1]][g[2]].dest \in {n, Broadcast}

General == \A n \in Node :
  LogWell(n) /\ PacketsWell(n) /\ CountsWell(n) /\ TimeoutsWell(n) /\ GotWell(n)

-----------------------------------------------------------------------------
(* Part two: what holds while a sequence number names one message.         *)

\* No two messages of a node have the same sequence number. A restart of the
\* node or its 257th message ends it (MacLayer.cpp:461).
NumbersUnique == \A n \in Node : \A i, j \in DOMAIN log[n] :
  log[n][i].seq = log[n][j].seq => i = j

\* p acknowledges a fragment of a message sent to the node it comes from.
AckFor(p) ==
  \E k \in DOMAIN log[p.destination] :
    LET m == log[p.destination][k]
    IN /\ m.seq = p.seq_number /\ m.dest = p.source
       /\ p.frag \in FragsOf(m.total)
       /\ m.total = 1 => <<p.destination, k>> \in got[p.source]

AcksWell(n) == \A p \in ToSet(outBuffer[n]) \cup ToSet(rx[n]) :
  p.type = "ack" => AckFor(p)

\* A unicast packet of n with hash h, or an acknowledgement of one, is under way.
DataOnAir(n, h) == \E m \in Node : \E p \in ToSet(rx[m]) :
  IsUnicastData(p) /\ p.source = n /\ getHash(p) = h
AckOnAir(n, h) == \E m \in Node : \E p \in ToSet(rx[m]) \cup ToSet(outBuffer[m]) :
  p.type = "ack" /\ p.destination = n /\ getHash(p) = h
OnAir(n, h) == DataOnAir(n, h) \/ AckOnAir(n, h)

\* A packet that waits to be sent for the first time is not under way.
AirWell(n) == \A p \in ToSet(outBuffer[n]) :
  IsUnicastData(p) /\ ~InWaiting(n, getHash(p)) => ~OnAir(n, getHash(p))

\* r is a receive record of message k of total fragments; done says that the
\* message was handed over.
RecordOf(r, total, k, done) ==
  /\ DOMAIN r.packets # {} /\ DOMAIN r.packets \subseteq FragsOf(total)
  /\ r.lastReceived <=> LastFrag(total) \in DOMAIN r.packets
  /\ r.lastReceived => r.packet_number = LastFrag(total)
  /\ \/ /\ done /\ DOMAIN r.packets = FragsOf(total)
        /\ \A f \in DOMAIN r.packets : r.packets[f] = NULL
     \/ /\ DOMAIN r.packets # FragsOf(total)
        /\ \A f \in DOMAIN r.packets : r.packets[f] = k

RecordsWell(n) == \A key \in DOMAIN receive_buffer[n] :
  \E k \in DOMAIN log[key[1]] :
    /\ log[key[1]][k].seq = key[2]
    /\ RecordOf(receive_buffer[n][key], log[key[1]][k].total, k, <<key[1], k>> \in got[n])

\* The record of a message that was handed over is complete, until it is dropped.
GotHeld(n) == \A g \in got[n] \ expired[n] :
  LET e == log[g[1]][g[2]]
  IN /\ <<g[1], e.seq>> \in DOMAIN receive_buffer[n]
     /\ DOMAIN receive_buffer[n][<<g[1], e.seq>>].packets = FragsOf(e.total)

\* What the upper layer reads is all the fragments of one message.
WholeWell(n) == \A r \in ToSet(inBuffer[n]) :
  \E k \in DOMAIN log[r.source] :
    r.parts = [f \in FragsOf(log[r.source][k].total) |-> k]

\* A message of one packet has one outcome, and no packet afterwards.
OutcomesWell(n) == \A k \in DOMAIN log[n] :
  LET m == log[n][k]
  IN m.total = 1 =>
       /\ m.sent + m.timeouts <= 1
       /\ m.sent = 1 => Delivered(n, k)
       /\ m.sent + m.timeouts > 0 => \A p \in Copies(n) : p.msg # k

WhileUnique == \A n \in Node :
  /\ AcksWell(n) /\ AirWell(n) /\ OutcomesWell(n)
  /\ RecordsWell(n) /\ GotHeld(n) /\ WholeWell(n)

DInv == General /\ (NumbersUnique => WhileUnique)

-----------------------------------------------------------------------------
(* Lemmas about the sets of packets.                                       *)

\* The elements of a queue that grows or shrinks.
LEMMA QueueSets ==
  ASSUME NEW S, NEW q \in Seq(S)
  PROVE  /\ ToSet(q) \subseteq S
         /\ \A r \in Seq(S) : q \o r \in Seq(S) /\ ToSet(q \o r) = ToSet(q) \cup ToSet(r)
         /\ \A e \in S : Append(q, e) \in Seq(S) /\ ToSet(Append(q, e)) = ToSet(q) \cup {e}
         /\ q # <<>> => /\ Head(q) \in S /\ Tail(q) \in Seq(S)
                        /\ ToSet(q) = {Head(q)} \cup ToSet(Tail(q))
<1>1. Len(q) \in Nat /\ DOMAIN q = 1 .. Len(q) /\ \A i \in DOMAIN q : q[i] \in S
  BY LenProperties, ElementOfSeq
<1>2. ToSet(q) \subseteq S
  BY <1>1 DEF ToSet
<1>3. ASSUME NEW r \in Seq(S)
      PROVE  q \o r \in Seq(S) /\ ToSet(q \o r) = ToSet(q) \cup ToSet(r)
  <2> DEFINE t == q \o r
  <2>1. /\ t \in Seq(S)
        /\ \A i \in DOMAIN t : \/ i \in DOMAIN q /\ t[i] = q[i]
                               \/ i - Len(q) \in DOMAIN r /\ t[i] = r[i - Len(q)]
        /\ \A i \in DOMAIN q : i \in DOMAIN t /\ t[i] = q[i]
        /\ \A i \in DOMAIN r : i + Len(q) \in DOMAIN t /\ t[i + Len(q)] = r[i]
    BY ConcatElements
  <2> HIDE DEF t
  <2>2. ToSet(t) = ToSet(q) \cup ToSet(r)
    BY <2>1 DEF ToSet
  <2> QED  BY <2>1, <2>2 DEF t
<1>4. ASSUME NEW e \in S
      PROVE  Append(q, e) \in Seq(S) /\ ToSet(Append(q, e)) = ToSet(q) \cup {e}
  <2> DEFINE t == Append(q, e)
  <2>1. /\ t \in Seq(S) /\ DOMAIN t = 1 .. Len(q) + 1
        /\ \A i \in 1 .. Len(q) : t[i] = q[i]
        /\ t[Len(q) + 1] = e
    BY AppendProperties, LenProperties
  <2> HIDE DEF t
  <2>2. ASSUME NEW i \in DOMAIN t PROVE t[i] \in ToSet(q) \cup {e}
    BY <1>1, <2>1 DEF ToSet
  <2>3. ASSUME NEW i \in DOMAIN q PROVE q[i] \in ToSet(t)
    <3>1. i \in 1 .. Len(q) + 1
      BY <1>1
    <3> QED  BY <1>1, <2>1, <3>1 DEF ToSet
  <2>4. e \in ToSet(t)
    <3>1. Len(q) + 1 \in 1 .. Len(q) + 1
      BY <1>1
    <3> QED  BY <2>1, <3>1 DEF ToSet
  <2>5. ToSet(t) \subseteq ToSet(q) \cup {e}
    BY <2>2 DEF ToSet
  <2>6. ToSet(q) \subseteq ToSet(t)
    BY <2>3 DEF ToSet
  <2> QED  BY <2>1, <2>4, <2>5, <2>6 DEF t
<1>5. ASSUME q # <<>>
      PROVE  /\ Head(q) \in S /\ Tail(q) \in Seq(S)
             /\ ToSet(q) = {Head(q)} \cup ToSet(Tail(q))
  <2> DEFINE t == Tail(q)
  <2>1. /\ Head(q) \in S /\ t \in Seq(S) /\ Head(q) = q[1] /\ 1 \in DOMAIN q
        /\ \A i \in DOMAIN t : i + 1 \in DOMAIN q /\ t[i] = q[i + 1]
        /\ \A i \in DOMAIN q : i # 1 => i - 1 \in DOMAIN t /\ t[i - 1] = q[i]
    BY <1>5, HeadTailProperties, LenProperties
  <2> HIDE DEF t
  <2>2. \A i \in DOMAIN t : t[i] \in ToSet(q)
    BY <2>1 DEF ToSet
  <2>3. ASSUME NEW i \in DOMAIN q PROVE q[i] \in {Head(q)} \cup ToSet(t)
    BY <2>1 DEF ToSet
  <2>4. Head(q) \in ToSet(q)
    BY <2>1 DEF ToSet
  <2>5. ToSet(t) \subseteq ToSet(q)
    BY <2>2 DEF ToSet
  <2>6. ToSet(q) \subseteq {Head(q)} \cup ToSet(t)
    BY <2>3 DEF ToSet
  <2> QED  BY <2>1, <2>4, <2>5, <2>6 DEF t
<1> QED  BY <1>2, <1>3, <1>4, <1>5

\* Erasing the packet of an entry removes that packet only, and all of it.
LEMMA WithoutSet ==
  ASSUME NEW q \in Seq(Packet), NEW p, AtMostOnce(q)
  PROVE  /\ ToSet(Without(q, p)) \subseteq ToSet(q)
         /\ ToSet(q) \ {p} \subseteq ToSet(Without(q, p))
         /\ IsUnicastData(p) => p \notin ToSet(Without(q, p))
<1> DEFINE s == Without(q, p)
<1>1. CASE ~ \E k \in DOMAIN q : q[k] = p
  BY <1>1 DEF Without, ToSet
<1>2. ASSUME NEW k \in DOMAIN q, q[k] = p
      PROVE  /\ ToSet(s) \subseteq ToSet(q) /\ ToSet(q) \ {p} \subseteq ToSet(s)
             /\ IsUnicastData(p) => p \notin ToSet(s)
  <2>1. PICK c \in DOMAIN q : q[c] = p /\ OneRemoved(s, q, c) /\ s \in Seq(Packet)
    BY <1>2, WithoutElements
  <2>2. c \in Nat /\ (\A i \in DOMAIN q : i \in Nat) /\ \A i \in DOMAIN s : i \in Nat
    BY <2>1, LenProperties
  <2> HIDE DEF s
  <2>3. ASSUME NEW i \in DOMAIN s
        PROVE  s[i] \in ToSet(q) /\ (IsUnicastData(p) => s[i] # p)
    <3>1. PICK a \in DOMAIN q : s[i] = q[a] /\ a # c
      <4>1. \/ i < c /\ i \in DOMAIN q /\ s[i] = q[i]
            \/ i >= c /\ i + 1 \in DOMAIN q /\ s[i] = q[i + 1]
        BY <2>1 DEF OneRemoved
      <4> QED  BY <2>2, <4>1
    <3> QED  BY <2>1, <3>1 DEF AtMostOnce, ToSet
  <2>4. ASSUME NEW i \in DOMAIN q, q[i] # p PROVE q[i] \in ToSet(s)
    <3>1. i < c \/ i > c
      BY <2>1, <2>2, <2>4
    <3> QED  BY <2>1, <3>1 DEF OneRemoved, ToSet
  <2> QED  BY <2>3, <2>4 DEF ToSet
<1> QED  BY <1>1, <1>2

\* What IInv says of the queues, of waiting and of the log.
LEMMA Typed ==
  ASSUME IInv
  PROVE  /\ outBuffer \in [Node -> Seq(Packet)] /\ rx \in [Node -> Seq(Packet)]
         /\ DOMAIN waiting = Node /\ DOMAIN waiting_for_ack = Node
         /\ log \in [Node -> Seq(LogEntry)] /\ seq_number \in [Node -> SeqNumber]
         /\ got \in [Node -> SUBSET (Node \X Nat)]
         /\ expired \in [Node -> SUBSET (Node \X Nat)]
         /\ DOMAIN receive_buffer = Node /\ DOMAIN inBuffer = Node
         /\ \A n \in Node :
              /\ ToSet(outBuffer[n]) \subseteq Packet /\ ToSet(rx[n]) \subseteq Packet
              /\ Len(log[n]) \in Nat /\ DOMAIN log[n] = 1 .. Len(log[n])
              /\ \A k \in DOMAIN log[n] : k \in Nat /\ log[n][k] \in LogEntry
              /\ DOMAIN waiting_for_ack[n] \subseteq SeqNumber
              /\ \A s \in DOMAIN waiting_for_ack[n] : waiting_for_ack[n][s] \in Count
              /\ DOMAIN receive_buffer[n] \subseteq Node \X SeqNumber
<1>1. TypeOK /\ SenderTypeOK /\ ReceiverTypeOK
  BY DEF IInv, TypeOK
<1>2. ASSUME NEW n \in Node
      PROVE  /\ ToSet(outBuffer[n]) \subseteq Packet /\ ToSet(rx[n]) \subseteq Packet
             /\ Len(log[n]) \in Nat /\ DOMAIN log[n] = 1 .. Len(log[n])
             /\ \A k \in DOMAIN log[n] : k \in Nat /\ log[n][k] \in LogEntry
  <2>1. outBuffer[n] \in Seq(Packet) /\ rx[n] \in Seq(Packet) /\ log[n] \in Seq(LogEntry)
    BY <1>1 DEF TypeOK, SenderTypeOK
  <2>2. \A k \in DOMAIN log[n] : log[n][k] \in LogEntry
    BY <2>1, LenProperties, ElementOfSeq
  <2> QED  BY <2>1, <2>2, QueueSets, LenProperties
<1>3. \A n \in Node : IsPartial(waiting_for_ack[n], SeqNumber, Count)
  BY <1>1 DEF SenderTypeOK
<1>4. \A n \in Node : DOMAIN receive_buffer[n] \subseteq Node \X SeqNumber
  BY <1>1 DEF ReceiverTypeOK
<1> QED  BY <1>1, <1>2, <1>3, <1>4 DEF TypeOK, SenderTypeOK, ReceiverTypeOK, IsPartial

\* The entries of waiting.
LEMMA WaitingEntries ==
  ASSUME IInv, NEW n \in Node, NEW h, InWaiting(n, h)
  PROVE  /\ h \in Hash /\ waiting[n][h].pkt \in Packet
         /\ IsUnicastData(waiting[n][h].pkt) /\ getHash(waiting[n][h].pkt) = h
         /\ waiting[n][h].queued <=> waiting[n][h].pkt \in ToSet(outBuffer[n])
         /\ \A p \in ToSet(outBuffer[n]) :
              IsUnicastData(p) /\ getHash(p) = h => p = waiting[n][h].pkt
<1>1. EntryMatches(outBuffer[n], h, waiting[n][h])
  BY DEF IInv, QueuedOnce, QueueMatches, InWaiting
<1>2. IsPartial(waiting[n], Hash, Entry)
  BY DEF IInv, TypeOK, SenderTypeOK
<1>3. h \in Hash
  BY <1>2 DEF IsPartial, InWaiting
<1> QED  BY <1>1, <1>3 DEF EntryMatches, ToSet

\* Copies(n) holds one packet for each hash at most.
LEMMA CopiesMembers ==
  ASSUME IInv, NEW n \in Node
  PROVE  /\ \A p : p \in Copies(n) <=>
              /\ p \in Packet /\ IsUnicastData(p)
              /\ \/ p \in ToSet(outBuffer[n])
                 \/ InWaiting(n, getHash(p)) /\ waiting[n][getHash(p)].pkt = p
         /\ \A p, q \in Copies(n) : getHash(p) = getHash(q) => p = q
<1>1. ToSet(outBuffer[n]) \subseteq Packet
  BY Typed
<1>2. \A h : InWaiting(n, h) =>
        /\ waiting[n][h].pkt \in Packet /\ IsUnicastData(waiting[n][h].pkt)
        /\ getHash(waiting[n][h].pkt) = h
        /\ \A p \in ToSet(outBuffer[n]) :
             IsUnicastData(p) /\ getHash(p) = h => p = waiting[n][h].pkt
  BY WaitingEntries
<1>3. \A p : p \in Copies(n) <=>
         /\ p \in Packet /\ IsUnicastData(p)
         /\ \/ p \in ToSet(outBuffer[n])
            \/ InWaiting(n, getHash(p)) /\ waiting[n][getHash(p)].pkt = p
  BY <1>1, <1>2 DEF Copies, InWaiting
<1>4. \A p, q \in ToSet(outBuffer[n]) :
         IsUnicastData(p) /\ IsUnicastData(q) /\ getHash(p) = getHash(q) => p = q
  BY DEF IInv, QueuedOnce, QueueMatches, AtMostOnce, ToSet
<1>5. \A p, q \in Copies(n) : getHash(p) = getHash(q) => p = q
  BY <1>2, <1>3, <1>4
<1> QED  BY <1>3, <1>5

\* The hashes of a set of packets are finitely many.
LEMMA HashesFinite ==
  ASSUME NEW S \in SUBSET Packet
  PROVE  /\ Hashes(S) \in SUBSET Hash
         /\ IsFiniteSet(Hashes(S)) /\ Cardinality(Hashes(S)) \in Nat
         /\ \A T \in SUBSET S : Cardinality(Hashes(T)) <= Cardinality(Hashes(S))
<1>1. \A T \in SUBSET S : Hashes(T) \subseteq Hashes(S)
  BY DEF Hashes
<1>2. Hashes(S) \in SUBSET Hash
  BY DEF Hashes, getHash, Packet, Hash
<1>3. IsFiniteSet(Hashes(S)) /\ Cardinality(Hashes(S)) \in Nat
  BY <1>2, HashFinite, FS_Subset, FS_CardinalityType
<1>4. \A T \in SUBSET S : Cardinality(Hashes(T)) <= Cardinality(Hashes(S))
  BY <1>1, <1>3, FS_Subset
<1> QED  BY <1>2, <1>3, <1>4

-----------------------------------------------------------------------------
(* What every action leaves alone.                                         *)

\* The history of n only grows, and a message keeps what it was submitted with.
LogGrows(n) ==
  /\ DOMAIN log[n] \subseteq DOMAIN log'[n]
  /\ \A k \in DOMAIN log[n] :
       /\ log'[n][k].seq = log[n][k].seq /\ log'[n][k].dest = log[n][k].dest
       /\ log'[n][k].total = log[n][k].total

\* The buffers, counts and history of m are the same; no message more to read.
SenderSame(m) ==
  /\ outBuffer'[m] = outBuffer[m] /\ waiting'[m] = waiting[m]
  /\ waiting_for_ack'[m] = waiting_for_ack[m] /\ log'[m] = log[m]
ReceiverSame(m) ==
  /\ receive_buffer'[m] = receive_buffer[m]
  /\ ToSet(inBuffer'[m]) \subseteq ToSet(inBuffer[m])
  /\ got'[m] = got[m] /\ expired'[m] = expired[m]

\* A step of n that puts the packets of H on the air.
Local(n, H) ==
  /\ \A m \in Node \ {n} : SenderSame(m) /\ ReceiverSame(m)
  /\ H \subseteq ToSet(outBuffer[n])
  /\ ToSet(rx'[n]) \subseteq ToSet(rx[n])
  /\ \A m \in Node \ {n} : ToSet(rx'[m]) \subseteq ToSet(rx[m]) \cup H
  /\ LogGrows(n)
  /\ got[n] \subseteq got'[n]

\* n's own packets, counts and history are the same.
Steady(n) ==
  /\ Copies(n)' = Copies(n) /\ waiting_for_ack'[n] = waiting_for_ack[n]
  /\ log'[n] = log[n]

\* A node that does nothing as a sender is steady.
LEMMA SameIsSteady == ASSUME NEW n \in Node, SenderSame(n) PROVE Steady(n) /\ LogGrows(n)
  BY DEF SenderSame, Steady, Copies, LogGrows

\* A fragment stays one, an acknowledgement stays justified, and a number that is
\* unique now was unique before.
LEMMA FactsStay ==
  ASSUME IInv, NEW n \in Node, NEW H, Local(n, H)
  PROVE  /\ \A m \in Node : LogGrows(m) /\ got[m] \subseteq got'[m]
         /\ \A p \in Packet : IsPart(p) => IsPart(p)'
         /\ \A p \in Packet : p.destination \in Node /\ AckFor(p) => AckFor(p)'
         /\ NumbersUnique' => NumbersUnique
<1>1. \A m \in Node : LogGrows(m) /\ got[m] \subseteq got'[m]
  BY SameIsSteady DEF Local, ReceiverSame
<1>2. \A p \in Packet : p.source \in Node
  BY DEF Packet
<1>3. ASSUME NEW p \in Packet, IsPart(p) PROVE IsPart(p)'
  BY <1>1, <1>2, <1>3 DEF IsPart, LogGrows
<1>4. ASSUME NEW p \in Packet, p.destination \in Node, AckFor(p) PROVE AckFor(p)'
  <2>1. PICK k \in DOMAIN log[p.destination] :
          LET m == log[p.destination][k]
          IN /\ m.seq = p.seq_number /\ m.dest = p.source
             /\ p.frag \in FragsOf(m.total)
             /\ m.total = 1 => <<p.destination, k>> \in got[p.source]
    BY <1>4 DEF AckFor
  <2>2. LogGrows(p.destination) /\ got[p.source] \subseteq got'[p.source]
    BY <1>1, <1>2, <1>4
  <2>3. /\ k \in DOMAIN log'[p.destination]
        /\ log'[p.destination][k].seq = p.seq_number
        /\ log'[p.destination][k].dest = p.source
        /\ p.frag \in FragsOf(log'[p.destination][k].total)
        /\ log'[p.destination][k].total = 1 => <<p.destination, k>> \in got'[p.source]
    BY <2>1, <2>2 DEF LogGrows
  <2> QED  BY <2>3 DEF AckFor
<1>5. ASSUME NumbersUnique' PROVE NumbersUnique
  <2> SUFFICES ASSUME NEW m \in Node, NEW i \in DOMAIN log[m], NEW j \in DOMAIN log[m],
                      log[m][i].seq = log[m][j].seq
               PROVE  i = j
    BY DEF NumbersUnique
  <2>1. /\ i \in DOMAIN log'[m] /\ j \in DOMAIN log'[m]
        /\ log'[m][i].seq = log[m][i].seq /\ log'[m][j].seq = log[m][j].seq
    BY <1>1 DEF LogGrows
  <2>2. log'[m][i].seq = log'[m][j].seq
    BY <2>1
  <2> QED  BY <1>5, <2>1, <2>2 DEF NumbersUnique
<1> QED  BY <1>1, <1>3, <1>4, <1>5

\* The sending side keeps what the invariant says of its packets and counts.
LEMMA SteadyWell ==
  ASSUME NEW n \in Node, Steady(n)
  PROVE  /\ LogWell(n) => LogWell(n)'
         /\ CountsWell(n) => CountsWell(n)'
         /\ TimeoutsWell(n) => TimeoutsWell(n)'
<1>1. LogWell(n) => LogWell(n)'
  BY DEF Steady, LogWell
<1>2. CountsWell(n) => CountsWell(n)'
  BY DEF Steady, CountsWell, WithNumber
<1>3. TimeoutsWell(n) => TimeoutsWell(n)'
  BY DEF Steady, TimeoutsWell, OfMessage
<1> QED  BY <1>1, <1>2, <1>3

\* The packets of m are its own old ones, or new ones that are well formed; it
\* hears old ones, or ones that another node had queued.
LEMMA PacketsStep ==
  ASSUME IInv, IInv', General, NEW n \in Node, NEW H, Local(n, H), NEW m \in Node,
         \A p \in ToSet(outBuffer'[m]) :
           \/ p \in ToSet(outBuffer[m]) \/ p \in Copies(m)
           \/ /\ p.source = m
              /\ p.type = "data" => IsPart(p)'
              /\ p.type = "ack" => p.destination \in Node,
         \A p \in Copies(m)' :
           p \in Copies(m) \/ (p.source = m /\ IsPart(p)')
  PROVE  PacketsWell(m)'
<1>1. PacketsWell(m) /\ PacketsWell(n)
  BY DEF General
<1>2. \A p \in Packet : IsPart(p) => IsPart(p)'
  BY FactsStay
<1>3. /\ ToSet(outBuffer[m]) \subseteq Packet /\ ToSet(outBuffer[n]) \subseteq Packet
      /\ ToSet(rx[m]) \subseteq Packet /\ Copies(m) \subseteq Packet
      /\ \A p \in Copies(m) : IsUnicastData(p)
  BY Typed, CopiesMembers
<1>4. ASSUME NEW p \in ToSet(outBuffer'[m])
      PROVE  /\ p.source = m
             /\ p.type = "data" => IsPart(p)'
             /\ p.type = "ack" => p.destination \in Node
  <2>1. CASE p \in ToSet(outBuffer[m])
    BY <1>1, <1>2, <1>3, <2>1 DEF PacketsWell
  <2>2. CASE p \in Copies(m)
    BY <1>1, <1>2, <1>3, <2>2 DEF PacketsWell, IsUnicastData
  <2> QED  BY <1>4, <2>1, <2>2
<1>5. ASSUME NEW p \in Copies(m)' PROVE p.source = m /\ IsPart(p)'
  BY <1>1, <1>2, <1>3, <1>5 DEF PacketsWell
<1>6. ASSUME NEW p \in ToSet(rx'[m])
      PROVE  /\ p.source # m
             /\ p.type = "data" => IsPart(p)'
             /\ p.type = "ack" => p.destination \in Node
  <2>1. CASE p \in ToSet(rx[m])
    BY <1>1, <1>2, <1>3, <2>1 DEF PacketsWell
  <2>2. CASE m # n /\ p \in ToSet(outBuffer[n])
    BY <1>1, <1>2, <1>3, <2>2 DEF PacketsWell
  <2> QED  BY <1>6, <2>1, <2>2 DEF Local
<1> QED  BY <1>4, <1>5, <1>6 DEF PacketsWell

\* Messages handed over stay messages of the log.
LEMMA GotStays ==
  ASSUME IInv, NEW n \in Node, NEW H, Local(n, H), NEW m \in Node, GotWell(m),
         got'[m] = got[m]
  PROVE  GotWell(m)'
<1>1. \A l \in Node : LogGrows(l)
  BY FactsStay
<1>2. got[m] \subseteq Node \X Nat
  BY Typed
<1>3. ASSUME NEW g \in got'[m]
      PROVE  /\ g[1] # m /\ g[2] \in DOMAIN log'[g[1]]
             /\ log'[g[1]][g[2]].dest \in {m, Broadcast}
  <2>1. g \in got[m] /\ g[1] \in Node /\ LogGrows(g[1])
    BY <1>1, <1>2
  <2>2. g[1] # m /\ g[2] \in DOMAIN log[g[1]] /\ log[g[1]][g[2]].dest \in {m, Broadcast}
    BY <2>1 DEF GotWell
  <2> QED  BY <2>1, <2>2 DEF LogGrows
<1> QED  BY <1>3 DEF GotWell

\* The nodes that take no part in a step keep the first part of the invariant.
LEMMA OthersGeneral ==
  ASSUME IInv, IInv', General, NEW n \in Node, NEW H, Local(n, H), NEW m \in Node \ {n}
  PROVE  /\ LogWell(m)' /\ PacketsWell(m)' /\ CountsWell(m)' /\ TimeoutsWell(m)'
         /\ GotWell(m)'
<1>1. SenderSame(m) /\ ReceiverSame(m)
  BY DEF Local
<1>2. Steady(m)
  BY <1>1, SameIsSteady
<1>3. LogWell(m)' /\ CountsWell(m)' /\ TimeoutsWell(m)'
  BY <1>2, SteadyWell DEF General
<1>4. GotWell(m)'
  <2>1. GotWell(m) /\ got'[m] = got[m]
    BY <1>1 DEF General, ReceiverSame
  <2> QED  BY <2>1, GotStays
<1>5. PacketsWell(m)'
  <2>1. /\ \A p \in ToSet(outBuffer'[m]) : p \in ToSet(outBuffer[m])
        /\ \A p \in Copies(m)' : p \in Copies(m)
    BY <1>1, <1>2 DEF SenderSame, Steady
  <2> QED  BY <2>1, PacketsStep
<1> QED  BY <1>3, <1>4, <1>5

\* A new acknowledgement answers a packet that was under way.
AcksAnswer(n) == \A p \in ToSet(outBuffer'[n]) :
  p.type = "ack" => p \in ToSet(outBuffer[n]) \/ DataOnAir(p.destination, getHash(p))

\* What is under way after a step was under way before, or the step sent it.
LEMMA AirStep ==
  ASSUME IInv, General, NEW n \in Node, NEW H, Local(n, H), AcksAnswer(n),
         NEW m \in Node, NEW h, OnAir(m, h)'
  PROVE  OnAir(m, h) \/ (m = n /\ \E p \in H : IsUnicastData(p) /\ getHash(p) = h)
<1>1. \A l \in Node : \A p \in ToSet(rx'[l]) :
        p \in ToSet(rx[l]) \/ (p \in H /\ p \in ToSet(outBuffer[n]))
  BY DEF Local
<1>2. \A l \in Node : l # n => outBuffer'[l] = outBuffer[l]
  BY DEF Local, SenderSame
<1>3. CASE DataOnAir(m, h)'
  <2>1. PICK l \in Node : \E p \in ToSet(rx'[l]) :
          IsUnicastData(p) /\ p.source = m /\ getHash(p) = h
    BY <1>3 DEF DataOnAir
  <2>2. PICK p \in ToSet(rx'[l]) : IsUnicastData(p) /\ p.source = m /\ getHash(p) = h
    BY <2>1
  <2>3. CASE p \in ToSet(rx[l])
    BY <2>2, <2>3 DEF OnAir, DataOnAir
  <2>4. CASE p \in H /\ p \in ToSet(outBuffer[n])
    <3>1. p.source = n
      BY <2>4 DEF General, PacketsWell
    <3> QED  BY <2>2, <2>4, <3>1
  <2> QED  BY <1>1, <2>3, <2>4
<1>4. CASE AckOnAir(m, h)'
  <2>1. PICK l \in Node : \E p \in ToSet(rx'[l]) \cup ToSet(outBuffer'[l]) :
          p.type = "ack" /\ p.destination = m /\ getHash(p) = h
    BY <1>4 DEF AckOnAir
  <2>2. PICK p \in ToSet(rx'[l]) \cup ToSet(outBuffer'[l]) :
          p.type = "ack" /\ p.destination = m /\ getHash(p) = h
    BY <2>1
  <2>3. CASE p \in ToSet(rx[l]) \cup ToSet(outBuffer[l])
    BY <2>2, <2>3 DEF OnAir, AckOnAir
  <2>4. CASE p \in ToSet(outBuffer[n])
    BY <2>2, <2>4 DEF OnAir, AckOnAir
  <2>5. CASE p \in ToSet(outBuffer'[n]) /\ p \notin ToSet(outBuffer[n])
    BY <2>2, <2>5 DEF OnAir, AcksAnswer
  <2>6. CASE p \in ToSet(outBuffer'[l]) /\ l # n
    BY <1>2, <2>3, <2>6
  <2> QED  BY <1>1, <2>2, <2>3, <2>4, <2>5, <2>6
<1> QED  BY <1>3, <1>4 DEF OnAir

\* The receiving side keeps what the invariant says of its records and messages.
LEMMA ReceiverStays ==
  ASSUME IInv, General, NEW n \in Node, NEW H, Local(n, H), NEW m \in Node, ReceiverSame(m)
  PROVE  /\ RecordsWell(m) => RecordsWell(m)'
         /\ GotHeld(m) => GotHeld(m)'
         /\ WholeWell(m) => WholeWell(m)'
<1>1. \A l \in Node : LogGrows(l)
  BY FactsStay
<1>2. ASSUME RecordsWell(m) PROVE RecordsWell(m)'
  <2>1. ASSUME NEW key \in DOMAIN receive_buffer'[m]
        PROVE  \E k \in DOMAIN log'[key[1]] :
                 /\ log'[key[1]][k].seq = key[2]
                 /\ RecordOf(receive_buffer'[m][key], log'[key[1]][k].total, k,
                             <<key[1], k>> \in got'[m])
    <3>1. key \in DOMAIN receive_buffer[m] /\ receive_buffer'[m][key] = receive_buffer[m][key]
      BY DEF ReceiverSame
    <3>2. key[1] \in Node
      BY <3>1, Typed
    <3>3. PICK k \in DOMAIN log[key[1]] :
            /\ log[key[1]][k].seq = key[2]
            /\ RecordOf(receive_buffer[m][key], log[key[1]][k].total, k,
                        <<key[1], k>> \in got[m])
      BY <1>2, <3>1 DEF RecordsWell
    <3>4. /\ k \in DOMAIN log'[key[1]] /\ log'[key[1]][k].seq = key[2]
          /\ log'[key[1]][k].total = log[key[1]][k].total
      BY <1>1, <3>2, <3>3 DEF LogGrows
    <3>5. got'[m] = got[m]
      BY DEF ReceiverSame
    <3> QED  BY <3>1, <3>3, <3>4, <3>5
  <2> QED  BY <2>1 DEF RecordsWell
<1>3. ASSUME GotHeld(m) PROVE GotHeld(m)'
  <2>1. ASSUME NEW g \in got'[m] \ expired'[m]
        PROVE  /\ <<g[1], log'[g[1]][g[2]].seq>> \in DOMAIN receive_buffer'[m]
               /\ DOMAIN receive_buffer'[m][<<g[1], log'[g[1]][g[2]].seq>>].packets
                    = FragsOf(log'[g[1]][g[2]].total)
    <3>1. /\ g \in got[m] /\ g \in got[m] \ expired[m]
          /\ receive_buffer'[m] = receive_buffer[m]
      BY DEF ReceiverSame
    <3>2. g[1] \in Node /\ g[2] \in DOMAIN log[g[1]]
      BY <3>1, Typed DEF General, GotWell
    <3>3. /\ log'[g[1]][g[2]].seq = log[g[1]][g[2]].seq
          /\ log'[g[1]][g[2]].total = log[g[1]][g[2]].total
      BY <1>1, <3>2 DEF LogGrows
    <3> QED  BY <1>3, <3>1, <3>3 DEF GotHeld
  <2> QED  BY <2>1 DEF GotHeld
<1>4. ASSUME WholeWell(m) PROVE WholeWell(m)'
  <2>1. ASSUME NEW r \in ToSet(inBuffer'[m])
        PROVE  \E k \in DOMAIN log'[r.source] :
                 r.parts = [f \in FragsOf(log'[r.source][k].total) |-> k]
    <3>1. r \in ToSet(inBuffer[m])
      BY DEF ReceiverSame
    <3>2. r.source \in Node
      BY <3>1 DEF IInv, TypeOK, ReceiverTypeOK, IsMessage
    <3>3. PICK k \in DOMAIN log[r.source] :
            r.parts = [f \in FragsOf(log[r.source][k].total) |-> k]
      BY <1>4, <3>1 DEF WholeWell
    <3>4. k \in DOMAIN log'[r.source] /\ log'[r.source][k].total = log[r.source][k].total
      BY <1>1, <3>2, <3>3 DEF LogGrows
    <3> QED  BY <3>3, <3>4
  <2> QED  BY <2>1 DEF WholeWell
<1> QED  BY <1>2, <1>3, <1>4

\* Acknowledgements stay justified; a new one has to be.
LEMMA AcksStep ==
  ASSUME IInv, IInv', General, NEW n \in Node, NEW H, Local(n, H), NEW m \in Node,
         AcksWell(m), AcksWell(n),
         \A p \in ToSet(outBuffer'[m]) :
           p \in ToSet(outBuffer[m]) \/ (p.type = "ack" => AckFor(p)')
  PROVE  AcksWell(m)'
<1>1. \A p \in Packet : p.destination \in Node /\ AckFor(p) => AckFor(p)'
  BY FactsStay
<1>2. /\ ToSet(outBuffer[m]) \subseteq Packet /\ ToSet(outBuffer[n]) \subseteq Packet
      /\ ToSet(rx[m]) \subseteq Packet
  BY Typed
<1>3. \A p \in ToSet(outBuffer[m]) \cup ToSet(rx[m]) \cup ToSet(outBuffer[n]) :
         p.type = "ack" => p.destination \in Node /\ AckFor(p) /\ p \in Packet
  BY <1>2 DEF General, PacketsWell, AcksWell
<1>4. \A p \in ToSet(rx'[m]) : p \in ToSet(rx[m]) \/ p \in ToSet(outBuffer[n])
  BY DEF Local
<1>5. \A p \in ToSet(rx'[m]) : p.type = "ack" => AckFor(p)'
  BY <1>1, <1>3, <1>4
<1>6. \A p \in ToSet(outBuffer'[m]) : p.type = "ack" => AckFor(p)'
  BY <1>1, <1>3
<1> QED  BY <1>5, <1>6 DEF AcksWell

\* A message keeps its outcome while its sender does nothing about it.
LEMMA OutcomesStay ==
  ASSUME IInv, General, NEW n \in Node, NEW H, Local(n, H), NEW m \in Node,
         Steady(m), OutcomesWell(m)
  PROVE  OutcomesWell(m)'
<1>1. log'[m] = log[m] /\ Copies(m)' = Copies(m)
  BY DEF Steady
<1>2. ASSUME NEW k \in DOMAIN log[m], log[m][k].sent = 1, Delivered(m, k)
      PROVE  <<m, k>> \in got'[log[m][k].dest]
  <2>1. log[m][k].dest \in Node
    <3>1. log[m][k].dest # Broadcast
      BY <1>2 DEF General, LogWell
    <3>2. log[m][k] \in LogEntry
      BY Typed
    <3> QED  BY <3>1, <3>2 DEF LogEntry
  <2> QED  BY <1>2, <2>1, FactsStay DEF Delivered
<1> QED  BY <1>1, <1>2 DEF OutcomesWell, Delivered

\* A packet that m has not sent yet is not put under way by another node.
LEMMA AirStays ==
  ASSUME IInv, General, NEW n \in Node, NEW H, Local(n, H), AcksAnswer(n),
         NEW m \in Node, SenderSame(m), m # n \/ H = {}, AirWell(m)
  PROVE  AirWell(m)'
<1>1. ASSUME NEW h, OnAir(m, h)' PROVE OnAir(m, h)
  BY <1>1, AirStep
<1>2. outBuffer'[m] = outBuffer[m] /\ waiting'[m] = waiting[m]
  BY DEF SenderSame
<1>3. \A h : InWaiting(m, h)' <=> InWaiting(m, h)
  BY <1>2 DEF InWaiting
<1>4. ASSUME NEW p \in ToSet(outBuffer'[m]), IsUnicastData(p), ~InWaiting(m, getHash(p))'
      PROVE  ~OnAir(m, getHash(p))'
  BY <1>1, <1>2, <1>3, <1>4 DEF AirWell
<1> QED  BY <1>4 DEF AirWell

\* The nodes that take no part in a step keep the second part of the invariant.
LEMMA OthersUnique ==
  ASSUME IInv, IInv', General, WhileUnique, NEW n \in Node, NEW H, Local(n, H),
         AcksAnswer(n), NEW m \in Node \ {n}
  PROVE  /\ AcksWell(m)' /\ AirWell(m)' /\ OutcomesWell(m)'
         /\ RecordsWell(m)' /\ GotHeld(m)' /\ WholeWell(m)'
<1>1. SenderSame(m) /\ ReceiverSame(m)
  BY DEF Local
<1>2. /\ AcksWell(m) /\ AcksWell(n) /\ AirWell(m) /\ OutcomesWell(m)
      /\ RecordsWell(m) /\ GotHeld(m) /\ WholeWell(m)
  BY DEF WhileUnique
<1>3. AcksWell(m)'
  <2>1. \A p \in ToSet(outBuffer'[m]) : p \in ToSet(outBuffer[m])
    BY <1>1 DEF SenderSame
  <2> QED  BY <1>2, <2>1, AcksStep
<1>4. AirWell(m)'
  BY <1>1, <1>2, AirStays
<1>5. OutcomesWell(m)'
  BY <1>1, <1>2, SameIsSteady, OutcomesStay
<1>6. RecordsWell(m)' /\ GotHeld(m)' /\ WholeWell(m)'
  BY <1>1, <1>2, ReceiverStays
<1> QED  BY <1>3, <1>4, <1>5, <1>6

\* A step preserves the invariant if the acting node keeps its own conjuncts.
LEMMA Combine ==
  ASSUME IInv, IInv', DInv, NEW n \in Node, NEW H, Local(n, H), AcksAnswer(n),
         LogWell(n)', PacketsWell(n)', CountsWell(n)', TimeoutsWell(n)', GotWell(n)',
         NumbersUnique' /\ NumbersUnique /\ WhileUnique =>
           /\ AcksWell(n)' /\ AirWell(n)' /\ OutcomesWell(n)'
           /\ RecordsWell(n)' /\ GotHeld(n)' /\ WholeWell(n)'
  PROVE  DInv'
<1>1. General
  BY DEF DInv
<1>2. General'
  <2>1. \A m \in Node \ {n} :
          LogWell(m)' /\ PacketsWell(m)' /\ CountsWell(m)' /\ TimeoutsWell(m)' /\ GotWell(m)'
    BY <1>1, OthersGeneral
  <2> QED  BY <2>1 DEF General
<1>3. ASSUME NumbersUnique' PROVE WhileUnique'
  <2>1. NumbersUnique /\ WhileUnique
    BY <1>3, FactsStay DEF DInv
  <2>2. \A m \in Node \ {n} :
          /\ AcksWell(m)' /\ AirWell(m)' /\ OutcomesWell(m)'
          /\ RecordsWell(m)' /\ GotHeld(m)' /\ WholeWell(m)'
    BY <1>1, <2>1, OthersUnique
  <2> QED  BY <1>3, <2>1, <2>2 DEF WhileUnique
<1> QED  BY <1>2, <1>3 DEF DInv

\* The fragment numbers of a message.
LEMMA FragsOfProperties ==
  ASSUME NEW total \in 1 .. MaxFrag
  PROVE  /\ total \in Nat /\ total # 0 /\ total <= MaxFrag
         /\ IsFiniteSet(FragsOf(total)) /\ Cardinality(FragsOf(total)) = total
         /\ FragsOf(total) \subseteq Nat
         /\ LastFrag(total) \in FragsOf(total)
<1>1. total \in Nat /\ total # 0 /\ total <= MaxFrag
  BY BoundAssumption
<1>2. CASE total = 1
  <2>1. FragsOf(total) = {0} /\ LastFrag(total) = 0
    BY <1>2 DEF FragsOf, LastFrag
  <2>2. IsFiniteSet({0}) /\ Cardinality({0}) = 1
    BY FS_Singleton
  <2> QED  BY <1>1, <1>2, <2>1, <2>2
<1>3. CASE total # 1
  <2>1. IsFiniteSet(1 .. total) /\ Cardinality(1 .. total) = total
    BY <1>1, FS_Interval
  <2> QED  BY <1>1, <1>3, <2>1 DEF FragsOf, LastFrag
<1> QED  BY <1>1, <1>2, <1>3

\* The hashes that the fragments of a message have.
LEMMA FragmentHashes ==
  ASSUME NEW total \in 1 .. MaxFrag, NEW s
  PROVE  IsFiniteSet(FragsOf(total) \X {s}) /\ Cardinality(FragsOf(total) \X {s}) = total
<1>1. IsFiniteSet({s}) /\ Cardinality({s}) = 1
  BY FS_Singleton
<1>2. Cardinality(FragsOf(total) \X {s}) = total
  <2> DEFINE F == FragsOf(total)
             T == {s}
  <2>1. IsFiniteSet(F) /\ Cardinality(F) = total /\ total \in Nat
    BY FragsOfProperties
  <2>2. IsFiniteSet(T) /\ Cardinality(T) = 1
    BY <1>1
  <2> HIDE DEF F, T
  <2>3. Cardinality(F \X T) = Cardinality(F) * Cardinality(T)
    BY <2>1, <2>2, FS_Product
  <2>4. Cardinality(F \X T) = total
    BY <2>1, <2>2, <2>3
  <2> QED  BY <2>4 DEF F, T
<1>3. IsFiniteSet(FragsOf(total) \X {s})
  BY <1>1, FragsOfProperties, FS_Product
<1> QED  BY <1>2, <1>3, FragsOfProperties

\* p is a fragment of the message of n that is submitted as number msg.
FragmentOf(p, n, dest, total, msg) ==
  /\ p.type = "data" /\ p.source = n /\ p.destination = dest
  /\ p.seq_number = seq_number[n] /\ p.msg = msg
  /\ p.frag \in FragsOf(total)
  /\ p.control = "last" <=> p.frag = LastFrag(total)

Covers(F, total) == \A f \in FragsOf(total) : \E p \in F : p.frag = f

\* The packets that send puts into the queue.
LEMMA FragmentSet ==
  ASSUME IInv, NEW n \in Node, NEW dest \in Node \cup {Broadcast},
         NEW total \in 1 .. MaxFrag, NEW msg \in Nat
  PROVE  LET F == ToSet(PrepareFragments(n, dest, total, msg))
         IN /\ PrepareFragments(n, dest, total, msg) \in Seq(Packet)
            /\ F \subseteq Packet
            /\ \A p \in F : FragmentOf(p, n, dest, total, msg)
            /\ Covers(F, total)
<1> DEFINE r == PrepareFragments(n, dest, total, msg)
<1>1. r \in Seq(Packet)
  BY FragmentsProperties DEF IInv
<1>2. /\ DOMAIN r = 1 .. total
      /\ \A i \in 1 .. total :
           r[i] = [type |-> "data", destination |-> dest, source |-> n,
                   frag |-> IF total = 1 THEN 0 ELSE i, seq_number |-> seq_number[n],
                   control |-> IF i = total THEN "last" ELSE "more", msg |-> msg]
  BY DEF PrepareFragments
<1> HIDE DEF r
<1>3. ToSet(r) \subseteq Packet
  BY <1>1, QueueSets
<1>4. ASSUME NEW i \in DOMAIN r
      PROVE  /\ r[i].type = "data" /\ r[i].source = n /\ r[i].destination = dest
             /\ r[i].seq_number = seq_number[n] /\ r[i].msg = msg
             /\ r[i].frag \in FragsOf(total)
             /\ r[i].control = "last" <=> r[i].frag = LastFrag(total)
  <2>1. i \in 1 .. total /\ i \in Nat
    BY <1>2
  <2>2. /\ r[i].frag = (IF total = 1 THEN 0 ELSE i)
        /\ r[i].control = (IF i = total THEN "last" ELSE "more")
    BY <1>2, <2>1
  <2>3. CASE total = 1
    <3>1. /\ i = 1 /\ r[i].frag = 0 /\ r[i].control = "last"
          /\ FragsOf(total) = {0} /\ LastFrag(total) = 0
      BY <2>1, <2>2, <2>3 DEF FragsOf, LastFrag
    <3> QED  BY <1>2, <2>1, <3>1
  <2>4. CASE total # 1
    <3>1. /\ r[i].frag = i /\ (r[i].control = "last" <=> i = total)
          /\ FragsOf(total) = 1 .. total /\ LastFrag(total) = total
      BY <2>2, <2>4 DEF FragsOf, LastFrag
    <3> QED  BY <1>2, <2>1, <3>1
  <2> QED  BY <2>3, <2>4
<1>5. ASSUME NEW f \in FragsOf(total) PROVE \E i \in DOMAIN r : r[i].frag = f
  <2>1. CASE total = 1
    <3>1. f = 0 /\ 1 \in 1 .. total
      BY <1>5, <2>1 DEF FragsOf
    <3> QED  BY <1>2, <2>1, <3>1
  <2>2. CASE total # 1
    <3>1. f \in 1 .. total
      BY <1>5, <2>2 DEF FragsOf
    <3> QED  BY <1>2, <2>2, <3>1
  <2> QED  BY <2>1, <2>2
<1>6. \A p \in ToSet(r) : \E i \in DOMAIN r : p = r[i]
  BY DEF ToSet
<1>7. \A i \in DOMAIN r : r[i] \in ToSet(r)
  BY DEF ToSet
<1>8. Covers(ToSet(r), total)
  BY <1>5, <1>7 DEF Covers
<1>9. \A p \in ToSet(r) : FragmentOf(p, n, dest, total, msg)
  BY <1>4, <1>6 DEF FragmentOf
<1> QED  BY <1>1, <1>3, <1>8, <1>9 DEF r

-----------------------------------------------------------------------------
(* send.                                                                   *)

\* What send does: the fragments F of a new message join the queue.
SendEffect(n, dest, total, F) ==
  LET k == Len(log[n]) + 1
      s == seq_number[n]
  IN /\ Local(n, {}) /\ ReceiverSame(n)
     /\ waiting'[n] = waiting[n]
     /\ ToSet(outBuffer'[n]) = ToSet(outBuffer[n]) \cup F
     /\ Copies(n)' = Copies(n) \cup (IF dest = Broadcast THEN {} ELSE F)
     /\ log'[n] = Append(log[n], [dest |-> dest, total |-> total, seq |-> s,
                                  sent |-> 0, timeouts |-> 0])
     /\ waiting_for_ack'[n] =
          IF dest = Broadcast THEN waiting_for_ack[n]
          ELSE Put(waiting_for_ack[n], s, [total |-> total, received |-> 0, msg |-> k])
     /\ F \subseteq Packet
     /\ \A p \in F : FragmentOf(p, n, dest, total, k)
     /\ Covers(F, total)

\* Every step of send has that effect.
LEMMA SendEffects ==
  ASSUME IInv, IInv', NEW n \in Node, Send(n)
  PROVE  \E dest \in (Node \ {n}) \cup {Broadcast}, total \in 1 .. MaxFrag :
           \E F : SendEffect(n, dest, total, F)
<1>1. PICK dest \in (Node \ {n}) \cup {Broadcast}, total \in 1 .. MaxFrag :
        /\ Enqueue(n, PrepareFragments(n, dest, total, Len(log[n]) + 1))
        /\ waiting_for_ack' = [waiting_for_ack EXCEPT ![n] =
             IF dest = Broadcast THEN @
             ELSE Put(@, seq_number[n], [total |-> total, received |-> 0,
                                         msg |-> Len(log[n]) + 1])]
        /\ log' = [log EXCEPT ![n] = Append(@,
             [dest |-> dest, total |-> total, seq |-> seq_number[n],
              sent |-> 0, timeouts |-> 0])]
  BY DEF Send
<1>2. UNCHANGED <<waiting, recvVars, rx>>
  BY DEF Send
<1> DEFINE r == PrepareFragments(n, dest, total, Len(log[n]) + 1)
           F == ToSet(r)
           k == Len(log[n]) + 1
           e == [dest |-> dest, total |-> total, seq |-> seq_number[n],
                 sent |-> 0, timeouts |-> 0]
<1>3. /\ k \in Nat /\ dest \in Node \cup {Broadcast} /\ log[n] \in Seq(LogEntry)
      /\ outBuffer \in [Node -> Seq(Packet)] /\ outBuffer[n] \in Seq(Packet)
      /\ DOMAIN waiting_for_ack = Node /\ log \in [Node -> Seq(LogEntry)]
  BY Typed
<1>4. /\ r \in Seq(Packet) /\ F \subseteq Packet
      /\ \A p \in F : FragmentOf(p, n, dest, total, k)
      /\ Covers(F, total)
  <2> HIDE DEF r, F, k
  <2>1. /\ PrepareFragments(n, dest, total, k) \in Seq(Packet)
        /\ ToSet(PrepareFragments(n, dest, total, k)) \subseteq Packet
        /\ \A p \in ToSet(PrepareFragments(n, dest, total, k)) :
             FragmentOf(p, n, dest, total, k)
        /\ Covers(ToSet(PrepareFragments(n, dest, total, k)), total)
    BY <1>3, FragmentSet
  <2> QED  BY <2>1 DEF F, r, k
<1>5. outBuffer' = [outBuffer EXCEPT ![n] = @ \o r]
  BY <1>1 DEF Enqueue
<1> HIDE DEF r
<1>6. ToSet(outBuffer'[n]) = ToSet(outBuffer[n]) \cup F
  BY <1>3, <1>4, <1>5, QueueSets
<1> HIDE DEF F
<1>7. Copies(n)' = Copies(n) \cup (IF dest = Broadcast THEN {} ELSE F)
  <2>1. \A p \in F : IsUnicastData(p) <=> dest # Broadcast
    BY <1>4 DEF IsUnicastData, FragmentOf
  <2>2. waiting' = waiting
    BY <1>2
  <2> QED  BY <1>6, <2>1, <2>2 DEF Copies
<1>8. \A m \in Node \ {n} : SenderSame(m)
  BY <1>1, <1>2, <1>3, <1>5 DEF SenderSame
<1>9. \A m \in Node : ReceiverSame(m)
  BY <1>2 DEF ReceiverSame, recvVars
<1>10. log' = [log EXCEPT ![n] = Append(@, e)]
  BY <1>1
<1>11. LogGrows(n)
  <2>1. log'[n] = Append(log[n], e) /\ e \in LogEntry
    <3>1. total \in Nat /\ seq_number[n] \in SeqNumber
      BY FragsOfProperties, Typed
    <3> QED  BY <1>3, <1>10, <3>1 DEF LogEntry
  <2> HIDE DEF e
  <2>2. /\ DOMAIN Append(log[n], e) = 1 .. Len(log[n]) + 1
        /\ \A i \in 1 .. Len(log[n]) : Append(log[n], e)[i] = log[n][i]
    BY <1>3, <2>1, AppendProperties, LenProperties
  <2> QED  BY <1>3, <2>1, <2>2, LenProperties DEF LogGrows
<1>12. Local(n, {})
  BY <1>2, <1>8, <1>9, <1>11 DEF Local, ReceiverSame
<1>13. /\ log'[n] = Append(log[n], e) /\ waiting'[n] = waiting[n]
       /\ waiting_for_ack'[n] =
            IF dest = Broadcast THEN waiting_for_ack[n]
            ELSE Put(waiting_for_ack[n], seq_number[n],
                     [total |-> total, received |-> 0, msg |-> k])
  BY <1>1, <1>2, <1>3
<1>14. SendEffect(n, dest, total, F)
  BY <1>4, <1>6, <1>7, <1>9, <1>12, <1>13 DEF SendEffect
<1> QED  BY <1>14

\* The entry of the log that send appends.
LEMMA SendLog ==
  ASSUME IInv, NEW n \in Node, NEW dest, NEW total, NEW F, SendEffect(n, dest, total, F)
  PROVE  LET k == Len(log[n]) + 1
         IN /\ DOMAIN log'[n] = DOMAIN log[n] \cup {k}
            /\ k \notin DOMAIN log[n] /\ k \in Nat
            /\ \A i \in DOMAIN log[n] : log'[n][i] = log[n][i]
            /\ log'[n][k] = [dest |-> dest, total |-> total, seq |-> seq_number[n],
                             sent |-> 0, timeouts |-> 0]
<1> DEFINE e == [dest |-> dest, total |-> total, seq |-> seq_number[n],
                 sent |-> 0, timeouts |-> 0]
           k == Len(log[n]) + 1
<1>1. log'[n] = Append(log[n], e)
  BY DEF SendEffect
<1>2. log[n] \in Seq(LogEntry) /\ Len(log[n]) \in Nat /\ DOMAIN log[n] = 1 .. Len(log[n])
  BY Typed
<1> HIDE DEF e
<1>3. log[n] \in Seq(LogEntry \cup {e})
  BY <1>2, SeqMonotonic
<1>4. /\ DOMAIN log'[n] = 1 .. Len(log[n]) + 1
      /\ \A i \in 1 .. Len(log[n]) : log'[n][i] = log[n][i]
      /\ log'[n][Len(log[n]) + 1] = e
  BY <1>1, <1>3, AppendProperties, LenProperties
<1>5. /\ DOMAIN log'[n] = DOMAIN log[n] \cup {k}
      /\ k \notin DOMAIN log[n] /\ k \in Nat
      /\ \A i \in DOMAIN log[n] : log'[n][i] = log[n][i]
  BY <1>2, <1>4
<1>6. log'[n][k] = e
  BY <1>4
<1> QED  BY <1>5, <1>6 DEF e

\* The new fragments are counted, and none of them is under way.
LEMMA SendDelivery ==
  ASSUME IInv, IInv', DInv, NEW n \in Node, Send(n)
  PROVE  DInv'
<1>1. PICK dest \in (Node \ {n}) \cup {Broadcast}, total \in 1 .. MaxFrag :
        \E F : SendEffect(n, dest, total, F)
  BY SendEffects
<1>2. PICK F : SendEffect(n, dest, total, F)
  BY <1>1
<1>a. PICK k \in Nat : k = Len(log[n]) + 1
  BY Typed
<1>b. PICK s \in SeqNumber : s = seq_number[n]
  BY Typed
<1>3. /\ Local(n, {}) /\ ReceiverSame(n) /\ waiting'[n] = waiting[n]
      /\ ToSet(outBuffer'[n]) = ToSet(outBuffer[n]) \cup F
      /\ Copies(n)' = Copies(n) \cup (IF dest = Broadcast THEN {} ELSE F)
      /\ waiting_for_ack'[n] =
           IF dest = Broadcast THEN waiting_for_ack[n]
           ELSE Put(waiting_for_ack[n], s, [total |-> total, received |-> 0, msg |-> k])
      /\ F \subseteq Packet /\ Covers(F, total)
      /\ \A p \in F : FragmentOf(p, n, dest, total, k)
  BY <1>2, <1>a, <1>b DEF SendEffect
<1>4. /\ DOMAIN log'[n] = DOMAIN log[n] \cup {k}
      /\ k \notin DOMAIN log[n] /\ k \in Nat
      /\ \A i \in DOMAIN log[n] : log'[n][i] = log[n][i]
      /\ log'[n][k] = [dest |-> dest, total |-> total, seq |-> s,
                       sent |-> 0, timeouts |-> 0]
  BY <1>2, <1>a, <1>b, SendLog
<1>5. /\ General /\ LogWell(n) /\ PacketsWell(n) /\ CountsWell(n) /\ TimeoutsWell(n)
      /\ GotWell(n)
  BY DEF DInv, General
<1>6. /\ total \in Nat /\ total # 0 /\ dest # n
      /\ IsFiniteSet(FragsOf(total)) /\ Cardinality(FragsOf(total)) = total
  BY FragsOfProperties, NodeAssumption
<1>7. Copies(n) \subseteq Packet /\ Copies(n)' \subseteq Packet
  BY CopiesMembers, <1>3
<1>8. AcksAnswer(n)
  BY <1>3 DEF AcksAnswer, FragmentOf
<1>9. LogWell(n)'
  BY <1>4, <1>5, <1>6 DEF LogWell
<1>10. \A p \in F : p.source = n /\ p.type = "data" /\ p.seq_number = s /\ p.msg = k /\ IsPart(p)'
  BY <1>3, <1>4, <1>b DEF FragmentOf, IsPart
<1>11. PacketsWell(n)'
  <2>1. \A p \in ToSet(outBuffer'[n]) :
          p \in ToSet(outBuffer[n]) \/ (p.source = n /\ p.type = "data" /\ IsPart(p)')
    BY <1>3, <1>10
  <2>2. \A p \in Copies(n)' : p \in Copies(n) \/ (p.source = n /\ IsPart(p)')
    BY <1>3, <1>10
  <2> QED  BY <1>3, <1>5, <2>1, <2>2, PacketsStep
<1>12. CountsWell(n)'
  <2>1. ASSUME NEW t \in DOMAIN waiting_for_ack[n], dest = Broadcast \/ t # s
        PROVE  LET c == waiting_for_ack[n][t]
                   m == log'[n][c.msg]
               IN /\ c.msg \in DOMAIN log'[n]
                  /\ m.seq = t /\ m.total = c.total /\ m.dest # Broadcast
                  /\ m.sent = 0 /\ m.timeouts = 0
                  /\ c.received < c.total
                  /\ c.total <= c.received + Cardinality(WithNumber(n, t)')
    <3> DEFINE c == waiting_for_ack[n][t]
               C == Cardinality(WithNumber(n, t))
               D == Cardinality(WithNumber(n, t)')
    <3>1. /\ c.msg \in DOMAIN log[n]
          /\ log[n][c.msg].seq = t /\ log[n][c.msg].total = c.total
          /\ log[n][c.msg].dest # Broadcast
          /\ log[n][c.msg].sent = 0 /\ log[n][c.msg].timeouts = 0
          /\ c.received < c.total
          /\ c.total <= c.received + C
      BY <1>5 DEF CountsWell
    <3>2. C <= D /\ C \in Nat /\ D \in Nat
      <4> DEFINE S == {p \in Copies(n) : p.seq_number = t}
                 T == {p \in Copies(n)' : p.seq_number = t}
      <4>1. S \in SUBSET T /\ T \in SUBSET Packet /\ S \in SUBSET Packet
        BY <1>3, <1>7
      <4>2. WithNumber(n, t) = Hashes(S) /\ WithNumber(n, t)' = Hashes(T)
        BY DEF WithNumber, Hashes, getHash
      <4> HIDE DEF S, T
      <4> QED  BY <4>1, <4>2, HashesFinite
    <3>3. c \in Count
      BY Typed
    <3> HIDE DEF C, D
    <3>4. c.total <= c.received + D
      BY <3>1, <3>2, <3>3 DEF Count
    <3> QED  BY <1>4, <3>1, <3>4 DEF D
  <2>2. ASSUME dest # Broadcast
        PROVE  /\ 0 < total
               /\ total <= 0 + Cardinality(WithNumber(n, s)')
    <3> DEFINE T == {p \in Copies(n)' : p.seq_number = s}
               W == WithNumber(n, s)'
    <3>1. T \in SUBSET Packet
      BY <1>7
    <3>2. W = Hashes(T)
      BY DEF WithNumber, Hashes, getHash
    <3>3. IsFiniteSet(W) /\ Cardinality(W) \in Nat
      <4> HIDE DEF T, W
      <4> QED  BY <3>1, <3>2, HashesFinite
    <3>4. FragsOf(total) \X {s} \in SUBSET W
      <4>1. \A p \in F : getHash(p) = <<p.frag, s>>
        BY <1>10 DEF getHash
      <4>2. \A p \in F : p \in T
        BY <1>3, <1>10, <2>2
      <4>3. \A p \in F : <<p.frag, s>> \in Hashes(T)
        BY <4>1, <4>2 DEF Hashes
      <4>4. \A f \in FragsOf(total) : <<f, s>> \in W
        BY <1>3, <3>2, <4>3 DEF Covers
      <4> QED  BY <4>4
    <3> HIDE DEF T, W
    <3>5. total <= Cardinality(W)
      <4>1. Cardinality(FragsOf(total) \X {s}) = total
        BY FragmentHashes
      <4> QED  BY <3>3, <3>4, <4>1, FS_Subset
    <3> QED  BY <1>6, <3>3, <3>5 DEF W
  <2>3. CASE dest = Broadcast
    <3>1. waiting_for_ack'[n] = waiting_for_ack[n]
      BY <1>3, <2>3
    <3> QED  BY <2>1, <2>3, <3>1 DEF CountsWell
  <2>4. CASE dest # Broadcast
    <3> DEFINE e == [total |-> total, received |-> 0, msg |-> k]
    <3>1. waiting_for_ack'[n] = Put(waiting_for_ack[n], s, e)
      BY <1>3, <2>4
    <3>2. /\ DOMAIN waiting_for_ack'[n] = DOMAIN waiting_for_ack[n] \cup {s}
          /\ \A t \in DOMAIN waiting_for_ack'[n] :
               waiting_for_ack'[n][t] = IF t = s THEN e ELSE waiting_for_ack[n][t]
      BY <3>1 DEF Put
    <3>3. ASSUME NEW t \in DOMAIN waiting_for_ack'[n]
          PROVE  LET c == waiting_for_ack'[n][t]
                     m == log'[n][c.msg]
                 IN /\ c.msg \in DOMAIN log'[n]
                    /\ m.seq = t /\ m.total = c.total /\ m.dest # Broadcast
                    /\ m.sent = 0 /\ m.timeouts = 0
                    /\ c.received < c.total
                    /\ c.total <= c.received + Cardinality(WithNumber(n, t)')
      <4>1. CASE t = s
        BY <1>4, <2>2, <2>4, <3>2, <4>1
      <4>2. CASE t # s
        <5>1. /\ t \in DOMAIN waiting_for_ack[n]
              /\ waiting_for_ack'[n][t] = waiting_for_ack[n][t]
          BY <3>2, <4>2
        <5> QED  BY <2>1, <4>2, <5>1
      <4> QED  BY <4>1, <4>2
    <3> QED  BY <3>3 DEF CountsWell
  <2> QED  BY <2>3, <2>4
<1>13. TimeoutsWell(n)'
  <2>1. ASSUME NEW i \in DOMAIN log[n]
        PROVE  log'[n][i].timeouts + Cardinality(OfMessage(n, i)') <= log'[n][i].total
    <3>1. i # k
      BY <1>4
    <3>2. {p \in Copies(n)' : p.msg = i} = {p \in Copies(n) : p.msg = i}
      BY <1>3, <1>10, <3>1
    <3>3. OfMessage(n, i)' = OfMessage(n, i)
      BY <3>2 DEF OfMessage, Hashes, getHash
    <3> QED  BY <1>4, <1>5, <3>3 DEF TimeoutsWell
  <2>2. log'[n][k].timeouts + Cardinality(OfMessage(n, k)') <= log'[n][k].total
    <3> DEFINE W == OfMessage(n, k)'
    <3>1. \A p \in Copies(n) : p.msg # k
      BY <1>4, <1>5 DEF PacketsWell, IsPart
    <3>2. \A p \in Copies(n)' : p.msg = k => p \in F
      BY <1>3, <3>1
    <3>3. \A p \in F : getHash(p) \in FragsOf(total) \X {s}
      BY <1>3, <1>b DEF FragmentOf, getHash
    <3>4. W \in SUBSET (FragsOf(total) \X {s})
      BY <3>2, <3>3 DEF OfMessage, Hashes, getHash
    <3> HIDE DEF W
    <3>5. Cardinality(W) \in Nat /\ Cardinality(W) <= total
      <4>1. /\ IsFiniteSet(FragsOf(total) \X {s})
            /\ Cardinality(FragsOf(total) \X {s}) = total
        BY FragmentHashes
      <4> QED  BY <3>4, <4>1, FS_Subset, FS_CardinalityType
    <3> QED  BY <1>4, <1>6, <3>5 DEF W
  <2> QED  BY <1>4, <2>1, <2>2 DEF TimeoutsWell
<1>14. GotWell(n)'
  BY <1>3, <1>5, GotStays DEF ReceiverSame
<1>15. ASSUME NumbersUnique', NumbersUnique, WhileUnique
       PROVE  /\ AcksWell(n)' /\ AirWell(n)' /\ OutcomesWell(n)'
              /\ RecordsWell(n)' /\ GotHeld(n)' /\ WholeWell(n)'
  <2>1. /\ AcksWell(n) /\ AirWell(n) /\ OutcomesWell(n)
        /\ RecordsWell(n) /\ GotHeld(n) /\ WholeWell(n)
    BY <1>15 DEF WhileUnique
  <2>2. AcksWell(n)'
    <3>1. \A p \in ToSet(outBuffer'[n]) :
            p \in ToSet(outBuffer[n]) \/ (p.type = "ack" => AckFor(p)')
      BY <1>3, <1>10
    <3> QED  BY <1>3, <1>5, <2>1, <3>1, AcksStep
  <2>3. RecordsWell(n)' /\ GotHeld(n)' /\ WholeWell(n)'
    BY <1>3, <1>5, <2>1, ReceiverStays
  <2>4. OutcomesWell(n)'
    <3>1. ASSUME NEW i \in DOMAIN log[n], log[n][i].total = 1
          PROVE  /\ log[n][i].sent + log[n][i].timeouts <= 1
                 /\ log[n][i].sent = 1 => <<n, i>> \in got'[log[n][i].dest]
                 /\ log[n][i].sent + log[n][i].timeouts > 0 =>
                      \A p \in Copies(n)' : p.msg # i
      <4>1. i # k
        BY <1>4
      <4>2. \A p \in Copies(n)' : p.msg = i => p \in Copies(n)
        BY <1>3, <1>10, <4>1
      <4>3. log[n][i].sent = 1 => log[n][i].dest \in Node
        <5>1. log[n][i] \in LogEntry
          BY Typed
        <5> QED  BY <1>5, <5>1 DEF LogWell, LogEntry
      <4>4. log[n][i].sent = 1 => <<n, i>> \in got'[log[n][i].dest]
        BY <1>3, <2>1, <3>1, <4>3, FactsStay DEF OutcomesWell, Delivered
      <4> QED  BY <2>1, <3>1, <4>2, <4>4 DEF OutcomesWell
    <3>2. log'[n][k].sent = 0 /\ log'[n][k].timeouts = 0
      BY <1>4
    <3>3. \A i \in DOMAIN log'[n] : i = k \/ (i \in DOMAIN log[n] /\ log'[n][i] = log[n][i])
      BY <1>4
    <3>4. ASSUME NEW i \in DOMAIN log'[n], log'[n][i].total = 1
          PROVE  /\ log'[n][i].sent + log'[n][i].timeouts <= 1
                 /\ log'[n][i].sent = 1 => <<n, i>> \in got'[log'[n][i].dest]
                 /\ log'[n][i].sent + log'[n][i].timeouts > 0 =>
                      \A p \in Copies(n)' : p.msg # i
      BY <3>1, <3>2, <3>3, <3>4
    <3> QED  BY <3>4 DEF OutcomesWell, Delivered
  <2>5. AirWell(n)'
    <3>1. \A h : OnAir(n, h)' => OnAir(n, h)
      BY <1>3, <1>5, <1>8, AirStep
    <3>2. \A h : InWaiting(n, h)' <=> InWaiting(n, h)
      BY <1>3 DEF InWaiting
    <3>3. ASSUME NEW h, h[2] = s PROVE ~OnAir(n, h)
      <4>1. ASSUME NEW i \in DOMAIN log[n] PROVE log[n][i].seq # s
        BY <1>4, <1>15, <4>1 DEF NumbersUnique
      <4>2. ASSUME NEW m \in Node, NEW p \in ToSet(rx[m]), IsUnicastData(p), p.source = n,
                   getHash(p) = h
            PROVE  FALSE
        <5>1. IsPart(p)
          BY <1>5, <4>2 DEF General, PacketsWell, IsUnicastData
        <5> QED  BY <3>3, <4>1, <4>2, <5>1 DEF IsPart, getHash
      <4>3. ASSUME NEW m \in Node, NEW p \in ToSet(rx[m]) \cup ToSet(outBuffer[m]),
                   p.type = "ack", p.destination = n, getHash(p) = h
            PROVE  FALSE
        <5>1. AckFor(p)
          BY <1>15, <4>3 DEF WhileUnique, AcksWell
        <5> QED  BY <3>3, <4>1, <4>3, <5>1 DEF AckFor, getHash
      <4> QED  BY <4>2, <4>3 DEF OnAir, DataOnAir, AckOnAir
    <3>4. ASSUME NEW p \in ToSet(outBuffer'[n]), IsUnicastData(p),
                 ~InWaiting(n, getHash(p))'
          PROVE  ~OnAir(n, getHash(p))'
      <4>1. CASE p \in ToSet(outBuffer[n])
        BY <2>1, <3>1, <3>2, <3>4, <4>1 DEF AirWell
      <4>2. CASE p \in F
        <5>1. getHash(p)[2] = s
          BY <1>10, <4>2 DEF getHash
        <5> QED  BY <3>1, <3>3, <5>1
      <4> QED  BY <1>3, <3>4, <4>1, <4>2
    <3> QED  BY <3>4 DEF AirWell
  <2> QED  BY <2>2, <2>3, <2>4, <2>5
<1> QED  BY <1>3, <1>8, <1>9, <1>11, <1>12, <1>13, <1>14, <1>15, Combine

-----------------------------------------------------------------------------
(* send_to_radio.                                                          *)

\* The head of the queue moves to waiting, or is deleted.
LEMMA SendToRadioEffects ==
  ASSUME IInv, NEW n \in Node, SendToRadio(n)
  PROVE  \E p \in ToSet(outBuffer[n]) :
           /\ Local(n, {p}) /\ ReceiverSame(n) /\ Steady(n)
           /\ ToSet(outBuffer'[n]) \subseteq ToSet(outBuffer[n])
           /\ \A h : InWaiting(n, h)' <=>
                InWaiting(n, h) \/ (IsUnicastData(p) /\ h = getHash(p))
<1>1. outBuffer[n] \in Seq(Packet) /\ outBuffer[n] # <<>>
  BY Typed DEF SendToRadio
<1>2. PICK p \in Packet : p = Head(outBuffer[n])
  BY <1>1, QueueSets
<1>3. ToSet(outBuffer[n]) = {p} \cup ToSet(Tail(outBuffer[n]))
  BY <1>1, <1>2, QueueSets
<1> DEFINE h == getHash(p)
           w == waiting[n]
           again == /\ h \in DOMAIN w
                    /\ w[h] # NULL
                    /\ w[h].pkt = p
           e == [pkt |-> p, queued |-> FALSE,
                 attempt |-> IF again THEN w[h].attempt + 1 ELSE 0]
           v == IF ~IsUnicastData(p) THEN w ELSE Put(w, h, e)
<1>4. /\ Transmit(n, p)
      /\ waiting' = [waiting EXCEPT ![n] = v]
      /\ outBuffer' = [outBuffer EXCEPT ![n] = Tail(@)]
      /\ UNCHANGED <<waiting_for_ack, recvVars, log>>
  BY <1>2 DEF SendToRadio
<1>5. DOMAIN waiting = Node /\ outBuffer \in [Node -> Seq(Packet)]
      /\ rx \in [Node -> Seq(Packet)]
  BY Typed
<1>6. e # NULL /\ e.pkt = p
  <2>1. e.pkt = p
    OBVIOUS
  <2>2. (IF again THEN w[h].attempt + 1 ELSE 0) \in Nat
    <3>1. IsPartial(w, Hash, Entry)
      BY DEF IInv, TypeOK, SenderTypeOK
    <3>2. again => w[h] \in [pkt : Packet, attempt : Nat, queued : BOOLEAN]
      BY <3>1 DEF IsPartial, Entry
    <3> QED  BY <3>2
  <2>3. e \in [pkt : Packet, attempt : Nat, queued : BOOLEAN]
    BY <2>2
  <2> QED  BY <2>1, <2>3, EntryAssumption
<1> HIDE DEF e
<1>7. waiting'[n] = v /\ outBuffer'[n] = Tail(outBuffer[n])
  BY <1>4, <1>5
<1>8. /\ DOMAIN Put(w, h, e) = DOMAIN w \cup {h}
      /\ \A g \in DOMAIN w \cup {h} : Put(w, h, e)[g] = IF g = h THEN e ELSE w[g]
  BY DEF Put
<1>9. \A g : InWaiting(n, g)' <=> InWaiting(n, g) \/ (IsUnicastData(p) /\ g = h)
  BY <1>6, <1>7, <1>8 DEF InWaiting
<1>10. InWaiting(n, h) /\ IsUnicastData(p) => w[h].pkt = p
  BY <1>3, WaitingEntries
<1>11. Copies(n)' = Copies(n)
  <2> DEFINE A == {waiting[n][g].pkt : g \in {f \in DOMAIN waiting[n] : waiting[n][f] # NULL}}
             B == {waiting'[n][g].pkt : g \in {f \in DOMAIN waiting'[n] : waiting'[n][f] # NULL}}
  <2>1. CASE ~IsUnicastData(p)
    <3>1. A = B
      BY <1>7, <2>1
    <3> HIDE DEF A, B
    <3>2. Copies(n) = {q \in ToSet(outBuffer[n]) : IsUnicastData(q)} \cup A
      BY DEF Copies, A
    <3>3. Copies(n)' = {q \in ToSet(outBuffer'[n]) : IsUnicastData(q)} \cup B
      BY DEF Copies, B, IsUnicastData
    <3> QED  BY <1>3, <1>7, <2>1, <3>1, <3>2, <3>3
  <2>2. CASE IsUnicastData(p)
    <3>1. B = A \cup {p}
      <4>1. waiting'[n] = Put(w, h, e)
        BY <1>7, <2>2
      <4>2. B \subseteq A \cup {p}
        BY <1>6, <1>8, <4>1
      <4>3. p \in B
        BY <1>6, <1>8, <4>1
      <4>4. ASSUME NEW g \in DOMAIN w, w[g] # NULL PROVE w[g].pkt \in B
        <5>1. CASE g = h
          BY <1>10, <2>2, <4>3, <4>4, <5>1 DEF InWaiting
        <5>2. CASE g # h
          BY <1>8, <4>1, <4>4, <5>2
        <5> QED  BY <5>1, <5>2
      <4> QED  BY <4>2, <4>3, <4>4
    <3> HIDE DEF A, B
    <3>2. Copies(n) = {q \in ToSet(outBuffer[n]) : IsUnicastData(q)} \cup A
      BY DEF Copies, A
    <3>3. Copies(n)' = {q \in ToSet(outBuffer'[n]) : IsUnicastData(q)} \cup B
      BY DEF Copies, B, IsUnicastData
    <3> QED  BY <1>3, <1>7, <2>2, <3>1, <3>2, <3>3
  <2> QED  BY <2>1, <2>2
<1>12. ReceiverSame(n) /\ \A m \in Node \ {n} : SenderSame(m) /\ ReceiverSame(m)
  BY <1>4, <1>5 DEF ReceiverSame, SenderSame, recvVars
<1>13. Steady(n) /\ LogGrows(n)
  BY <1>4, <1>11 DEF Steady, LogGrows
<1>14. /\ ToSet(rx'[n]) \subseteq ToSet(rx[n])
       /\ \A m \in Node \ {n} : ToSet(rx'[m]) \subseteq ToSet(rx[m]) \cup {p}
  <2>1. PICK heard \in SUBSET {m \in Node \ {n} : Len(rx[m]) < RxCap} :
          rx' = [m \in Node |-> IF m \in heard THEN Append(rx[m], p) ELSE rx[m]]
    BY <1>4 DEF Transmit
  <2>2. n \notin heard /\ rx'[n] = rx[n]
    BY <2>1
  <2>3. \A m \in Node : ToSet(Append(rx[m], p)) = ToSet(rx[m]) \cup {p}
    BY <1>5, QueueSets
  <2> QED  BY <2>1, <2>2, <2>3
<1>15. Local(n, {p})
  BY <1>3, <1>12, <1>13, <1>14 DEF Local, ReceiverSame
<1>16. p \in ToSet(outBuffer[n]) /\ ToSet(outBuffer'[n]) \subseteq ToSet(outBuffer[n])
  BY <1>3, <1>7
<1> QED  BY <1>9, <1>12, <1>13, <1>15, <1>16

\* A packet that is put on the air is in waiting.
LEMMA SendToRadioDelivery ==
  ASSUME IInv, IInv', DInv, NEW n \in Node, SendToRadio(n)
  PROVE  DInv'
<1>1. PICK p \in ToSet(outBuffer[n]) :
        /\ Local(n, {p}) /\ ReceiverSame(n) /\ Steady(n)
        /\ ToSet(outBuffer'[n]) \subseteq ToSet(outBuffer[n])
        /\ \A h : InWaiting(n, h)' <=>
             InWaiting(n, h) \/ (IsUnicastData(p) /\ h = getHash(p))
  BY SendToRadioEffects
<1>2. /\ General /\ LogWell(n) /\ PacketsWell(n) /\ CountsWell(n) /\ TimeoutsWell(n)
      /\ GotWell(n)
  BY DEF DInv, General
<1>3. AcksAnswer(n)
  BY <1>1 DEF AcksAnswer
<1>4. LogWell(n)' /\ CountsWell(n)' /\ TimeoutsWell(n)'
  BY <1>1, <1>2, SteadyWell
<1>5. PacketsWell(n)'
  <2>1. /\ \A q \in ToSet(outBuffer'[n]) : q \in ToSet(outBuffer[n])
        /\ \A q \in Copies(n)' : q \in Copies(n)
    BY <1>1 DEF Steady
  <2> QED  BY <1>1, <1>2, <2>1, PacketsStep
<1>6. GotWell(n)'
  BY <1>1, <1>2, GotStays DEF ReceiverSame
<1>7. ASSUME NumbersUnique', NumbersUnique, WhileUnique
      PROVE  /\ AcksWell(n)' /\ AirWell(n)' /\ OutcomesWell(n)'
             /\ RecordsWell(n)' /\ GotHeld(n)' /\ WholeWell(n)'
  <2>1. /\ AcksWell(n) /\ AirWell(n) /\ OutcomesWell(n)
        /\ RecordsWell(n) /\ GotHeld(n) /\ WholeWell(n)
    BY <1>7 DEF WhileUnique
  <2>2. AcksWell(n)'
    <3>1. \A q \in ToSet(outBuffer'[n]) : q \in ToSet(outBuffer[n])
      BY <1>1
    <3> QED  BY <1>1, <1>2, <2>1, <3>1, AcksStep
  <2>3. RecordsWell(n)' /\ GotHeld(n)' /\ WholeWell(n)'
    BY <1>1, <1>2, <2>1, ReceiverStays
  <2>4. OutcomesWell(n)'
    BY <1>1, <1>2, <2>1, OutcomesStay
  <2>5. AirWell(n)'
    <3>1. \A h : OnAir(n, h)' => OnAir(n, h) \/ (IsUnicastData(p) /\ getHash(p) = h)
      <4>1. ASSUME NEW h, OnAir(n, h)'
            PROVE  OnAir(n, h) \/ \E q \in {p} : IsUnicastData(q) /\ getHash(q) = h
        BY <1>1, <1>2, <1>3, <4>1, AirStep
      <4> QED  BY <4>1
    <3>2. ASSUME NEW q \in ToSet(outBuffer'[n]), IsUnicastData(q),
                 ~InWaiting(n, getHash(q))'
          PROVE  ~OnAir(n, getHash(q))'
      BY <1>1, <2>1, <3>1, <3>2 DEF AirWell
    <3> QED  BY <3>2 DEF AirWell
  <2> QED  BY <2>2, <2>3, <2>4, <2>5
<1> QED  BY <1>1, <1>3, <1>4, <1>5, <1>6, <1>7, Combine

-----------------------------------------------------------------------------
(* checkRepetition, addToFragmented and addToDataReady.                    *)

\* The part of RecordOf that does not say what was handed over.
Fragments(r, total) ==
  /\ DOMAIN r.packets # {} /\ DOMAIN r.packets \subseteq FragsOf(total)
  /\ r.lastReceived <=> LastFrag(total) \in DOMAIN r.packets
  /\ r.lastReceived => r.packet_number = LastFrag(total)

\* The test of addToDataReady holds exactly when all the fragments are there.
LEMMA CompleteIsWhole ==
  ASSUME NEW total \in 1 .. MaxFrag, NEW r, Fragments(r, total)
  PROVE  Complete(r) <=> DOMAIN r.packets = FragsOf(total)
<1> DEFINE D == DOMAIN r.packets
<1>1. /\ total \in Nat /\ total # 0 /\ IsFiniteSet(FragsOf(total))
      /\ Cardinality(FragsOf(total)) = total /\ LastFrag(total) \in FragsOf(total)
  BY FragsOfProperties
<1>2. /\ D # {} /\ D \subseteq FragsOf(total)
      /\ r.lastReceived <=> LastFrag(total) \in D
      /\ r.lastReceived => r.packet_number = LastFrag(total)
      /\ Complete(r) <=> /\ r.lastReceived
                         /\ \/ Cardinality(D) = r.packet_number
                            \/ Cardinality(D) = 1 /\ r.packet_number = 0
  BY DEF Complete, Fragments
<1>3. Cardinality(D) = total <=> D = FragsOf(total)
  BY <1>1, <1>2, FS_Subset
<1> HIDE DEF D
<1>4. CASE total = 1
  <2>1. FragsOf(total) = {0} /\ LastFrag(total) = 0
    BY <1>4 DEF FragsOf, LastFrag
  <2>2. D = {0}
    BY <1>2, <2>1
  <2>3. D = FragsOf(total) /\ Cardinality(D) = 1 /\ LastFrag(total) \in D
    BY <1>3, <1>4, <2>1, <2>2
  <2>4. Complete(r)
    BY <1>2, <2>1, <2>3
  <2> QED  BY <2>3, <2>4 DEF D
<1>5. CASE total # 1
  <2>1. LastFrag(total) = total
    BY <1>5 DEF LastFrag
  <2>2. ASSUME Complete(r) PROVE D = FragsOf(total)
    BY <1>1, <1>2, <1>3, <2>1, <2>2
  <2>3. ASSUME D = FragsOf(total) PROVE Complete(r)
    BY <1>1, <1>2, <2>1, <2>3
  <2> QED  BY <2>2, <2>3 DEF D
<1> QED  BY <1>4, <1>5

\* A record of one message is assembled exactly when it is whole: the buffer of its
\* first fragment is there.
LEMMA AssemblesWhole ==
  ASSUME NEW total \in 1 .. MaxFrag, NEW r, Fragments(r, total), NEW k \in Nat,
         \A f \in DOMAIN r.packets : r.packets[f] = k
  PROVE  Assembles(r) <=> DOMAIN r.packets = FragsOf(total)
<1>1. Complete(r) <=> DOMAIN r.packets = FragsOf(total)
  BY CompleteIsWhole
<1>2. ASSUME DOMAIN r.packets = FragsOf(total)
      PROVE  Min(DOMAIN r.packets) \in DOMAIN r.packets
  <2>1. total \in Nat /\ total # 0 /\ FragsOf(total) \subseteq Nat
    BY FragsOfProperties
  <2>2. \E x \in FragsOf(total) : \A y \in FragsOf(total) : x <= y
    <3>1. CASE total = 1
      <4>1. FragsOf(total) = {0}
        BY <3>1 DEF FragsOf
      <4> QED  BY <4>1
    <3>2. CASE total # 1
      <4>1. FragsOf(total) = 1 .. total
        BY <3>2 DEF FragsOf
      <4>2. 1 \in 1 .. total /\ \A y \in 1 .. total : 1 <= y
        BY <2>1
      <4> QED  BY <4>1, <4>2
    <3> QED  BY <3>1, <3>2
  <2> QED  BY <1>2, <2>2 DEF Min
<1> QED  BY <1>1, <1>2, NullAssumption DEF Assembles

\* addToFragmented: the record of a message whose fragment was not there yet.
LEMMA FragmentAdded ==
  ASSUME IInv, General, NumbersUnique, NEW n \in Node, RecordsWell(n), NEW p \in Packet,
         IsPart(p), ~checkRepetition(n, p), NEW r, r = WithFragment(n, p)
  PROVE  LET total == log[p.source][p.msg].total
         IN /\ total \in 1 .. MaxFrag
            /\ Fragments(r, total)
            /\ r.packets = [f \in DOMAIN r.packets |-> p.msg]
            /\ p.frag \in DOMAIN r.packets
            /\ Assembles(r) <=> DOMAIN r.packets = FragsOf(total)
<1> DEFINE key == <<p.source, p.seq_number>>
           e == log[p.source][p.msg]
           old == IF key \in DOMAIN receive_buffer[n] THEN receive_buffer[n][key]
                  ELSE NewRecord
<1>1. /\ p.source \in Node /\ p.msg \in DOMAIN log[p.source] /\ e.seq = p.seq_number
      /\ p.frag \in FragsOf(e.total)
      /\ p.control = "last" <=> p.frag = LastFrag(e.total)
      /\ p.msg \in Nat
  BY DEF IsPart, Packet
<1>2. e.total \in 1 .. MaxFrag
  BY <1>1 DEF General, LogWell
<1>3. /\ DOMAIN old.packets \subseteq FragsOf(e.total)
      /\ old.lastReceived <=> LastFrag(e.total) \in DOMAIN old.packets
      /\ old.lastReceived => old.packet_number = LastFrag(e.total)
      /\ \A f \in DOMAIN old.packets : old.packets[f] = p.msg
  <2>1. CASE key \notin DOMAIN receive_buffer[n]
    BY <2>1 DEF NewRecord
  <2>2. CASE key \in DOMAIN receive_buffer[n]
    <3>1. PICK k \in DOMAIN log[key[1]] :
            /\ log[key[1]][k].seq = key[2]
            /\ RecordOf(receive_buffer[n][key], log[key[1]][k].total, k,
                        <<key[1], k>> \in got[n])
      BY <2>2 DEF RecordsWell
    <3>2. k = p.msg
      BY <1>1, <3>1 DEF NumbersUnique
    <3>3. p.frag \notin DOMAIN receive_buffer[n][key].packets
      BY <2>2 DEF checkRepetition
    <3>4. RecordOf(old, e.total, p.msg, <<p.source, p.msg>> \in got[n])
      BY <2>2, <3>1, <3>2
    <3>5. p.frag \notin DOMAIN old.packets
      BY <2>2, <3>3
    <3> HIDE DEF old, e
    <3> QED  BY <1>1, <3>4, <3>5 DEF RecordOf
  <2> QED  BY <2>1, <2>2
<1>4. r = [lastReceived |-> old.lastReceived \/ p.control = "last",
           packet_number |-> IF p.control = "last" THEN p.frag ELSE old.packet_number,
           packets |-> Put(old.packets, p.frag, p.msg)]
  BY DEF WithFragment
<1> HIDE DEF old, e, key
<1>5. /\ DOMAIN r.packets = DOMAIN old.packets \cup {p.frag}
      /\ r.packets = [f \in DOMAIN r.packets |-> p.msg]
  BY <1>3, <1>4 DEF Put
<1>6. Fragments(r, e.total)
  <2>1. /\ r.lastReceived <=> (old.lastReceived \/ p.control = "last")
        /\ r.packet_number = IF p.control = "last" THEN p.frag ELSE old.packet_number
    <3>1. r.packet_number = IF p.control = "last" THEN p.frag ELSE old.packet_number
      BY <1>4
    <3>2. r.lastReceived = (old.lastReceived \/ p.control = "last")
      BY <1>4
    <3> QED  BY <3>1, <3>2
  <2>2. DOMAIN r.packets # {} /\ DOMAIN r.packets \subseteq FragsOf(e.total)
    BY <1>1, <1>3, <1>5
  <2>3. r.lastReceived <=> LastFrag(e.total) \in DOMAIN r.packets
    BY <1>1, <1>3, <1>5, <2>1
  <2>4. r.lastReceived => r.packet_number = LastFrag(e.total)
    BY <1>1, <1>3, <2>1
  <2> QED  BY <2>2, <2>3, <2>4 DEF Fragments
<1>7. Assembles(r) <=> DOMAIN r.packets = FragsOf(e.total)
  <2>1. \A f \in DOMAIN r.packets : r.packets[f] = p.msg
    BY <1>5
  <2> QED  BY <1>1, <1>2, <1>6, <2>1, AssemblesWhole
<1> QED  BY <1>2, <1>5, <1>6, <1>7 DEF e

\* What Accept does to the receiving side: nothing, or one fragment more in the
\* record, or a whole message more in inBuffer.
Repeated(n, p) == checkRepetition(n, p) /\ ReceiverSame(n)
Added(n, p, r) ==
  /\ ~checkRepetition(n, p) /\ ~Assembles(r)
  /\ receive_buffer'[n] = Put(receive_buffer[n], <<p.source, p.seq_number>>, r)
  /\ inBuffer'[n] = inBuffer[n] /\ got'[n] = got[n] /\ expired'[n] = expired[n]
HandedOver(n, p, r) ==
  /\ ~checkRepetition(n, p) /\ Assembles(r)
  /\ receive_buffer'[n] = Put(receive_buffer[n], <<p.source, p.seq_number>>, Emptied(r))
  /\ ToSet(inBuffer'[n]) \subseteq
       ToSet(inBuffer[n]) \cup {[source |-> p.source, parts |-> r.packets]}
  /\ got'[n] = got[n] \cup {<<p.source, p.msg>>}
  /\ expired'[n] = expired[n] \ {<<p.source, p.msg>>}

\* Every step of Accept has one of these effects.
LEMMA AcceptEffects ==
  ASSUME IInv, NEW n \in Node, NEW p \in Packet, Accept(n, p),
         NEW r, r = WithFragment(n, p)
  PROVE  /\ Repeated(n, p) \/ Added(n, p, r) \/ HandedOver(n, p, r)
         /\ \A m \in Node \ {n} : ReceiverSame(m)
         /\ got[n] \subseteq got'[n]
<1>1. /\ DOMAIN receive_buffer = Node /\ DOMAIN inBuffer = Node
      /\ got \in [Node -> SUBSET (Node \X Nat)]
      /\ expired \in [Node -> SUBSET (Node \X Nat)]
  BY Typed
<1>2. CASE checkRepetition(n, p)
  <2>1. UNCHANGED recvVars
    BY <1>2 DEF Accept
  <2>2. \A m \in Node : ReceiverSame(m)
    BY <2>1 DEF recvVars, ReceiverSame
  <2> QED  BY <1>2, <2>2 DEF Repeated, ReceiverSame
<1>3. CASE ~checkRepetition(n, p) /\ ~Assembles(r)
  <2>1. /\ receive_buffer' =
             [receive_buffer EXCEPT ![n] = Put(@, <<p.source, p.seq_number>>, r)]
        /\ UNCHANGED <<inBuffer, got, expired>>
    BY <1>3 DEF Accept
  <2> QED  BY <1>1, <1>3, <2>1 DEF Added, ReceiverSame
<1>4. CASE ~checkRepetition(n, p) /\ Assembles(r)
  <2> DEFINE x == [source |-> p.source, parts |-> r.packets]
             m == <<p.source, p.msg>>
             k == <<p.source, p.seq_number>>
             v == Emptied(r)
  <2>1. /\ receive_buffer' = [receive_buffer EXCEPT ![n] = Put(@, k, v)]
        /\ inBuffer' = [inBuffer EXCEPT ![n] = Append(@, x)]
        /\ got' = [got EXCEPT ![n] = @ \cup {m}]
        /\ expired' = [expired EXCEPT ![n] = @ \ {m}]
    BY <1>4 DEF Accept
  <2> HIDE DEF x, m, k, v
  <2>2. ToSet(inBuffer'[n]) \subseteq ToSet(inBuffer[n]) \cup {x}
    <3>1. inBuffer[n] \in Seq(ToSet(inBuffer[n])) /\ inBuffer'[n] = Append(inBuffer[n], x)
      BY <1>1, <2>1 DEF IInv, TypeOK, ReceiverTypeOK
    <3> QED  BY <3>1, OwnElements
  <2>3. /\ receive_buffer'[n] = Put(receive_buffer[n], k, v)
        /\ got'[n] = got[n] \cup {m} /\ expired'[n] = expired[n] \ {m}
    BY <1>1, <2>1
  <2>4. HandedOver(n, p, r)
    BY <1>4, <2>2, <2>3 DEF HandedOver, x, m, k, v
  <2>5. \A l \in Node \ {n} : ReceiverSame(l)
    BY <1>1, <2>1 DEF ReceiverSame
  <2> QED  BY <2>3, <2>4, <2>5
<1> QED  BY <1>2, <1>3, <1>4

\* The receiving side keeps the invariant: a fragment joins the record of its own
\* message, and a message is handed over when its record is whole.
LEMMA AcceptDelivery ==
  ASSUME IInv, General, NEW n \in Node, NEW p \in Packet, IsPart(p), p.source # n,
         p.destination \in {n, Broadcast}, Accept(n, p), Local(n, {}), log'[n] = log[n]
  PROVE  /\ GotWell(n)'
         /\ NumbersUnique /\ WhileUnique =>
              /\ RecordsWell(n)' /\ GotHeld(n)' /\ WholeWell(n)'
              /\ log[p.source][p.msg].total = 1 => <<p.source, p.msg>> \in got'[n]
<1>1. \A l \in Node : log'[l] = log[l]
  BY DEF Local, SenderSame
<1>2. PICK r : r = WithFragment(n, p)
  OBVIOUS
<1>3. Repeated(n, p) \/ Added(n, p, r) \/ HandedOver(n, p, r)
  BY <1>2, AcceptEffects
<1>4. GotWell(n)
  BY DEF General
<1>5. /\ p.source \in Node /\ p.msg \in DOMAIN log[p.source] /\ p.msg \in Nat
      /\ log[p.source][p.msg].seq = p.seq_number
      /\ log[p.source][p.msg].dest = p.destination
      /\ p.frag \in FragsOf(log[p.source][p.msg].total)
  BY DEF IsPart, Packet
<1>6. GotWell(n)'
  <2>1. CASE Repeated(n, p) \/ Added(n, p, r)
    <3>1. got'[n] = got[n]
      BY <2>1 DEF Repeated, Added, ReceiverSame
    <3> QED  BY <1>4, <3>1, GotStays
  <2>2. CASE HandedOver(n, p, r)
    <3> DEFINE x == <<p.source, p.msg>>
    <3>1. got'[n] = got[n] \cup {x}
      BY <2>2 DEF HandedOver
    <3>2. /\ x[1] # n /\ x[2] \in DOMAIN log[x[1]]
          /\ log[x[1]][x[2]].dest \in {n, Broadcast}
      BY <1>5
    <3>3. x[1] \in Node /\ got[n] \subseteq Node \X Nat
      BY <1>5, Typed
    <3> HIDE DEF x
    <3>4. ASSUME NEW g \in got'[n]
          PROVE  /\ g[1] # n /\ g[2] \in DOMAIN log'[g[1]]
                 /\ log'[g[1]][g[2]].dest \in {n, Broadcast}
      <4>1. g[1] \in Node /\ log'[g[1]] = log[g[1]]
        BY <1>1, <3>1, <3>3
      <4>2. CASE g = x
        BY <3>2, <4>1, <4>2
      <4>3. CASE g \in got[n]
        BY <1>4, <4>1, <4>3 DEF GotWell
      <4> QED  BY <3>1, <4>2, <4>3
    <3> QED  BY <3>4 DEF GotWell
  <2> QED  BY <1>3, <2>1, <2>2
<1>7. ASSUME NumbersUnique, WhileUnique
      PROVE  /\ RecordsWell(n)' /\ GotHeld(n)' /\ WholeWell(n)'
             /\ log[p.source][p.msg].total = 1 => <<p.source, p.msg>> \in got'[n]
  <2> DEFINE key == <<p.source, p.seq_number>>
             x == <<p.source, p.msg>>
             total == log[p.source][p.msg].total
  <2>1. RecordsWell(n) /\ GotHeld(n) /\ WholeWell(n)
    BY <1>7 DEF WhileUnique
  <2>2. CASE Repeated(n, p)
    <3>1. ReceiverSame(n) /\ checkRepetition(n, p)
      BY <2>2 DEF Repeated
    <3>2. RecordsWell(n)' /\ GotHeld(n)' /\ WholeWell(n)'
      BY <2>1, <3>1, ReceiverStays
    <3>3. ASSUME total = 1 PROVE x \in got'[n]
      <4>1. key \in DOMAIN receive_buffer[n] /\ p.frag \in DOMAIN receive_buffer[n][key].packets
        BY <3>1 DEF checkRepetition
      <4>2. PICK k \in DOMAIN log[key[1]] :
              /\ log[key[1]][k].seq = key[2]
              /\ RecordOf(receive_buffer[n][key], log[key[1]][k].total, k,
                          <<key[1], k>> \in got[n])
        BY <2>1, <4>1 DEF RecordsWell
      <4>3. k = p.msg
        BY <1>5, <1>7, <4>2 DEF NumbersUnique
      <4>4. RecordOf(receive_buffer[n][key], 1, p.msg, x \in got[n])
        BY <3>3, <4>2, <4>3
      <4>5. FragsOf(1) = {0}
        BY DEF FragsOf
      <4>6. got'[n] = got[n]
        BY <3>1 DEF ReceiverSame
      <4> HIDE DEF x, key
      <4> QED  BY <4>4, <4>5, <4>6 DEF RecordOf
    <3> QED  BY <3>2, <3>3
  <2>3. /\ ~checkRepetition(n, p) =>
             /\ total \in 1 .. MaxFrag
             /\ Fragments(r, total)
             /\ r.packets = [f \in DOMAIN r.packets |-> p.msg]
             /\ p.frag \in DOMAIN r.packets
             /\ Assembles(r) <=> DOMAIN r.packets = FragsOf(total)
    BY <1>2, <1>7, <2>1, FragmentAdded
  <2>4. key[1] \in Node /\ p.msg \in DOMAIN log[key[1]] /\ log[key[1]][p.msg].seq = key[2]
        /\ log[key[1]][p.msg].total = total
    BY <1>5
  <2>5. ASSUME NEW v, receive_buffer'[n] = Put(receive_buffer[n], key, v),
               RecordOf(v, total, p.msg, x \in got'[n]), got[n] \subseteq got'[n]
        PROVE  RecordsWell(n)'
    <3>1. /\ DOMAIN receive_buffer'[n] = DOMAIN receive_buffer[n] \cup {key}
          /\ \A g \in DOMAIN receive_buffer'[n] :
               receive_buffer'[n][g] = IF g = key THEN v ELSE receive_buffer[n][g]
      BY <2>5 DEF Put
    <3>2. \A g \in DOMAIN receive_buffer'[n] : g[1] \in Node
      BY <2>4, <3>1, Typed
    <3>3. x = <<key[1], p.msg>>
      OBVIOUS
    <3> HIDE DEF key, x, total
    <3>4. ASSUME NEW g \in DOMAIN receive_buffer'[n]
          PROVE  \E k \in DOMAIN log'[g[1]] :
                   /\ log'[g[1]][k].seq = g[2]
                   /\ RecordOf(receive_buffer'[n][g], log'[g[1]][k].total, k,
                               <<g[1], k>> \in got'[n])
      <4>1. CASE g = key
        <5>1. log'[g[1]] = log[g[1]] /\ receive_buffer'[n][g] = v
          BY <1>1, <3>1, <3>2, <4>1
        <5> QED  BY <2>4, <2>5, <3>3, <4>1, <5>1
      <4>2. CASE g # key
        <5>1. /\ log'[g[1]] = log[g[1]] /\ receive_buffer'[n][g] = receive_buffer[n][g]
              /\ g \in DOMAIN receive_buffer[n]
          BY <1>1, <3>1, <3>2, <4>2
        <5>2. PICK k \in DOMAIN log[g[1]] :
                /\ log[g[1]][k].seq = g[2]
                /\ RecordOf(receive_buffer[n][g], log[g[1]][k].total, k,
                            <<g[1], k>> \in got[n])
          BY <2>1, <5>1 DEF RecordsWell
        <5>3. RecordOf(receive_buffer[n][g], log[g[1]][k].total, k, <<g[1], k>> \in got'[n])
          BY <2>5, <5>2 DEF RecordOf
        <5> QED  BY <5>1, <5>2, <5>3
      <4> QED  BY <4>1, <4>2
    <3> QED  BY <3>4 DEF RecordsWell
  <2>6. ASSUME NEW v, receive_buffer'[n] = Put(receive_buffer[n], key, v),
               \A g \in got'[n] \ expired'[n] :
                 \/ g \in got[n] \ expired[n] /\ g # x
                 \/ g = x /\ DOMAIN v.packets = FragsOf(total)
        PROVE  GotHeld(n)'
    <3>1. /\ DOMAIN receive_buffer'[n] = DOMAIN receive_buffer[n] \cup {key}
          /\ \A g \in DOMAIN receive_buffer'[n] :
               receive_buffer'[n][g] = IF g = key THEN v ELSE receive_buffer[n][g]
      BY <2>6 DEF Put
    <3>2. ASSUME NEW g \in got'[n] \ expired'[n]
          PROVE  /\ <<g[1], log'[g[1]][g[2]].seq>> \in DOMAIN receive_buffer'[n]
                 /\ DOMAIN receive_buffer'[n][<<g[1], log'[g[1]][g[2]].seq>>].packets
                      = FragsOf(log'[g[1]][g[2]].total)
      <4>1. CASE g = x /\ DOMAIN v.packets = FragsOf(total)
        <5>1. g[1] = p.source /\ g[2] = p.msg /\ log'[g[1]] = log[g[1]]
          BY <1>1, <1>5, <4>1
        <5>2. <<g[1], log'[g[1]][g[2]].seq>> = key /\ log'[g[1]][g[2]].total = total
          BY <1>5, <5>1
        <5> QED  BY <3>1, <4>1, <5>2
      <4>2. CASE g \in got[n] \ expired[n] /\ g # x
        <5>1. g \in Node \X Nat /\ g[2] \in DOMAIN log[g[1]]
          BY <1>4, <4>2, Typed DEF GotWell
        <5>2. log'[g[1]] = log[g[1]]
          BY <1>1, <5>1
        <5>3. /\ <<g[1], log[g[1]][g[2]].seq>> \in DOMAIN receive_buffer[n]
              /\ DOMAIN receive_buffer[n][<<g[1], log[g[1]][g[2]].seq>>].packets
                   = FragsOf(log[g[1]][g[2]].total)
          BY <2>1, <4>2 DEF GotHeld
        <5>4. <<g[1], log[g[1]][g[2]].seq>> # key
          <6>1. SUFFICES ASSUME g[1] = p.source, log[g[1]][g[2]].seq = p.seq_number
                         PROVE  FALSE
            OBVIOUS
          <6>2. g[2] = p.msg
            BY <1>5, <1>7, <5>1, <6>1 DEF NumbersUnique
          <6> QED  BY <4>2, <5>1, <6>1, <6>2
        <5> HIDE DEF key, x, total
        <5> QED  BY <3>1, <5>2, <5>3, <5>4
      <4> QED  BY <2>6, <4>1, <4>2
    <3> QED  BY <3>2 DEF GotHeld
  <2>7. ASSUME x \in got[n], x \notin expired[n] PROVE checkRepetition(n, p)
    <3>1. x[1] = p.source /\ x[2] = p.msg
      OBVIOUS
    <3>2. /\ <<x[1], log[x[1]][x[2]].seq>> \in DOMAIN receive_buffer[n]
          /\ DOMAIN receive_buffer[n][<<x[1], log[x[1]][x[2]].seq>>].packets
               = FragsOf(log[x[1]][x[2]].total)
      <4> HIDE DEF x
      <4> QED  BY <2>1, <2>7 DEF GotHeld
    <3>3. key \in DOMAIN receive_buffer[n] /\ DOMAIN receive_buffer[n][key].packets = FragsOf(total)
      BY <1>5, <3>1, <3>2
    <3> QED  BY <1>5, <3>3 DEF checkRepetition
  <2>8. CASE Added(n, p, r)
    <3>1. /\ ~checkRepetition(n, p) /\ ~Assembles(r)
          /\ receive_buffer'[n] = Put(receive_buffer[n], key, r)
          /\ inBuffer'[n] = inBuffer[n] /\ got'[n] = got[n] /\ expired'[n] = expired[n]
      BY <2>8 DEF Added
    <3> HIDE DEF key, x, total
    <3>2. RecordOf(r, total, p.msg, x \in got'[n])
      BY <2>3, <3>1 DEF RecordOf, Fragments
    <3>3. RecordsWell(n)'
      BY <2>5, <3>1, <3>2
    <3>4. GotHeld(n)'
      <4>1. \A g \in got'[n] \ expired'[n] : g \in got[n] \ expired[n] /\ g # x
        BY <2>7, <3>1
      <4> QED  BY <2>6, <3>1, <4>1
    <3>5. WholeWell(n)'
      <4>1. ASSUME NEW e \in ToSet(inBuffer'[n])
            PROVE  \E k \in DOMAIN log'[e.source] :
                     e.parts = [f \in FragsOf(log'[e.source][k].total) |-> k]
        <5>1. e \in ToSet(inBuffer[n]) /\ e.source \in Node
          BY <3>1 DEF IInv, TypeOK, ReceiverTypeOK, IsMessage
        <5>2. PICK k \in DOMAIN log[e.source] :
                e.parts = [f \in FragsOf(log[e.source][k].total) |-> k]
          BY <2>1, <5>1 DEF WholeWell
        <5>3. log'[e.source] = log[e.source]
          BY <1>1, <5>1
        <5> QED  BY <5>2, <5>3
      <4> QED  BY <4>1 DEF WholeWell
    <3>6. total # 1
      <4>1. SUFFICES ASSUME total = 1 PROVE FALSE
        OBVIOUS
      <4>2. FragsOf(total) = {0}
        BY <4>1 DEF FragsOf
      <4> QED  BY <2>3, <3>1, <4>2 DEF Fragments
    <3> QED  BY <3>3, <3>4, <3>5, <3>6 DEF total
  <2>9. CASE HandedOver(n, p, r)
    <3>1. /\ ~checkRepetition(n, p) /\ Assembles(r)
          /\ receive_buffer'[n] = Put(receive_buffer[n], key, Emptied(r))
          /\ ToSet(inBuffer'[n]) \subseteq
               ToSet(inBuffer[n]) \cup {[source |-> p.source, parts |-> r.packets]}
          /\ got'[n] = got[n] \cup {x} /\ expired'[n] = expired[n] \ {x}
      BY <2>9 DEF HandedOver
    <3>2. /\ DOMAIN r.packets = FragsOf(total) /\ Fragments(r, total)
          /\ r.packets = [f \in FragsOf(total) |-> p.msg]
      BY <2>3, <3>1
    <3>3. /\ DOMAIN Emptied(r).packets = FragsOf(total)
          /\ \A f \in DOMAIN Emptied(r).packets : Emptied(r).packets[f] = NULL
          /\ Emptied(r).lastReceived = r.lastReceived
          /\ Emptied(r).packet_number = r.packet_number
      <4>1. r = [lastReceived |-> r.lastReceived, packet_number |-> r.packet_number,
                 packets |-> r.packets]
        BY <1>2 DEF WithFragment
      <4>2. Emptied(r) = [lastReceived |-> r.lastReceived, packet_number |-> r.packet_number,
                          packets |-> [f \in DOMAIN r.packets |-> NULL]]
        <5> HIDE DEF total
        <5> QED  BY <4>1 DEF Emptied
      <4> HIDE DEF total
      <4> QED  BY <3>2, <4>2
    <3>4. WholeWell(n)'
      <4> DEFINE y == [source |-> p.source, parts |-> r.packets]
      <4>1. ASSUME NEW e \in ToSet(inBuffer[n])
            PROVE  \E k \in DOMAIN log'[e.source] :
                     e.parts = [f \in FragsOf(log'[e.source][k].total) |-> k]
        <5>1. e.source \in Node
          BY DEF IInv, TypeOK, ReceiverTypeOK, IsMessage
        <5>2. PICK k \in DOMAIN log[e.source] :
                e.parts = [f \in FragsOf(log[e.source][k].total) |-> k]
          BY <2>1 DEF WholeWell
        <5>3. log'[e.source] = log[e.source]
          BY <1>1, <5>1
        <5> QED  BY <5>2, <5>3
      <4>2. \E k \in DOMAIN log'[y.source] :
              y.parts = [f \in FragsOf(log'[y.source][k].total) |-> k]
        <5>1. y.source = p.source /\ y.parts = r.packets /\ log'[p.source] = log[p.source]
          BY <1>1, <1>5
        <5> HIDE DEF y
        <5>2. /\ p.msg \in DOMAIN log'[p.source]
              /\ r.packets = [f \in FragsOf(log'[p.source][p.msg].total) |-> p.msg]
          BY <1>5, <3>2, <5>1
        <5> QED  BY <5>1, <5>2
      <4>3. \A e \in ToSet(inBuffer'[n]) : e \in ToSet(inBuffer[n]) \/ e = y
        BY <3>1
      <4> HIDE DEF y
      <4> QED  BY <4>1, <4>2, <4>3 DEF WholeWell
    <3> HIDE DEF key, x, total
    <3>5. RecordOf(Emptied(r), total, p.msg, x \in got'[n])
      BY <3>1, <3>2, <3>3 DEF RecordOf, Fragments
    <3>6. RecordsWell(n)'
      BY <2>5, <3>1, <3>5
    <3>7. GotHeld(n)'
      <4>1. \A g \in got'[n] \ expired'[n] :
              \/ g \in got[n] \ expired[n] /\ g # x
              \/ g = x /\ DOMAIN Emptied(r).packets = FragsOf(total)
        BY <3>1, <3>3
      <4> QED  BY <2>6, <3>1, <4>1
    <3> QED  BY <3>1, <3>4, <3>6, <3>7 DEF x
  <2> QED  BY <1>3, <2>2, <2>8, <2>9
<1> QED  BY <1>6, <1>7

-----------------------------------------------------------------------------
(* The handlers that leave the packets and the records alone.              *)

\* A step that sends, receives and forgets nothing keeps the invariant.
LEMMA QuietDelivery ==
  ASSUME IInv, IInv', DInv, NEW n \in Node, Local(n, {}), SenderSame(n), ReceiverSame(n)
  PROVE  DInv'
<1>1. /\ General /\ LogWell(n) /\ PacketsWell(n) /\ CountsWell(n) /\ TimeoutsWell(n)
      /\ GotWell(n)
  BY DEF DInv, General
<1>2. Steady(n) /\ outBuffer'[n] = outBuffer[n] /\ Copies(n)' = Copies(n) /\ got'[n] = got[n]
  BY SameIsSteady DEF SenderSame, Steady, ReceiverSame
<1>3. AcksAnswer(n)
  BY <1>2 DEF AcksAnswer
<1>4. LogWell(n)' /\ CountsWell(n)' /\ TimeoutsWell(n)'
  BY <1>1, <1>2, SteadyWell
<1>5. PacketsWell(n)'
  BY <1>1, <1>2, PacketsStep
<1>6. GotWell(n)'
  BY <1>1, <1>2, GotStays
<1>7. ASSUME NumbersUnique', NumbersUnique, WhileUnique
      PROVE  /\ AcksWell(n)' /\ AirWell(n)' /\ OutcomesWell(n)'
             /\ RecordsWell(n)' /\ GotHeld(n)' /\ WholeWell(n)'
  <2>1. /\ AcksWell(n) /\ AirWell(n) /\ OutcomesWell(n)
        /\ RecordsWell(n) /\ GotHeld(n) /\ WholeWell(n)
    BY <1>7 DEF WhileUnique
  <2>2. AcksWell(n)'
    BY <1>1, <1>2, <2>1, AcksStep
  <2>3. AirWell(n)'
    BY <1>1, <1>3, <2>1, AirStays
  <2>4. OutcomesWell(n)'
    BY <1>1, <1>2, <2>1, OutcomesStay
  <2>5. RecordsWell(n)' /\ GotHeld(n)' /\ WholeWell(n)'
    BY <1>1, <2>1, ReceiverStays
  <2> QED  BY <2>2, <2>3, <2>4, <2>5
<1> QED  BY <1>3, <1>4, <1>5, <1>6, <1>7, Combine

\* Taking a datagram leaves the others in the driver's queue.
LEMMA TakeSets ==
  ASSUME IInv, NEW n \in Node, rx[n] # <<>>, Take(n)
  PROVE  /\ Head(rx[n]) \in ToSet(rx[n]) /\ Head(rx[n]) \in Packet
         /\ ToSet(rx'[n]) \subseteq ToSet(rx[n])
         /\ \A m \in Node \ {n} : rx'[m] = rx[m]
<1>1. rx \in [Node -> Seq(Packet)] /\ rx[n] \in Seq(Packet)
  BY Typed
<1>2. rx'[n] = Tail(rx[n]) /\ \A m \in Node \ {n} : rx'[m] = rx[m]
  BY <1>1 DEF Take
<1>3. Head(rx[n]) \in Packet /\ ToSet(rx[n]) = {Head(rx[n])} \cup ToSet(Tail(rx[n]))
  BY <1>1, QueueSets
<1> QED  BY <1>2, <1>3

\* A refusal of the driver, a wake-up for nothing, a datagram for another node, the
\* reads of the upper layer, and a step that changes nothing.
LEMMA QuietSteps ==
  ASSUME IInv, IInv', DInv, NEW n \in Node,
         \/ SendToRadioFails(n) \/ SendToRadioIdle(n) \/ RecvOther(n) \/ Recv(n)
         \/ GetDisconnectedDestination(n) \/ UNCHANGED vars
  PROVE  DInv'
<1>1. UNCHANGED <<outBuffer, waiting, waiting_for_ack, log, receive_buffer, got, expired>>
  BY DEF SendToRadioFails, SendToRadioIdle, RecvOther, Recv, GetDisconnectedDestination,
         vars, bufferVars, recvVars
<1>2. /\ ToSet(rx'[n]) \subseteq ToSet(rx[n])
      /\ \A m \in Node \ {n} : rx'[m] = rx[m]
  <2>1. CASE RecvOther(n)
    <3>1. rx[n] # <<>> /\ Take(n)
      BY <2>1 DEF RecvOther
    <3> QED  BY <3>1, TakeSets
  <2>2. CASE ~RecvOther(n)
    BY <2>2 DEF SendToRadioFails, SendToRadioIdle, Recv, GetDisconnectedDestination, vars
  <2> QED  BY <2>1, <2>2
<1>3. /\ ToSet(inBuffer'[n]) \subseteq ToSet(inBuffer[n])
      /\ \A m \in Node \ {n} : inBuffer'[m] = inBuffer[m]
  <2>1. CASE Recv(n)
    <3>1. DOMAIN inBuffer = Node /\ inBuffer[n] \in Seq(ToSet(inBuffer[n]))
      BY DEF IInv, TypeOK, ReceiverTypeOK
    <3>2. inBuffer[n] # <<>> /\ inBuffer' = [inBuffer EXCEPT ![n] = Tail(@)]
      BY <2>1 DEF Recv
    <3>3. ToSet(Tail(inBuffer[n])) \subseteq ToSet(inBuffer[n])
      BY <3>1, <3>2, OwnElements
    <3> QED  BY <3>1, <3>2, <3>3
  <2>2. CASE ~Recv(n)
    BY <2>2 DEF SendToRadioFails, SendToRadioIdle, RecvOther, GetDisconnectedDestination,
                vars, recvVars
  <2> QED  BY <2>1, <2>2
<1>4. \A m \in Node : SenderSame(m) /\ ReceiverSame(m)
  BY <1>1, <1>3 DEF SenderSame, ReceiverSame
<1>5. Local(n, {})
  BY <1>1, <1>2, <1>4, SameIsSteady DEF Local
<1> QED  BY <1>4, <1>5, QuietDelivery

-----------------------------------------------------------------------------
(* recv_from_radio.                                                        *)

\* A broadcast changes the receiving side only.
LEMMA RecvBroadcastDelivery ==
  ASSUME IInv, IInv', DInv, NEW n \in Node, RecvBroadcast(n)
  PROVE  DInv'
<1>1. /\ rx[n] # <<>> /\ Take(n) /\ Head(rx[n]).destination = Broadcast
      /\ Accept(n, Head(rx[n]))
      /\ UNCHANGED <<bufferVars, log>>
  BY DEF RecvBroadcast
<1>2. PICK p \in Packet : p = Head(rx[n])
  BY <1>1, TakeSets
<1>3. /\ p \in ToSet(rx[n]) /\ ToSet(rx'[n]) \subseteq ToSet(rx[n])
      /\ \A m \in Node \ {n} : rx'[m] = rx[m]
  BY <1>1, <1>2, TakeSets
<1>4. p.destination = Broadcast /\ Accept(n, p)
  BY <1>1, <1>2
<1>5. \A m \in Node : SenderSame(m)
  BY <1>1 DEF SenderSame, bufferVars
<1>6. (\A m \in Node \ {n} : ReceiverSame(m)) /\ got[n] \subseteq got'[n]
  BY <1>4, AcceptEffects
<1>7. Local(n, {}) /\ Steady(n) /\ log'[n] = log[n]
  BY <1>3, <1>5, <1>6, SameIsSteady DEF Local, Steady
<1>8. /\ General /\ LogWell(n) /\ PacketsWell(n) /\ CountsWell(n) /\ TimeoutsWell(n)
  BY DEF DInv, General
<1>9. IsPart(p) /\ p.source # n
  <2>1. p.type = "data"
    BY <1>3, <1>4, <1>8, NodeAssumption DEF PacketsWell, Packet
  <2> QED  BY <1>3, <1>8, <2>1 DEF PacketsWell
<1>10. /\ GotWell(n)'
       /\ NumbersUnique /\ WhileUnique => RecordsWell(n)' /\ GotHeld(n)' /\ WholeWell(n)'
  BY <1>4, <1>7, <1>8, <1>9, AcceptDelivery
<1>11. LogWell(n)' /\ CountsWell(n)' /\ TimeoutsWell(n)'
  BY <1>7, <1>8, SteadyWell
<1>12. outBuffer'[n] = outBuffer[n] /\ Copies(n)' = Copies(n)
  BY <1>5, <1>7 DEF SenderSame, Steady
<1>13. AcksAnswer(n)
  BY <1>12 DEF AcksAnswer
<1>14. PacketsWell(n)'
  BY <1>7, <1>8, <1>12, PacketsStep
<1>15. ASSUME NumbersUnique', NumbersUnique, WhileUnique
       PROVE  AcksWell(n)' /\ AirWell(n)' /\ OutcomesWell(n)'
  <2>1. AcksWell(n) /\ AirWell(n) /\ OutcomesWell(n)
    BY <1>15 DEF WhileUnique
  <2>2. AcksWell(n)'
    BY <1>7, <1>8, <1>12, <2>1, AcksStep
  <2>3. AirWell(n)'
    BY <1>5, <1>7, <1>8, <1>13, <2>1, AirStays
  <2>4. OutcomesWell(n)'
    BY <1>7, <1>8, <2>1, OutcomesStay
  <2> QED  BY <2>2, <2>3, <2>4
<1> QED  BY <1>7, <1>10, <1>11, <1>13, <1>14, <1>15, Combine

\* The acknowledgement of a fragment that the receiver now holds joins its queue.
LEMMA RecvDataDelivery ==
  ASSUME IInv, IInv', DInv, NEW n \in Node, RecvData(n)
  PROVE  DInv'
<1>1. /\ rx[n] # <<>> /\ Take(n)
      /\ Head(rx[n]).destination = n /\ Head(rx[n]).type = "data"
      /\ Enqueue(n, <<AckOf(Head(rx[n]), n)>>) /\ Accept(n, Head(rx[n]))
      /\ UNCHANGED <<waiting, waiting_for_ack, log>>
  BY DEF RecvData
<1>2. PICK p \in Packet : p = Head(rx[n])
  BY <1>1, TakeSets
<1>3. PICK a \in Packet : a = AckOf(p, n)
  BY AckProperties
<1>4. /\ p \in ToSet(rx[n]) /\ ToSet(rx'[n]) \subseteq ToSet(rx[n])
      /\ \A m \in Node \ {n} : rx'[m] = rx[m]
  BY <1>1, <1>2, TakeSets
<1>5. /\ p.destination = n /\ p.type = "data" /\ IsUnicastData(p) /\ Accept(n, p)
      /\ outBuffer' = [outBuffer EXCEPT ![n] = @ \o <<a>>]
  BY <1>1, <1>2, <1>3, NodeAssumption DEF Enqueue, IsUnicastData
<1>6. /\ a.type = "ack" /\ a.source = n /\ a.destination = p.source
      /\ getHash(a) = getHash(p) /\ a.frag = p.frag /\ a.seq_number = p.seq_number
      /\ p.source \in Node
  BY <1>3 DEF AckOf, getHash, Packet
<1>7. /\ ToSet(outBuffer'[n]) = ToSet(outBuffer[n]) \cup {a}
      /\ \A m \in Node \ {n} : outBuffer'[m] = outBuffer[m]
  <2>1. outBuffer \in [Node -> Seq(Packet)] /\ outBuffer[n] \in Seq(Packet)
    BY Typed
  <2>2. <<a>> \in Seq(Packet) /\ ToSet(<<a>>) = {a}
    BY DEF ToSet
  <2>3. \A r \in Seq(Packet) :
           ToSet(outBuffer[n] \o r) = ToSet(outBuffer[n]) \cup ToSet(r)
    BY <2>1, QueueSets
  <2>4. ToSet(outBuffer[n] \o <<a>>) = ToSet(outBuffer[n]) \cup {a}
    BY <2>2, <2>3
  <2> QED  BY <1>5, <2>1, <2>4
<1>8. (\A m \in Node \ {n} : ReceiverSame(m)) /\ got[n] \subseteq got'[n]
  BY <1>5, AcceptEffects
<1>9. \A m \in Node \ {n} : SenderSame(m)
  BY <1>1, <1>7 DEF SenderSame
<1>10. Local(n, {}) /\ Steady(n) /\ log'[n] = log[n]
  <2>1. Copies(n)' = Copies(n)
    BY <1>1, <1>6, <1>7 DEF Copies, IsUnicastData
  <2> QED  BY <1>1, <1>4, <1>8, <1>9, <2>1 DEF Local, Steady, LogGrows
<1>11. /\ General /\ LogWell(n) /\ PacketsWell(n) /\ CountsWell(n) /\ TimeoutsWell(n)
  BY DEF DInv, General
<1>12. IsPart(p) /\ p.source # n
  BY <1>4, <1>5, <1>11 DEF PacketsWell
<1>13. /\ GotWell(n)'
       /\ NumbersUnique /\ WhileUnique =>
            /\ RecordsWell(n)' /\ GotHeld(n)' /\ WholeWell(n)'
            /\ log[p.source][p.msg].total = 1 => <<p.source, p.msg>> \in got'[n]
  BY <1>5, <1>10, <1>11, <1>12, AcceptDelivery
<1>14. LogWell(n)' /\ CountsWell(n)' /\ TimeoutsWell(n)'
  BY <1>10, <1>11, SteadyWell
<1>15. AcksAnswer(n)
  <2>1. DataOnAir(p.source, getHash(p))
    BY <1>4, <1>5 DEF DataOnAir
  <2> QED  BY <1>6, <1>7, <2>1 DEF AcksAnswer
<1>16. PacketsWell(n)'
  <2>1. Copies(n)' = Copies(n)
    BY <1>10 DEF Steady
  <2>2. \A q \in ToSet(outBuffer'[n]) :
           \/ q \in ToSet(outBuffer[n])
           \/ q.source = n /\ q.type = "ack" /\ q.destination \in Node
    BY <1>6, <1>7
  <2> QED  BY <1>10, <1>11, <2>1, <2>2, PacketsStep
<1>17. ASSUME NumbersUnique', NumbersUnique, WhileUnique
       PROVE  AcksWell(n)' /\ AirWell(n)' /\ OutcomesWell(n)'
  <2>1. AcksWell(n) /\ AirWell(n) /\ OutcomesWell(n)
    BY <1>17 DEF WhileUnique
  <2>2. AckFor(a)'
    <3>1. /\ p.msg \in DOMAIN log[p.source]
          /\ log[p.source][p.msg].seq = p.seq_number
          /\ log[p.source][p.msg].dest = n
          /\ p.frag \in FragsOf(log[p.source][p.msg].total)
      BY <1>5, <1>12 DEF IsPart
    <3>2. log'[p.source] = log[p.source]
      BY <1>1
    <3>3. log[p.source][p.msg].total = 1 => <<p.source, p.msg>> \in got'[n]
      BY <1>13, <1>17
    <3> QED  BY <1>6, <3>1, <3>2, <3>3 DEF AckFor
  <2>3. AcksWell(n)'
    <3>1. \A q \in ToSet(outBuffer'[n]) : q \in ToSet(outBuffer[n]) \/ AckFor(q)'
      BY <1>7, <2>2
    <3> QED  BY <1>10, <1>11, <2>1, <3>1, AcksStep
  <2>4. AirWell(n)'
    <3>1. ASSUME NEW h, OnAir(n, h)' PROVE OnAir(n, h)
      BY <1>10, <1>11, <1>15, <3>1, AirStep
    <3>2. \A h : InWaiting(n, h)' <=> InWaiting(n, h)
      BY <1>1 DEF InWaiting
    <3>3. \A q \in ToSet(outBuffer'[n]) : IsUnicastData(q) => q \in ToSet(outBuffer[n])
      BY <1>6, <1>7 DEF IsUnicastData
    <3>4. ASSUME NEW q \in ToSet(outBuffer'[n]), IsUnicastData(q),
                 ~InWaiting(n, getHash(q))'
          PROVE  ~OnAir(n, getHash(q))'
      BY <2>1, <3>1, <3>2, <3>3, <3>4 DEF AirWell
    <3> QED  BY <3>4 DEF AirWell
  <2>5. OutcomesWell(n)'
    BY <1>10, <1>11, <2>1, OutcomesStay
  <2> QED  BY <2>3, <2>4, <2>5
<1> QED  BY <1>10, <1>13, <1>14, <1>15, <1>16, <1>17, Combine

\* What accomplishAck does: the packet of the acknowledgement's hash is forgotten if
\* it was sent, and the acknowledgement is counted.
Answers(n, p) ==
  p.seq_number \in DOMAIN waiting_for_ack[n] /\
    waiting_for_ack[n][p.seq_number].received + 1 = waiting_for_ack[n][p.seq_number].total

AckEffect(n, p) ==
  LET s == p.seq_number
  IN /\ p \in Packet /\ p \in ToSet(rx[n]) /\ p.type = "ack" /\ p.destination = n
     /\ Local(n, {}) /\ ReceiverSame(n)
     /\ ToSet(outBuffer'[n]) \subseteq ToSet(outBuffer[n])
     /\ Copies(n)' = {q \in Copies(n) : InWaiting(n, getHash(p)) => getHash(q) # getHash(p)}
     /\ \A g : InWaiting(n, g)' <=> InWaiting(n, g) /\ g # getHash(p)
     /\ waiting_for_ack'[n] =
          IF Answers(n, p) THEN Erase(waiting_for_ack[n], {s})
          ELSE IF s \in DOMAIN waiting_for_ack[n] THEN CountedIn(waiting_for_ack[n], s)
          ELSE waiting_for_ack[n]
     /\ log'[n] = IF Answers(n, p) THEN SentIn(log[n], waiting_for_ack[n][s].msg)
                  ELSE log[n]

\* What the handler of an acknowledgement assigns, with its packet named.
LEMMA RecvAckAssigns ==
  ASSUME IInv, NEW n \in Node, RecvAck(n)
  PROVE  \E p \in Packet :
           LET h == getHash(p)
               s == p.seq_number
           IN /\ p \in ToSet(rx[n]) /\ p.type = "ack" /\ p.destination = n
              /\ outBuffer'[n] =
                   IF InWaiting(n, h) /\ waiting[n][h].queued
                   THEN Without(outBuffer[n], waiting[n][h].pkt) ELSE outBuffer[n]
              /\ waiting'[n] = IF InWaiting(n, h) THEN Erase(waiting[n], {h})
                               ELSE Put(waiting[n], h, NULL)
              /\ waiting_for_ack'[n] =
                   IF Answers(n, p) THEN Erase(waiting_for_ack[n], {s})
                   ELSE IF s \in DOMAIN waiting_for_ack[n] THEN CountedIn(waiting_for_ack[n], s)
                   ELSE waiting_for_ack[n]
              /\ log'[n] = IF Answers(n, p) THEN SentIn(log[n], waiting_for_ack[n][s].msg)
                           ELSE log[n]
              /\ \A m \in Node \ {n} : SenderSame(m)
              /\ \A m \in Node : ReceiverSame(m)
              /\ ToSet(rx'[n]) \subseteq ToSet(rx[n])
              /\ \A m \in Node \ {n} : rx'[m] = rx[m]
<1>1. rx[n] # <<>> /\ Take(n) /\ UNCHANGED recvVars
  BY DEF RecvAck
<1>2. PICK p \in Packet : p = Head(rx[n])
  BY <1>1, TakeSets
<1> DEFINE h == getHash(p)
           s == p.seq_number
           q1 == IF InWaiting(n, h) /\ waiting[n][h].queued
                 THEN Without(outBuffer[n], waiting[n][h].pkt) ELSE outBuffer[n]
           w1 == IF InWaiting(n, h) THEN Erase(waiting[n], {h})
                 ELSE Put(waiting[n], h, NULL)
           c1 == IF Answers(n, p) THEN Erase(waiting_for_ack[n], {s})
                 ELSE IF s \in DOMAIN waiting_for_ack[n] THEN CountedIn(waiting_for_ack[n], s)
                 ELSE waiting_for_ack[n]
           l1 == IF Answers(n, p) THEN SentIn(log[n], waiting_for_ack[n][s].msg) ELSE log[n]
<1>3. p \in ToSet(rx[n]) /\ p.type = "ack" /\ p.destination = n
  BY <1>1, <1>2, TakeSets DEF RecvAck
<1>4. outBuffer' = [outBuffer EXCEPT ![n] = q1]
  BY <1>2 DEF RecvAck, InWaiting
<1>5. waiting' = [waiting EXCEPT ![n] = w1]
  BY <1>2 DEF RecvAck, InWaiting
<1>6. waiting_for_ack' = [waiting_for_ack EXCEPT ![n] = c1]
  BY <1>2 DEF RecvAck, Answers
<1>7. log' = [log EXCEPT ![n] = l1]
  BY <1>2 DEF RecvAck, Answers
<1>8. /\ ToSet(rx'[n]) \subseteq ToSet(rx[n])
      /\ \A m \in Node \ {n} : rx'[m] = rx[m]
  BY <1>1, TakeSets
<1> HIDE DEF q1, w1, c1, l1
<1>9. /\ outBuffer'[n] = q1 /\ waiting'[n] = w1 /\ waiting_for_ack'[n] = c1 /\ log'[n] = l1
      /\ \A m \in Node \ {n} : SenderSame(m)
  BY <1>4, <1>5, <1>6, <1>7, Typed DEF SenderSame
<1>10. \A m \in Node : ReceiverSame(m)
  BY <1>1 DEF recvVars, ReceiverSame
<1> QED  BY <1>3, <1>8, <1>9, <1>10 DEF q1, w1, c1, l1

\* The history after SENT.
LEMMA SentInLog ==
  ASSUME NEW l \in Seq(LogEntry), NEW k \in DOMAIN l
  PROVE  /\ DOMAIN SentIn(l, k) = DOMAIN l
         /\ \A i \in DOMAIN l : i # k => SentIn(l, k)[i] = l[i]
         /\ SentIn(l, k)[k].dest = l[k].dest /\ SentIn(l, k)[k].total = l[k].total
         /\ SentIn(l, k)[k].seq = l[k].seq /\ SentIn(l, k)[k].timeouts = l[k].timeouts
         /\ SentIn(l, k)[k].sent = l[k].sent + 1
<1>1. l[k] \in LogEntry /\ l = [i \in DOMAIN l |-> l[i]]
  BY ElementOfSeq, LenProperties
<1>2. ASSUME NEW x \in LogEntry, NEW y, y = [x EXCEPT !.sent = @ + 1]
      PROVE  /\ y.dest = x.dest /\ y.total = x.total /\ y.seq = x.seq
             /\ y.timeouts = x.timeouts /\ y.sent = x.sent + 1
  BY <1>2 DEF LogEntry
<1>3. /\ DOMAIN SentIn(l, k) = DOMAIN l
      /\ \A i \in DOMAIN l : i # k => SentIn(l, k)[i] = l[i]
      /\ SentIn(l, k)[k] = [l[k] EXCEPT !.sent = @ + 1]
  BY <1>1 DEF SentIn
<1> QED  BY <1>1, <1>2, <1>3

\* Forgetting the packet of an entry removes one packet from those that may be sent;
\* a null entry removes none.
LEMMA AckCopies ==
  ASSUME IInv, NEW n \in Node, NEW h,
         outBuffer'[n] = IF InWaiting(n, h) /\ waiting[n][h].queued
                         THEN Without(outBuffer[n], waiting[n][h].pkt) ELSE outBuffer[n],
         waiting'[n] = IF InWaiting(n, h) THEN Erase(waiting[n], {h})
                       ELSE Put(waiting[n], h, NULL)
  PROVE  /\ ToSet(outBuffer'[n]) \subseteq ToSet(outBuffer[n])
         /\ \A g : InWaiting(n, g)' <=> InWaiting(n, g) /\ g # h
         /\ \A g : InWaiting(n, g)' => waiting'[n][g] = waiting[n][g]
         /\ Copies(n)' = {q \in Copies(n) : InWaiting(n, h) => getHash(q) # h}
<1>1. /\ outBuffer[n] \in Seq(Packet) /\ AtMostOnce(outBuffer[n])
  BY Typed DEF IInv, QueuedOnce, QueueMatches
<1>2. CASE ~InWaiting(n, h)
  <2>1. /\ outBuffer'[n] = outBuffer[n]
        /\ DOMAIN waiting'[n] = DOMAIN waiting[n] \cup {h}
        /\ \A g \in DOMAIN waiting[n] : g # h => waiting'[n][g] = waiting[n][g]
        /\ waiting'[n][h] = NULL
    BY <1>2 DEF Put
  <2>2. \A g : InWaiting(n, g)' <=> InWaiting(n, g) /\ g # h
    BY <1>2, <2>1 DEF InWaiting
  <2>3. \A g : InWaiting(n, g)' => waiting'[n][g] = waiting[n][g]
    BY <2>1 DEF InWaiting
  <2>4. Copies(n)' = Copies(n)
    <3>1. \A g : (g \in DOMAIN waiting'[n] /\ waiting'[n][g] # NULL)
                    <=> (g \in DOMAIN waiting[n] /\ waiting[n][g] # NULL)
      BY <1>2, <2>1 DEF InWaiting
    <3>2. \A g : g \in DOMAIN waiting'[n] /\ waiting'[n][g] # NULL
                   => waiting'[n][g] = waiting[n][g]
      BY <2>1
    <3>3. {waiting'[n][g].pkt : g \in {x \in DOMAIN waiting'[n] : waiting'[n][x] # NULL}}
            = {waiting[n][g].pkt : g \in {x \in DOMAIN waiting[n] : waiting[n][x] # NULL}}
      BY <3>1, <3>2
    <3> QED  BY <2>1, <3>3 DEF Copies
  <2> QED  BY <1>2, <2>1, <2>2, <2>3, <2>4
<1>3. CASE InWaiting(n, h)
  <2> DEFINE x == waiting[n][h].pkt
  <2>1. /\ DOMAIN waiting'[n] = DOMAIN waiting[n] \ {h}
        /\ \A g \in DOMAIN waiting'[n] : waiting'[n][g] = waiting[n][g]
    BY <1>3 DEF Erase
  <2>2. /\ x \in Packet /\ IsUnicastData(x) /\ getHash(x) = h
        /\ waiting[n][h].queued <=> x \in ToSet(outBuffer[n])
        /\ \A q \in ToSet(outBuffer[n]) : IsUnicastData(q) /\ getHash(q) = h => q = x
    BY <1>3, WaitingEntries
  <2>3. /\ ToSet(Without(outBuffer[n], x)) \subseteq ToSet(outBuffer[n])
        /\ ToSet(outBuffer[n]) \ {x} \subseteq ToSet(Without(outBuffer[n], x))
        /\ x \notin ToSet(Without(outBuffer[n], x))
    BY <1>1, <2>2, WithoutSet
  <2>4. outBuffer'[n] = IF waiting[n][h].queued THEN Without(outBuffer[n], x)
                        ELSE outBuffer[n]
    BY <1>3
  <2> HIDE DEF x
  <2>5. ToSet(outBuffer'[n]) = ToSet(outBuffer[n]) \ {x}
    BY <2>2, <2>3, <2>4
  <2>6. \A g : InWaiting(n, g)' <=> InWaiting(n, g) /\ g # h
    BY <2>1 DEF InWaiting
  <2>7. \A g : InWaiting(n, g)' => waiting'[n][g] = waiting[n][g]
    BY <2>1 DEF InWaiting
  <2>8. \A g : InWaiting(n, g) => getHash(waiting[n][g].pkt) = g
    BY WaitingEntries
  <2>9. ASSUME NEW q
        PROVE  q \in Copies(n)' <=> q \in Copies(n) /\ getHash(q) # h
    <3>1. q \in Copies(n) <=>
            \/ q \in ToSet(outBuffer[n]) /\ IsUnicastData(q)
            \/ \E g : InWaiting(n, g) /\ q = waiting[n][g].pkt
      BY DEF Copies, InWaiting
    <3>2. q \in Copies(n)' <=>
            \/ q \in ToSet(outBuffer'[n]) /\ IsUnicastData(q)
            \/ \E g : InWaiting(n, g)' /\ q = waiting'[n][g].pkt
      BY DEF Copies, InWaiting, IsUnicastData
    <3> QED  BY <2>2, <2>5, <2>6, <2>7, <2>8, <3>1, <3>2
  <2>10. Copies(n)' = {q \in Copies(n) : getHash(q) # h}
    BY <2>9
  <2> QED  BY <1>3, <2>5, <2>6, <2>7, <2>10
<1> QED  BY <1>2, <1>3

\* Every step of accomplishAck has that effect.
LEMMA RecvAckEffects ==
  ASSUME IInv, DInv, NEW n \in Node, RecvAck(n)
  PROVE  \E p \in Packet : AckEffect(n, p)
<1>1. PICK p \in Packet :
        LET h == getHash(p)
            s == p.seq_number
        IN /\ p \in ToSet(rx[n]) /\ p.type = "ack" /\ p.destination = n
           /\ outBuffer'[n] =
                IF InWaiting(n, h) /\ waiting[n][h].queued
                THEN Without(outBuffer[n], waiting[n][h].pkt) ELSE outBuffer[n]
           /\ waiting'[n] = IF InWaiting(n, h) THEN Erase(waiting[n], {h})
                            ELSE Put(waiting[n], h, NULL)
           /\ waiting_for_ack'[n] =
                IF Answers(n, p) THEN Erase(waiting_for_ack[n], {s})
                ELSE IF s \in DOMAIN waiting_for_ack[n] THEN CountedIn(waiting_for_ack[n], s)
                ELSE waiting_for_ack[n]
           /\ log'[n] = IF Answers(n, p) THEN SentIn(log[n], waiting_for_ack[n][s].msg)
                        ELSE log[n]
           /\ \A m \in Node \ {n} : SenderSame(m)
           /\ \A m \in Node : ReceiverSame(m)
           /\ ToSet(rx'[n]) \subseteq ToSet(rx[n])
           /\ \A m \in Node \ {n} : rx'[m] = rx[m]
  BY RecvAckAssigns
<1>2. /\ ToSet(outBuffer'[n]) \subseteq ToSet(outBuffer[n])
      /\ Copies(n)' = {q \in Copies(n) : InWaiting(n, getHash(p)) => getHash(q) # getHash(p)}
      /\ \A g : InWaiting(n, g)' <=> InWaiting(n, g) /\ g # getHash(p)
  <2>1. PICK h : h = getHash(p)
    OBVIOUS
  <2>2. /\ outBuffer'[n] = IF InWaiting(n, h) /\ waiting[n][h].queued
                           THEN Without(outBuffer[n], waiting[n][h].pkt) ELSE outBuffer[n]
        /\ waiting'[n] = IF InWaiting(n, h) THEN Erase(waiting[n], {h})
                         ELSE Put(waiting[n], h, NULL)
    BY <1>1, <2>1
  <2>3. /\ ToSet(outBuffer'[n]) \subseteq ToSet(outBuffer[n])
        /\ Copies(n)' = {q \in Copies(n) : InWaiting(n, h) => getHash(q) # h}
        /\ \A g : InWaiting(n, g)' <=> InWaiting(n, g) /\ g # h
    BY <2>2, AckCopies
  <2> QED  BY <2>1, <2>3
<1>3. LogGrows(n)
  <2>1. CASE ~Answers(n, p)
    BY <1>1, <2>1 DEF LogGrows
  <2>2. CASE Answers(n, p)
    <3>1. PICK k \in DOMAIN log[n] : k = waiting_for_ack[n][p.seq_number].msg
      BY <2>2 DEF Answers, DInv, General, CountsWell
    <3>2. log'[n] = SentIn(log[n], k)
      BY <1>1, <2>2, <3>1
    <3>3. log[n] \in Seq(LogEntry)
      BY Typed
    <3> QED  BY <3>2, <3>3, SentInLog DEF LogGrows
  <2> QED  BY <2>1, <2>2
<1>4. Local(n, {})
  BY <1>1, <1>3 DEF Local, ReceiverSame
<1>5. AckEffect(n, p)
  BY <1>1, <1>2, <1>4 DEF AckEffect
<1> QED  BY <1>5

\* A count that is not complete after an acknowledgement is matched by the packets
\* that are left: at most one was forgotten.
LEMMA AckCounts ==
  ASSUME IInv, IInv', General, NEW n \in Node, NEW p \in Packet, AckEffect(n, p)
  PROVE  CountsWell(n)'
<1>a. PICK h : h = getHash(p)
  OBVIOUS
<1>b. PICK s \in SeqNumber : s = p.seq_number
  BY DEF Packet
<1>1. /\ Copies(n)' = {q \in Copies(n) : InWaiting(n, h) => getHash(q) # h}
      /\ waiting_for_ack'[n] =
           IF Answers(n, p) THEN Erase(waiting_for_ack[n], {s})
           ELSE IF s \in DOMAIN waiting_for_ack[n] THEN CountedIn(waiting_for_ack[n], s)
           ELSE waiting_for_ack[n]
      /\ log'[n] = IF Answers(n, p) THEN SentIn(log[n], waiting_for_ack[n][s].msg)
                   ELSE log[n]
  BY <1>a, <1>b DEF AckEffect
<1>2. CountsWell(n) /\ Copies(n) \subseteq Packet /\ log[n] \in Seq(LogEntry)
  BY CopiesMembers, Typed DEF General
<1>3. ASSUME NEW t \in DOMAIN waiting_for_ack[n], t # s
      PROVE  /\ WithNumber(n, t)' = WithNumber(n, t)
             /\ log'[n][waiting_for_ack[n][t].msg] = log[n][waiting_for_ack[n][t].msg]
             /\ waiting_for_ack[n][t].msg \in DOMAIN log'[n]
  <2>1. \A q : getHash(q) = h => q.seq_number = s
    BY <1>a, <1>b DEF getHash
  <2>2. {q \in Copies(n)' : q.seq_number = t} = {q \in Copies(n) : q.seq_number = t}
    BY <1>1, <1>3, <2>1
  <2>3. WithNumber(n, t)' = WithNumber(n, t)
    BY <2>2 DEF WithNumber, Hashes, getHash
  <2>4. CASE ~Answers(n, p)
    BY <1>1, <1>2, <2>3, <2>4 DEF CountsWell
  <2>5. CASE Answers(n, p)
    <3>1. s \in DOMAIN waiting_for_ack[n]
      BY <1>b, <2>5 DEF Answers
    <3>2. PICK k \in DOMAIN log[n] : k = waiting_for_ack[n][s].msg /\ log[n][k].seq = s
      BY <1>2, <3>1 DEF CountsWell
    <3>3. PICK i \in DOMAIN log[n] : i = waiting_for_ack[n][t].msg /\ log[n][i].seq = t
      BY <1>2 DEF CountsWell
    <3>4. i # k
      BY <1>3, <3>2, <3>3
    <3>5. log'[n] = SentIn(log[n], k)
      BY <1>1, <2>5, <3>2
    <3>6. DOMAIN log'[n] = DOMAIN log[n] /\ log'[n][i] = log[n][i]
      BY <1>2, <3>4, <3>5, SentInLog
    <3> QED  BY <2>3, <3>3, <3>6
  <2> QED  BY <2>4, <2>5
<1>4. ASSUME s \in DOMAIN waiting_for_ack[n], ~Answers(n, p)
      PROVE  LET c == waiting_for_ack[n][s]
             IN /\ c.received + 1 < c.total
                /\ c.total <= c.received + 1 + Cardinality(WithNumber(n, s)')
  <2> DEFINE c == waiting_for_ack[n][s]
             S == {q \in Copies(n) : q.seq_number = s}
             T == {q \in Copies(n)' : q.seq_number = s}
  <2>1. /\ c \in Count /\ c.received < c.total
        /\ c.total <= c.received + Cardinality(WithNumber(n, s))
    BY <1>2, <1>4, Typed DEF CountsWell
  <2>2. c.received + 1 # c.total
    BY <1>b, <1>4 DEF Answers
  <2>3. WithNumber(n, s) = Hashes(S) /\ WithNumber(n, s)' = Hashes(T)
    BY DEF WithNumber, Hashes, getHash
  <2>4. S \in SUBSET Packet /\ T \in SUBSET Packet
    BY <1>1, <1>2
  <2>5. Hashes(S) \ {h} \subseteq Hashes(T)
    BY <1>1 DEF Hashes
  <2>6. c.total \in Nat /\ c.received \in Nat
    BY <2>1 DEF Count
  <2> HIDE DEF c, S, T
  <2>7. /\ IsFiniteSet(Hashes(S)) /\ IsFiniteSet(Hashes(T))
        /\ Cardinality(Hashes(S)) \in Nat /\ Cardinality(Hashes(T)) \in Nat
    BY <2>4, HashesFinite
  <2>8. Cardinality(Hashes(S)) <= Cardinality(Hashes(T)) + 1
    <3>1. /\ Cardinality(Hashes(S) \ {h}) = IF h \in Hashes(S) THEN Cardinality(Hashes(S)) - 1
                                          ELSE Cardinality(Hashes(S))
      BY <2>7, FS_RemoveElement
    <3>2. Cardinality(Hashes(S) \ {h}) <= Cardinality(Hashes(T))
      BY <2>5, <2>7, FS_Subset
    <3> QED  BY <2>7, <3>1, <3>2
  <2>9. c.received + 1 < c.total
    BY <2>1, <2>2, <2>6
  <2>10. c.total <= c.received + 1 + Cardinality(Hashes(T))
    BY <2>1, <2>3, <2>6, <2>7, <2>8
  <2> QED  BY <2>3, <2>9, <2>10 DEF c
<1>5. ASSUME NEW t \in DOMAIN waiting_for_ack'[n]
      PROVE  LET c == waiting_for_ack'[n][t]
                 m == log'[n][c.msg]
             IN /\ c.msg \in DOMAIN log'[n]
                /\ m.seq = t /\ m.total = c.total /\ m.dest # Broadcast
                /\ m.sent = 0 /\ m.timeouts = 0
                /\ c.received < c.total
                /\ c.total <= c.received + Cardinality(WithNumber(n, t)')
  <2>1. CASE t # s
    <3>1. /\ t \in DOMAIN waiting_for_ack[n]
          /\ waiting_for_ack'[n][t] = waiting_for_ack[n][t]
      BY <1>1, <1>5, <2>1 DEF Erase, CountedIn
    <3>2. PICK k : k = waiting_for_ack[n][t].msg
      OBVIOUS
    <3>3. /\ WithNumber(n, t)' = WithNumber(n, t)
          /\ log'[n][k] = log[n][k] /\ k \in DOMAIN log'[n]
      BY <1>3, <2>1, <3>1, <3>2
    <3>4. /\ log[n][k].seq = t /\ log[n][k].total = waiting_for_ack[n][t].total
          /\ log[n][k].dest # Broadcast /\ log[n][k].sent = 0 /\ log[n][k].timeouts = 0
          /\ waiting_for_ack[n][t].received < waiting_for_ack[n][t].total
          /\ waiting_for_ack[n][t].total <=
               waiting_for_ack[n][t].received + Cardinality(WithNumber(n, t))
      BY <1>2, <3>1, <3>2 DEF CountsWell
    <3> QED  BY <3>1, <3>2, <3>3, <3>4
  <2>2. CASE t = s
    <3>1. s \in DOMAIN waiting_for_ack[n] /\ ~Answers(n, p)
      BY <1>1, <1>5, <1>b, <2>2 DEF Erase, CountedIn
    <3>2. PICK c \in Count : c = waiting_for_ack[n][s]
      BY <3>1, Typed
    <3>3. PICK d : d = waiting_for_ack'[n][s]
      OBVIOUS
    <3>4. d.msg = c.msg /\ d.total = c.total /\ d.received = c.received + 1
      <4>1. waiting_for_ack'[n] = CountedIn(waiting_for_ack[n], s)
        BY <1>1, <3>1
      <4>2. d = [c EXCEPT !.received = @ + 1]
        BY <3>1, <3>2, <3>3, <4>1 DEF CountedIn
      <4> QED  BY <4>2 DEF Count
    <3>5. /\ c.msg \in DOMAIN log[n]
          /\ log[n][c.msg].seq = s /\ log[n][c.msg].total = c.total
          /\ log[n][c.msg].dest # Broadcast
          /\ log[n][c.msg].sent = 0 /\ log[n][c.msg].timeouts = 0
      BY <1>2, <3>1, <3>2 DEF CountsWell
    <3>6. log'[n] = log[n]
      BY <1>1, <3>1
    <3>7. /\ c.received + 1 < c.total
          /\ c.total <= c.received + 1 + Cardinality(WithNumber(n, s)')
      BY <1>4, <3>1, <3>2
    <3> QED  BY <2>2, <3>3, <3>4, <3>5, <3>6, <3>7
  <2> QED  BY <2>1, <2>2
<1> QED  BY <1>5 DEF CountsWell

\* An acknowledgement ends a message of one packet after its destination received it,
\* and no packet of the acknowledged hash is left.
LEMMA RecvAckDelivery ==
  ASSUME IInv, IInv', DInv, NEW n \in Node, RecvAck(n)
  PROVE  DInv'
<1>1. PICK p \in Packet : AckEffect(n, p)
  BY RecvAckEffects
<1>a. PICK h : h = getHash(p)
  OBVIOUS
<1>b. PICK s \in SeqNumber : s = p.seq_number
  BY DEF Packet
<1>2. /\ p \in ToSet(rx[n]) /\ p.type = "ack" /\ p.destination = n
      /\ Local(n, {}) /\ ReceiverSame(n)
      /\ ToSet(outBuffer'[n]) \subseteq ToSet(outBuffer[n])
      /\ Copies(n)' = {q \in Copies(n) : InWaiting(n, h) => getHash(q) # h}
      /\ \A g : InWaiting(n, g)' <=> InWaiting(n, g) /\ g # h
      /\ log'[n] = IF Answers(n, p) THEN SentIn(log[n], waiting_for_ack[n][s].msg)
                   ELSE log[n]
  BY <1>1, <1>a, <1>b DEF AckEffect
<1>3. /\ General /\ LogWell(n) /\ PacketsWell(n) /\ CountsWell(n) /\ TimeoutsWell(n)
      /\ GotWell(n)
  BY DEF DInv, General
<1>4. /\ Copies(n) \subseteq Packet /\ Copies(n)' \subseteq Copies(n)
      /\ log[n] \in Seq(LogEntry)
      /\ \A i \in DOMAIN log[n] : i \in Nat /\ log[n][i] \in LogEntry
  BY <1>2, CopiesMembers, Typed
<1>5. \/ /\ ~Answers(n, p) /\ log'[n] = log[n]
      \/ \E k \in DOMAIN log[n] :
           /\ Answers(n, p) /\ k = waiting_for_ack[n][s].msg
           /\ waiting_for_ack[n][s].total = log[n][k].total
           /\ log[n][k].seq = s /\ log[n][k].sent = 0 /\ log[n][k].timeouts = 0
           /\ log[n][k].dest # Broadcast
           /\ DOMAIN log'[n] = DOMAIN log[n]
           /\ \A i \in DOMAIN log[n] : i # k => log'[n][i] = log[n][i]
           /\ log'[n][k].dest = log[n][k].dest /\ log'[n][k].total = log[n][k].total
           /\ log'[n][k].seq = log[n][k].seq /\ log'[n][k].timeouts = 0
           /\ log'[n][k].sent = 1
  <2>1. CASE ~Answers(n, p)
    BY <1>2, <2>1
  <2>2. CASE Answers(n, p)
    <3>1. s \in DOMAIN waiting_for_ack[n]
      BY <1>b, <2>2 DEF Answers
    <3>2. PICK k \in DOMAIN log[n] :
            /\ k = waiting_for_ack[n][s].msg
            /\ waiting_for_ack[n][s].total = log[n][k].total
            /\ log[n][k].seq = s /\ log[n][k].sent = 0 /\ log[n][k].timeouts = 0
            /\ log[n][k].dest # Broadcast
      BY <1>3, <3>1 DEF CountsWell
    <3>3. log'[n] = SentIn(log[n], k)
      BY <1>2, <2>2, <3>2
    <3>4. /\ DOMAIN log'[n] = DOMAIN log[n]
          /\ \A i \in DOMAIN log[n] : i # k => log'[n][i] = log[n][i]
          /\ log'[n][k].dest = log[n][k].dest /\ log'[n][k].total = log[n][k].total
          /\ log'[n][k].seq = log[n][k].seq /\ log'[n][k].timeouts = log[n][k].timeouts
          /\ log'[n][k].sent = log[n][k].sent + 1
      BY <1>4, <3>3, SentInLog
    <3>5. log'[n][k].timeouts = 0 /\ log'[n][k].sent = 1
      BY <3>2, <3>4
    <3> QED  BY <2>2, <3>2, <3>4, <3>5
  <2> QED  BY <2>1, <2>2
<1>6. AcksAnswer(n)
  BY <1>2 DEF AcksAnswer
<1>7. LogWell(n)'
  BY <1>3, <1>5 DEF LogWell
<1>8. PacketsWell(n)'
  BY <1>2, <1>3, <1>4, PacketsStep
<1>9. CountsWell(n)'
  BY <1>1, <1>3, AckCounts
<1>10. TimeoutsWell(n)'
  <2>1. ASSUME NEW i \in DOMAIN log[n]
        PROVE  log[n][i].timeouts + Cardinality(OfMessage(n, i)') <= log[n][i].total
    <3> DEFINE S == {q \in Copies(n) : q.msg = i}
               T == {q \in Copies(n)' : q.msg = i}
    <3>1. S \in SUBSET Packet /\ T \in SUBSET S
      BY <1>4
    <3>2. OfMessage(n, i) = Hashes(S) /\ OfMessage(n, i)' = Hashes(T)
      BY DEF OfMessage, Hashes, getHash
    <3>3. log[n][i].timeouts + Cardinality(OfMessage(n, i)) <= log[n][i].total
      BY <1>3 DEF TimeoutsWell
    <3>4. log[n][i].timeouts \in Nat /\ log[n][i].total \in Nat
      BY <1>4 DEF LogEntry
    <3> HIDE DEF S, T
    <3>5. /\ Cardinality(Hashes(T)) <= Cardinality(Hashes(S))
          /\ Cardinality(Hashes(T)) \in Nat /\ Cardinality(Hashes(S)) \in Nat
      BY <3>1, HashesFinite
    <3> QED  BY <3>2, <3>3, <3>4, <3>5
  <2>2. /\ DOMAIN log'[n] = DOMAIN log[n]
        /\ \A i \in DOMAIN log[n] : /\ log'[n][i].timeouts = log[n][i].timeouts
                                    /\ log'[n][i].total = log[n][i].total
    BY <1>5
  <2> QED  BY <2>1, <2>2 DEF TimeoutsWell
<1>11. GotWell(n)' /\ got'[n] = got[n]
  BY <1>2, <1>3, GotStays DEF ReceiverSame
<1>12. ASSUME NumbersUnique', NumbersUnique, WhileUnique
       PROVE  /\ AcksWell(n)' /\ AirWell(n)' /\ OutcomesWell(n)'
              /\ RecordsWell(n)' /\ GotHeld(n)' /\ WholeWell(n)'
  <2>1. /\ AcksWell(n) /\ AirWell(n) /\ OutcomesWell(n)
        /\ RecordsWell(n) /\ GotHeld(n) /\ WholeWell(n)
    BY <1>12 DEF WhileUnique
  <2>2. AcksWell(n)'
    BY <1>2, <1>3, <2>1, AcksStep
  <2>3. RecordsWell(n)' /\ GotHeld(n)' /\ WholeWell(n)'
    BY <1>2, <1>3, <2>1, ReceiverStays
  <2>4. \A q \in Copies(n)' : getHash(q) # h
    <3>1. OnAir(n, h)
      BY <1>2, <1>a DEF OnAir, AckOnAir
    <3>2. ASSUME NEW q \in Copies(n), getHash(q) = h PROVE InWaiting(n, h)
      BY <2>1, <3>1, <3>2, CopiesMembers DEF AirWell
    <3> QED  BY <1>2, <3>2
  <2>5. AirWell(n)'
    <3>1. ASSUME NEW g, OnAir(n, g)' PROVE OnAir(n, g)
      BY <1>2, <1>3, <1>6, <3>1, AirStep
    <3>2. \A q \in ToSet(outBuffer'[n]) : IsUnicastData(q) => q \in Copies(n)'
      BY DEF Copies, IsUnicastData
    <3>3. ASSUME NEW q \in ToSet(outBuffer'[n]), IsUnicastData(q),
                 ~InWaiting(n, getHash(q))'
          PROVE  ~OnAir(n, getHash(q))'
      <4>1. getHash(q) # h /\ ~InWaiting(n, getHash(q)) /\ q \in ToSet(outBuffer[n])
        BY <1>2, <2>4, <3>2, <3>3
      <4> QED  BY <2>1, <3>1, <3>3, <4>1 DEF AirWell
    <3> QED  BY <3>3 DEF AirWell
  <2>6. \A i \in DOMAIN log[n] :
           log[n][i].total = 1 =>
             /\ log[n][i].sent + log[n][i].timeouts <= 1
             /\ log[n][i].sent = 1 => <<n, i>> \in got'[log[n][i].dest]
             /\ log[n][i].sent + log[n][i].timeouts > 0 => \A q \in Copies(n)' : q.msg # i
    <3>1. ASSUME NEW i \in DOMAIN log[n], log[n][i].total = 1, log[n][i].sent = 1
          PROVE  <<n, i>> \in got'[log[n][i].dest]
      <4>1. log[n][i].dest \in Node
        BY <1>3, <1>4, <3>1 DEF LogWell, LogEntry
      <4> QED  BY <1>2, <2>1, <3>1, <4>1, FactsStay DEF OutcomesWell, Delivered
    <3> QED  BY <1>4, <2>1, <3>1 DEF OutcomesWell
  <2>7. OutcomesWell(n)'
    <3>1. CASE log'[n] = log[n]
      BY <2>6, <3>1 DEF OutcomesWell, Delivered
    <3>2. ASSUME NEW k \in DOMAIN log[n], Answers(n, p),
                 log[n][k].seq = s, log[n][k].dest # Broadcast,
                 DOMAIN log'[n] = DOMAIN log[n],
                 \A i \in DOMAIN log[n] : i # k => log'[n][i] = log[n][i],
                 log'[n][k].dest = log[n][k].dest, log'[n][k].total = log[n][k].total,
                 log'[n][k].timeouts = 0, log'[n][k].sent = 1
          PROVE  OutcomesWell(n)'
      <4>1. ASSUME log[n][k].total = 1
            PROVE  /\ <<n, k>> \in got'[log[n][k].dest]
                   /\ \A q \in Copies(n)' : q.msg # k
        <5>1. PICK i \in DOMAIN log[n] :
                /\ log[n][i].seq = s /\ log[n][i].dest = p.source
                /\ p.frag \in FragsOf(log[n][i].total)
                /\ log[n][i].total = 1 => <<n, i>> \in got[p.source]
          BY <1>2, <1>b, <2>1 DEF AcksWell, AckFor
        <5>2. i = k
          BY <1>12, <3>2, <5>1 DEF NumbersUnique
        <5>3. FragsOf(log[n][k].total) = {0}
          BY <4>1 DEF FragsOf
        <5>4. p.frag = 0 /\ h = <<0, s>>
          BY <1>a, <1>b, <5>1, <5>2, <5>3 DEF getHash
        <5>5. <<n, k>> \in got'[log[n][k].dest]
          <6>1. p.source \in Node /\ <<n, k>> \in got[p.source]
            BY <4>1, <5>1, <5>2 DEF Packet
          <6> QED  BY <1>2, <5>1, <5>2, <6>1, FactsStay
        <5>6. ASSUME NEW q \in Copies(n)', q.msg = k PROVE FALSE
          <6>1. q.source = n /\ IsPart(q)
            BY <1>3, <1>4, <5>6 DEF PacketsWell
          <6>2. q.frag = 0 /\ q.seq_number = s
            BY <3>2, <5>3, <5>6, <6>1 DEF IsPart
          <6> QED  BY <2>4, <5>4, <5>6, <6>2 DEF getHash
        <5> QED  BY <5>5, <5>6
      <4>2. ASSUME NEW i \in DOMAIN log'[n], log'[n][i].total = 1
            PROVE  /\ log'[n][i].sent + log'[n][i].timeouts <= 1
                   /\ log'[n][i].sent = 1 => <<n, i>> \in got'[log'[n][i].dest]
                   /\ log'[n][i].sent + log'[n][i].timeouts > 0 =>
                        \A q \in Copies(n)' : q.msg # i
        <5>1. CASE i = k
          BY <3>2, <4>1, <4>2, <5>1
        <5>2. CASE i # k
          BY <2>6, <3>2, <4>2, <5>2
        <5> QED  BY <5>1, <5>2
      <4> QED  BY <4>2 DEF OutcomesWell, Delivered
    <3> QED  BY <1>5, <3>1, <3>2
  <2> QED  BY <2>2, <2>3, <2>5, <2>7
<1> QED  BY <1>2, <1>6, <1>7, <1>8, <1>9, <1>10, <1>11, <1>12, Combine

-----------------------------------------------------------------------------
(* idleTick.                                                               *)

\* The packets of lost that are fragments of message i.
LostOf(n, lost, i) == {h \in lost : waiting[n][h].pkt.msg = i}

\* What idleTick does: the packets of lost are given up, others that were sent may
\* be queued again, and receive records are dropped with their messages noted.
Forgets(n) ==
  /\ DOMAIN receive_buffer'[n] \subseteq DOMAIN receive_buffer[n]
  /\ \A k \in DOMAIN receive_buffer'[n] : receive_buffer'[n][k] = receive_buffer[n][k]
  /\ inBuffer'[n] = inBuffer[n] /\ got'[n] = got[n]
  /\ \A g \in got[n] \ expired'[n] :
       /\ g \notin expired[n]
       /\ <<g[1], log[g[1]][g[2]].seq>> \in DOMAIN receive_buffer[n] =>
            <<g[1], log[g[1]][g[2]].seq>> \in DOMAIN receive_buffer'[n]

GivesUp(n, lost) ==
  /\ lost \subseteq Hash
  /\ \A h \in lost : InWaiting(n, h) /\ waiting[n][h].pkt \in Copies(n)
                     /\ getHash(waiting[n][h].pkt) = h
  /\ \A q \in ToSet(outBuffer[n]) : IsUnicastData(q) => getHash(q) \notin lost
  /\ \A q \in ToSet(outBuffer'[n]) :
       \/ q \in ToSet(outBuffer[n])
       \/ q \in Copies(n) /\ InWaiting(n, getHash(q))' /\ IsUnicastData(q)
  /\ Copies(n)' = {q \in Copies(n) : getHash(q) \notin lost}
  /\ \A g : InWaiting(n, g)' <=> InWaiting(n, g) /\ g \notin lost

TickEffect(n, lost) ==
  /\ GivesUp(n, lost)
  /\ \A m \in Node \ {n} : SenderSame(m) /\ ReceiverSame(m)
  /\ rx' = rx /\ Forgets(n)
  /\ waiting_for_ack'[n] = Erase(waiting_for_ack[n], GivenUp(lost))
  /\ DOMAIN log'[n] = DOMAIN log[n]
  /\ \A i \in DOMAIN log[n] :
       /\ log'[n][i].seq = log[n][i].seq /\ log'[n][i].dest = log[n][i].dest
       /\ log'[n][i].total = log[n][i].total /\ log'[n][i].sent = log[n][i].sent
       /\ log'[n][i].timeouts = log[n][i].timeouts + Cardinality(LostOf(n, lost, i))

\* The history after TIMEOUT events.
LEMMA TimedOutLog ==
  ASSUME IInv, NEW n \in Node, NEW lost, NEW l, l = TimedOutIn(n, lost)
  PROVE  /\ DOMAIN l = DOMAIN log[n]
         /\ \A i \in DOMAIN log[n] :
              /\ l[i].seq = log[n][i].seq /\ l[i].dest = log[n][i].dest
              /\ l[i].total = log[n][i].total /\ l[i].sent = log[n][i].sent
              /\ l[i].timeouts = log[n][i].timeouts + Cardinality(LostOf(n, lost, i))
<1>1. /\ DOMAIN l = DOMAIN log[n]
      /\ \A i \in DOMAIN log[n] :
           l[i] = [log[n][i] EXCEPT !.timeouts = @ + Cardinality(LostOf(n, lost, i))]
  BY DEF TimedOutIn, LostOf
<1>2. ASSUME NEW x \in LogEntry, NEW c, NEW y, y = [x EXCEPT !.timeouts = @ + c]
      PROVE  /\ y.dest = x.dest /\ y.total = x.total /\ y.seq = x.seq
             /\ y.sent = x.sent /\ y.timeouts = x.timeouts + c
  BY <1>2 DEF LogEntry
<1>3. ASSUME NEW i \in DOMAIN log[n]
      PROVE  /\ l[i].seq = log[n][i].seq /\ l[i].dest = log[n][i].dest
             /\ l[i].total = log[n][i].total /\ l[i].sent = log[n][i].sent
             /\ l[i].timeouts = log[n][i].timeouts + Cardinality(LostOf(n, lost, i))
  <2>1. PICK c : c = Cardinality(LostOf(n, lost, i))
    OBVIOUS
  <2>2. PICK x \in LogEntry : x = log[n][i]
    BY Typed
  <2>3. l[i] = [x EXCEPT !.timeouts = @ + c]
    BY <1>1, <2>1, <2>2
  <2> QED  BY <1>2, <2>1, <2>2, <2>3
<1> QED  BY <1>1, <1>3

\* The packets that may be sent after some were given up and some queued again.
LEMMA RequeuedCopies ==
  ASSUME IInv, NEW n \in Node, NEW due \in SUBSET Sent(n), NEW lost \in SUBSET due,
         NEW again \in Ordered(due \ lost), NEW r,
         r = [i \in DOMAIN again |-> waiting[n][again[i]].pkt],
         outBuffer'[n] = outBuffer[n] \o r, waiting'[n] = Requeued(n, due, lost)
  PROVE  GivesUp(n, lost)
<1>1. TypeOK /\ QueuedOnce
  BY DEF IInv
<1>2. \A h \in due : /\ h \in Hash /\ InWaiting(n, h) /\ ~waiting[n][h].queued
                     /\ waiting[n][h] \in [pkt : Packet, attempt : Nat, queued : BOOLEAN]
  BY <1>1, DueEntries DEF InWaiting
<1>3. \A h : InWaiting(n, h) =>
         /\ waiting[n][h].pkt \in Packet
         /\ IsUnicastData(waiting[n][h].pkt) /\ getHash(waiting[n][h].pkt) = h
         /\ waiting[n][h].pkt \in Copies(n)
         /\ waiting[n][h].queued <=> waiting[n][h].pkt \in ToSet(outBuffer[n])
         /\ \A q \in ToSet(outBuffer[n]) :
              IsUnicastData(q) /\ getHash(q) = h => q = waiting[n][h].pkt
  <2>1. \A h : InWaiting(n, h) => waiting[n][h].pkt \in Copies(n)
    BY DEF Copies, InWaiting
  <2> QED  BY <2>1, WaitingEntries
<1>4. r \in Seq(Packet) /\ outBuffer[n] \in Seq(Packet)
  <2>1. [i \in DOMAIN again |-> waiting[n][again[i]].pkt] \in Seq(Packet)
    BY <1>1, RequeueMatches
  <2>2. outBuffer[n] \in Seq(Packet)
    BY Typed
  <2> QED  BY <2>1, <2>2
<1>5. ToSet(outBuffer'[n]) = ToSet(outBuffer[n]) \cup ToSet(r)
  <2>1. \A t \in Seq(Packet) :
           ToSet(outBuffer[n] \o t) = ToSet(outBuffer[n]) \cup ToSet(t)
    BY <1>4, QueueSets
  <2> QED  BY <1>4, <2>1
<1>6. \A q : q \in ToSet(r) <=> \E g \in due \ lost : q = waiting[n][g].pkt
  <2>1. due \ lost \in SUBSET Hash
    BY <1>2
  <2>2. /\ again \in Seq(due \ lost)
        /\ \A h \in due \ lost : \E i \in DOMAIN again : again[i] = h
    BY <2>1, OrderedProperties
  <2>3. \A i \in DOMAIN again : again[i] \in due \ lost
    BY <2>2, LenProperties, ElementOfSeq
  <2> QED  BY <2>2, <2>3 DEF ToSet
<1>7. \A g : InWaiting(n, g)' <=> InWaiting(n, g) /\ g \notin lost
  <2>1. /\ DOMAIN waiting'[n] = DOMAIN waiting[n] \ lost
        /\ \A g \in DOMAIN waiting'[n] :
             waiting'[n][g] = IF g \in due THEN [waiting[n][g] EXCEPT !.queued = TRUE]
                              ELSE waiting[n][g]
    BY DEF Requeued
  <2>2. \A g \in due : [waiting[n][g] EXCEPT !.queued = TRUE]
                          \in [pkt : Packet, attempt : Nat, queued : BOOLEAN]
    BY <1>2
  <2>3. \A g \in due : [waiting[n][g] EXCEPT !.queued = TRUE] # NULL
    BY <2>2, EntryAssumption
  <2> QED  BY <1>2, <2>1, <2>3 DEF InWaiting
<1>8. \A g : InWaiting(n, g)' => waiting'[n][g].pkt = waiting[n][g].pkt
  BY <1>2 DEF InWaiting, Requeued
<1>9. \A q \in ToSet(outBuffer[n]) : IsUnicastData(q) => getHash(q) \notin lost
  BY <1>2, <1>3
<1>10. \A q \in ToSet(outBuffer'[n]) :
          \/ q \in ToSet(outBuffer[n])
          \/ q \in Copies(n) /\ InWaiting(n, getHash(q))' /\ IsUnicastData(q)
  BY <1>2, <1>3, <1>5, <1>6, <1>7
<1>11. ASSUME NEW q
       PROVE  q \in Copies(n)' <=> q \in Copies(n) /\ getHash(q) \notin lost
  <2>1. q \in Copies(n) <=>
          \/ q \in ToSet(outBuffer[n]) /\ IsUnicastData(q)
          \/ \E g : InWaiting(n, g) /\ q = waiting[n][g].pkt
    BY DEF Copies, InWaiting
  <2>2. q \in Copies(n)' <=>
          \/ q \in ToSet(outBuffer'[n]) /\ IsUnicastData(q)
          \/ \E g : InWaiting(n, g)' /\ q = waiting'[n][g].pkt
    BY DEF Copies, InWaiting, IsUnicastData
  <2>3. q \in Copies(n)' => q \in Copies(n) /\ getHash(q) \notin lost
    BY <1>3, <1>5, <1>7, <1>8, <1>9, <1>10, <2>1, <2>2
  <2>4. q \in Copies(n) /\ getHash(q) \notin lost => q \in Copies(n)'
    BY <1>3, <1>5, <1>7, <1>8, <2>1, <2>2
  <2> QED  BY <2>3, <2>4
<1>12. Copies(n)' = {q \in Copies(n) : getHash(q) \notin lost}
  BY <1>11
<1>13. /\ lost \subseteq Hash
       /\ \A h \in lost : InWaiting(n, h) /\ waiting[n][h].pkt \in Copies(n)
                          /\ getHash(waiting[n][h].pkt) = h
  BY <1>2, <1>3
<1> QED  BY <1>7, <1>9, <1>10, <1>12, <1>13 DEF GivesUp

\* Every step of idleTick has that effect.
LEMMA IdleTickEffects ==
  ASSUME IInv, NEW n \in Node, IdleTick(n)
  PROVE  \E lost : TickEffect(n, lost)
<1>1. PICK due \in SUBSET Sent(n), old \in SUBSET DOMAIN receive_buffer[n] :
        LET lost == {h \in due : Exhausted(n, h)}
        IN /\ \E again \in Ordered(due \ lost) :
                Enqueue(n, [i \in DOMAIN again |-> waiting[n][again[i]].pkt])
           /\ waiting' = [waiting EXCEPT ![n] = Requeued(n, due, lost)]
           /\ waiting_for_ack' = [waiting_for_ack EXCEPT ![n] = Erase(@, GivenUp(lost))]
           /\ log' = [log EXCEPT ![n] = TimedOutIn(n, lost)]
           /\ receive_buffer' = [receive_buffer EXCEPT ![n] = Erase(@, old)]
           /\ expired' = [expired EXCEPT ![n] = @ \cup
                {m \in got[n] : <<m[1], log[m[1]][m[2]].seq>> \in old}]
           /\ UNCHANGED <<rx, inBuffer, got>>
  BY DEF IdleTick
<1>2. PICK lost \in SUBSET due : lost = {h \in due : Exhausted(n, h)}
  OBVIOUS
<1>3. /\ \E again \in Ordered(due \ lost) :
           Enqueue(n, [i \in DOMAIN again |-> waiting[n][again[i]].pkt])
      /\ waiting' = [waiting EXCEPT ![n] = Requeued(n, due, lost)]
      /\ waiting_for_ack' = [waiting_for_ack EXCEPT ![n] = Erase(@, GivenUp(lost))]
      /\ log' = [log EXCEPT ![n] = TimedOutIn(n, lost)]
      /\ receive_buffer' = [receive_buffer EXCEPT ![n] = Erase(@, old)]
      /\ expired' = [expired EXCEPT ![n] = @ \cup
           {m \in got[n] : <<m[1], log[m[1]][m[2]].seq>> \in old}]
      /\ UNCHANGED <<rx, inBuffer, got>>
  BY <1>1, <1>2
<1>4. PICK again \in Ordered(due \ lost) :
        Enqueue(n, [i \in DOMAIN again |-> waiting[n][again[i]].pkt])
  BY <1>3
<1>5. PICK r : r = [i \in DOMAIN again |-> waiting[n][again[i]].pkt]
  OBVIOUS
<1>6. outBuffer' = [outBuffer EXCEPT ![n] = @ \o r]
  BY <1>4, <1>5 DEF Enqueue
<1>7. /\ DOMAIN waiting = Node /\ DOMAIN waiting_for_ack = Node
      /\ log \in [Node -> Seq(LogEntry)] /\ outBuffer \in [Node -> Seq(Packet)]
      /\ DOMAIN receive_buffer = Node
      /\ expired \in [Node -> SUBSET (Node \X Nat)]
  BY Typed
<1>8. /\ outBuffer'[n] = outBuffer[n] \o r /\ waiting'[n] = Requeued(n, due, lost)
      /\ waiting_for_ack'[n] = Erase(waiting_for_ack[n], GivenUp(lost))
      /\ log'[n] = TimedOutIn(n, lost)
      /\ receive_buffer'[n] = Erase(receive_buffer[n], old)
      /\ expired'[n] = expired[n] \cup
           {m \in got[n] : <<m[1], log[m[1]][m[2]].seq>> \in old}
  BY <1>3, <1>6, <1>7
<1>9. \A m \in Node \ {n} : SenderSame(m) /\ ReceiverSame(m)
  BY <1>3, <1>6, <1>7 DEF SenderSame, ReceiverSame
<1>10. Forgets(n)
  <2>1. /\ DOMAIN receive_buffer'[n] = DOMAIN receive_buffer[n] \ old
        /\ \A k \in DOMAIN receive_buffer'[n] : receive_buffer'[n][k] = receive_buffer[n][k]
    BY <1>8 DEF Erase
  <2>2. got'[n] = got[n] /\ inBuffer'[n] = inBuffer[n]
    BY <1>3
  <2>3. \A g \in got[n] \ expired'[n] :
           g \notin expired[n] /\ <<g[1], log[g[1]][g[2]].seq>> \notin old
    BY <1>8
  <2> QED  BY <2>1, <2>2, <2>3 DEF Forgets
<1>11. /\ DOMAIN log'[n] = DOMAIN log[n]
       /\ \A i \in DOMAIN log[n] :
            /\ log'[n][i].seq = log[n][i].seq /\ log'[n][i].dest = log[n][i].dest
            /\ log'[n][i].total = log[n][i].total /\ log'[n][i].sent = log[n][i].sent
            /\ log'[n][i].timeouts = log[n][i].timeouts + Cardinality(LostOf(n, lost, i))
  BY <1>8, TimedOutLog
<1>12. GivesUp(n, lost)
  <2>1. outBuffer'[n] = outBuffer[n] \o r /\ waiting'[n] = Requeued(n, due, lost)
    BY <1>8
  <2> QED  BY <1>5, <2>1, RequeuedCopies
<1>13. TickEffect(n, lost)
  BY <1>3, <1>8, <1>9, <1>10, <1>11, <1>12 DEF TickEffect
<1> QED  BY <1>13

\* Dropping receive records keeps the rest of the receiving side as it is.
LEMMA ForgetsStays ==
  ASSUME IInv, General, NEW n \in Node, NEW H, Local(n, H), Forgets(n)
  PROVE  /\ RecordsWell(n) => RecordsWell(n)'
         /\ GotHeld(n) => GotHeld(n)'
         /\ WholeWell(n) => WholeWell(n)'
<1>1. \A l \in Node : LogGrows(l)
  BY FactsStay
<1>2. ASSUME RecordsWell(n) PROVE RecordsWell(n)'
  <2>1. ASSUME NEW key \in DOMAIN receive_buffer'[n]
        PROVE  \E k \in DOMAIN log'[key[1]] :
                 /\ log'[key[1]][k].seq = key[2]
                 /\ RecordOf(receive_buffer'[n][key], log'[key[1]][k].total, k,
                             <<key[1], k>> \in got'[n])
    <3>1. /\ key \in DOMAIN receive_buffer[n]
          /\ receive_buffer'[n][key] = receive_buffer[n][key] /\ got'[n] = got[n]
      BY DEF Forgets
    <3>2. key[1] \in Node
      BY <3>1, Typed
    <3>3. PICK k \in DOMAIN log[key[1]] :
            /\ log[key[1]][k].seq = key[2]
            /\ RecordOf(receive_buffer[n][key], log[key[1]][k].total, k,
                        <<key[1], k>> \in got[n])
      BY <1>2, <3>1 DEF RecordsWell
    <3>4. /\ k \in DOMAIN log'[key[1]] /\ log'[key[1]][k].seq = key[2]
          /\ log'[key[1]][k].total = log[key[1]][k].total
      BY <1>1, <3>2, <3>3 DEF LogGrows
    <3> QED  BY <3>1, <3>3, <3>4
  <2> QED  BY <2>1 DEF RecordsWell
<1>3. ASSUME GotHeld(n) PROVE GotHeld(n)'
  <2>1. ASSUME NEW g \in got'[n] \ expired'[n]
        PROVE  /\ <<g[1], log'[g[1]][g[2]].seq>> \in DOMAIN receive_buffer'[n]
               /\ DOMAIN receive_buffer'[n][<<g[1], log'[g[1]][g[2]].seq>>].packets
                    = FragsOf(log'[g[1]][g[2]].total)
    <3>1. PICK key : key = <<g[1], log[g[1]][g[2]].seq>>
      OBVIOUS
    <3>2. /\ g \in got[n] \ expired[n]
          /\ key \in DOMAIN receive_buffer[n] => key \in DOMAIN receive_buffer'[n]
      BY <3>1 DEF Forgets
    <3>3. /\ key \in DOMAIN receive_buffer[n]
          /\ DOMAIN receive_buffer[n][key].packets = FragsOf(log[g[1]][g[2]].total)
      BY <1>3, <3>1, <3>2 DEF GotHeld
    <3>4. receive_buffer'[n][key] = receive_buffer[n][key]
      BY <3>2, <3>3 DEF Forgets
    <3>5. g[1] \in Node /\ g[2] \in DOMAIN log[g[1]]
      BY <3>2, Typed DEF General, GotWell
    <3>6. /\ log'[g[1]][g[2]].seq = log[g[1]][g[2]].seq
          /\ log'[g[1]][g[2]].total = log[g[1]][g[2]].total
      BY <1>1, <3>5 DEF LogGrows
    <3> QED  BY <3>1, <3>2, <3>3, <3>4, <3>6
  <2> QED  BY <2>1 DEF GotHeld
<1>4. ASSUME WholeWell(n) PROVE WholeWell(n)'
  <2>1. ASSUME NEW r \in ToSet(inBuffer'[n])
        PROVE  \E k \in DOMAIN log'[r.source] :
                 r.parts = [f \in FragsOf(log'[r.source][k].total) |-> k]
    <3>1. r \in ToSet(inBuffer[n])
      BY DEF Forgets
    <3>2. r.source \in Node
      BY <3>1 DEF IInv, TypeOK, ReceiverTypeOK, IsMessage
    <3>3. PICK k \in DOMAIN log[r.source] :
            r.parts = [f \in FragsOf(log[r.source][k].total) |-> k]
      BY <1>4, <3>1 DEF WholeWell
    <3>4. k \in DOMAIN log'[r.source] /\ log'[r.source][k].total = log[r.source][k].total
      BY <1>1, <3>2, <3>3 DEF LogGrows
    <3> QED  BY <3>3, <3>4
  <2> QED  BY <2>1 DEF WholeWell
<1> QED  BY <1>2, <1>3, <1>4

\* The fragments given up of a message: distinct from those that are left, and of
\* the message's own sequence number and destination.
LEMMA LostFragments ==
  ASSUME IInv, General, NEW n \in Node, NEW lost, TickEffect(n, lost),
         NEW i \in DOMAIN log[n]
  PROVE  /\ IsFiniteSet(LostOf(n, lost, i)) /\ Cardinality(LostOf(n, lost, i)) \in Nat
         /\ Cardinality(LostOf(n, lost, i)) + Cardinality(OfMessage(n, i)')
              <= Cardinality(OfMessage(n, i))
         /\ Cardinality(OfMessage(n, i)') \in Nat /\ Cardinality(OfMessage(n, i)) \in Nat
         /\ \A h \in LostOf(n, lost, i) :
              /\ h \in lost /\ h[2] = log[n][i].seq /\ h[1] \in FragsOf(log[n][i].total)
              /\ log[n][i].dest # Broadcast
              /\ waiting[n][h].pkt \in Copies(n) /\ waiting[n][h].pkt.msg = i
<1> DEFINE L == LostOf(n, lost, i)
           S == {q \in Copies(n) : q.msg = i}
           T == {q \in Copies(n)' : q.msg = i}
<1>1. /\ lost \subseteq Hash
      /\ \A h \in lost : waiting[n][h].pkt \in Copies(n) /\ getHash(waiting[n][h].pkt) = h
      /\ Copies(n)' = {q \in Copies(n) : getHash(q) \notin lost}
  BY DEF TickEffect, GivesUp
<1>2. /\ Copies(n) \subseteq Packet /\ \A q \in Copies(n) : IsUnicastData(q)
  BY CopiesMembers
<1>3. PacketsWell(n)
  BY DEF General
<1>4. ASSUME NEW h \in L
      PROVE  /\ h \in lost /\ h[2] = log[n][i].seq /\ h[1] \in FragsOf(log[n][i].total)
             /\ log[n][i].dest # Broadcast
             /\ waiting[n][h].pkt \in Copies(n) /\ waiting[n][h].pkt.msg = i
  <2>1. PICK q \in Copies(n) : q = waiting[n][h].pkt /\ getHash(q) = h /\ q.msg = i
    BY <1>1, <1>4 DEF LostOf
  <2>2. q.source = n /\ IsPart(q) /\ q.destination # Broadcast
    BY <1>2, <1>3, <2>1 DEF PacketsWell, IsUnicastData
  <2>3. /\ log[n][i].seq = q.seq_number /\ log[n][i].dest = q.destination
        /\ q.frag \in FragsOf(log[n][i].total)
    BY <2>1, <2>2 DEF IsPart
  <2> QED  BY <1>4, <2>1, <2>2, <2>3 DEF LostOf, getHash
<1>5. S \in SUBSET Packet /\ T \in SUBSET Packet
  BY <1>1, <1>2
<1>6. OfMessage(n, i) = Hashes(S) /\ OfMessage(n, i)' = Hashes(T)
  BY DEF OfMessage, Hashes, getHash
<1>7. L \subseteq Hashes(S)
  BY <1>1, <1>4 DEF Hashes
<1>8. Hashes(T) \subseteq Hashes(S) /\ L \cap Hashes(T) = {}
  BY <1>1, <1>4 DEF Hashes
<1> HIDE DEF L, S, T
<1>9. IsFiniteSet(Hashes(S)) /\ Cardinality(Hashes(S)) \in Nat
  BY <1>5, HashesFinite
<1>10. /\ IsFiniteSet(L) /\ Cardinality(L) \in Nat
       /\ IsFiniteSet(Hashes(T)) /\ Cardinality(Hashes(T)) \in Nat
  BY <1>7, <1>8, <1>9, FS_Subset, FS_CardinalityType
<1>11. Cardinality(L) + Cardinality(Hashes(T)) <= Cardinality(Hashes(S))
  <2>1. Cardinality(L \cup Hashes(T)) =
          Cardinality(L) + Cardinality(Hashes(T)) - Cardinality(L \cap Hashes(T))
    BY <1>10, FS_Union
  <2>2. Cardinality(L \cap Hashes(T)) = 0
    BY <1>8, FS_EmptySet
  <2>3. Cardinality(L \cup Hashes(T)) <= Cardinality(Hashes(S))
    BY <1>7, <1>8, <1>9, FS_Subset
  <2> QED  BY <1>9, <1>10, <2>1, <2>2, <2>3
<1> QED  BY <1>4, <1>6, <1>9, <1>10, <1>11 DEF L

\* A count goes with the first fragment that is given up: those that are left are
\* of messages that lost none.
LEMMA TickCounts ==
  ASSUME IInv, General, NEW n \in Node, NEW lost, TickEffect(n, lost)
  PROVE  CountsWell(n)'
<1>1. ASSUME NEW t \in DOMAIN waiting_for_ack'[n]
      PROVE  LET c == waiting_for_ack'[n][t]
                 m == log'[n][c.msg]
             IN /\ c.msg \in DOMAIN log'[n]
                /\ m.seq = t /\ m.total = c.total /\ m.dest # Broadcast
                /\ m.sent = 0 /\ m.timeouts = 0
                /\ c.received < c.total
                /\ c.total <= c.received + Cardinality(WithNumber(n, t)')
  <2>1. /\ t \in DOMAIN waiting_for_ack[n] /\ t \notin GivenUp(lost)
        /\ waiting_for_ack'[n][t] = waiting_for_ack[n][t]
    BY <1>1 DEF TickEffect, Erase
  <2>2. PICK c : c = waiting_for_ack[n][t]
    OBVIOUS
  <2>3. PICK k \in DOMAIN log[n] : k = c.msg
    BY <2>1, <2>2 DEF General, CountsWell
  <2>4. /\ log[n][k].seq = t /\ log[n][k].total = c.total /\ log[n][k].dest # Broadcast
        /\ log[n][k].sent = 0 /\ log[n][k].timeouts = 0
        /\ c.received < c.total
        /\ c.total <= c.received + Cardinality(WithNumber(n, t))
    BY <2>1, <2>2, <2>3 DEF General, CountsWell
  <2>5. LostOf(n, lost, k) = {}
    <3>1. ASSUME NEW h \in LostOf(n, lost, k) PROVE FALSE
      <4>1. h \in lost /\ h[2] = t
        BY <2>4, <3>1, LostFragments
      <4> QED  BY <2>1, <4>1 DEF GivenUp
    <3> QED  BY <3>1
  <2>6. /\ k \in DOMAIN log'[n] /\ log'[n][k].seq = t /\ log'[n][k].total = c.total
        /\ log'[n][k].dest # Broadcast /\ log'[n][k].sent = 0 /\ log'[n][k].timeouts = 0
    <3>1. Cardinality(LostOf(n, lost, k)) = 0
      BY <2>5, FS_EmptySet
    <3> QED  BY <2>4, <3>1 DEF TickEffect
  <2>7. WithNumber(n, t)' = WithNumber(n, t)
    <3>1. Copies(n)' = {q \in Copies(n) : getHash(q) \notin lost}
      BY DEF TickEffect, GivesUp
    <3>2. \A q : getHash(q) \in lost => q.seq_number # t
      BY <2>1 DEF GivenUp, getHash
    <3>3. {q \in Copies(n)' : q.seq_number = t} = {q \in Copies(n) : q.seq_number = t}
      BY <3>1, <3>2
    <3> QED  BY <3>3 DEF WithNumber, Hashes, getHash
  <2> QED  BY <2>1, <2>2, <2>3, <2>4, <2>6, <2>7
<1> QED  BY <1>1 DEF CountsWell

\* A message of one packet that is given up had no outcome before, and no packet of
\* it is left.
LEMMA LostOutcomes ==
  ASSUME IInv, General, NEW n \in Node, NEW lost, TickEffect(n, lost), OutcomesWell(n),
         NEW i \in DOMAIN log[n], log[n][i].total = 1, LostOf(n, lost, i) # {}
  PROVE  /\ log[n][i].sent = 0 /\ log[n][i].timeouts = 0
         /\ Cardinality(LostOf(n, lost, i)) = 1
         /\ \A q \in Copies(n)' : q.msg # i
<1>1. /\ Cardinality(LostOf(n, lost, i)) \in Nat
      /\ \A h \in LostOf(n, lost, i) :
           /\ h \in lost /\ h[2] = log[n][i].seq /\ h[1] \in FragsOf(log[n][i].total)
           /\ waiting[n][h].pkt \in Copies(n) /\ waiting[n][h].pkt.msg = i
  BY LostFragments
<1>2. PICK g \in LostOf(n, lost, i) : TRUE
  OBVIOUS
<1>3. FragsOf(log[n][i].total) = {0}
  BY DEF FragsOf
<1>4. lost \subseteq Hash
  BY DEF TickEffect, GivesUp
<1>5. \A h \in LostOf(n, lost, i) : h = <<0, log[n][i].seq>>
  BY <1>1, <1>3, <1>4 DEF Hash
<1>6. LostOf(n, lost, i) = {g}
  BY <1>2, <1>5
<1>7. Cardinality(LostOf(n, lost, i)) = 1
  BY <1>6, FS_Singleton
<1>8. ~(log[n][i].sent + log[n][i].timeouts > 0)
  BY <1>1, <1>2 DEF OutcomesWell
<1>9. log[n][i].sent \in Nat /\ log[n][i].timeouts \in Nat
  BY Typed DEF LogEntry
<1>10. ASSUME NEW q \in Copies(n)', q.msg = i PROVE FALSE
  <2>1. q \in Copies(n) /\ getHash(q) \notin lost
    BY <1>10 DEF TickEffect, GivesUp
  <2>2. IsPart(q) /\ q.source = n
    BY <2>1 DEF General, PacketsWell
  <2>3. q.frag = 0 /\ q.seq_number = log[n][i].seq
    BY <1>3, <1>10, <2>2 DEF IsPart
  <2>4. getHash(q) = g
    BY <1>2, <1>5, <2>3 DEF getHash
  <2> QED  BY <1>1, <1>2, <2>1, <2>4
<1> QED  BY <1>7, <1>8, <1>9, <1>10

\* A run of idleTick counts at most the fragments that are left of a message.
LEMMA IdleTickDelivery ==
  ASSUME IInv, IInv', DInv, NEW n \in Node, IdleTick(n)
  PROVE  DInv'
<1>1. PICK lost : TickEffect(n, lost)
  BY IdleTickEffects
<1>2. /\ General /\ LogWell(n) /\ PacketsWell(n) /\ CountsWell(n) /\ TimeoutsWell(n)
      /\ GotWell(n)
  BY DEF DInv, General
<1>3. /\ GivesUp(n, lost) /\ Forgets(n) /\ rx' = rx
      /\ DOMAIN log'[n] = DOMAIN log[n]
      /\ \A i \in DOMAIN log[n] :
           /\ log'[n][i].seq = log[n][i].seq /\ log'[n][i].dest = log[n][i].dest
           /\ log'[n][i].total = log[n][i].total /\ log'[n][i].sent = log[n][i].sent
           /\ log'[n][i].timeouts = log[n][i].timeouts + Cardinality(LostOf(n, lost, i))
  BY <1>1 DEF TickEffect
<1>4. Local(n, {})
  BY <1>1, <1>3 DEF Local, TickEffect, LogGrows, Forgets
<1>5. /\ \A q \in ToSet(outBuffer'[n]) :
            \/ q \in ToSet(outBuffer[n])
            \/ q \in Copies(n) /\ InWaiting(n, getHash(q))' /\ IsUnicastData(q)
      /\ Copies(n)' \subseteq Copies(n)
      /\ \A g : InWaiting(n, g)' <=> InWaiting(n, g) /\ g \notin lost
      /\ \A q \in ToSet(outBuffer[n]) : IsUnicastData(q) => getHash(q) \notin lost
  BY <1>3 DEF GivesUp
<1>6. AcksAnswer(n)
  BY <1>5 DEF AcksAnswer, IsUnicastData
<1>7. \A i \in DOMAIN log[n] :
        /\ i \in Nat /\ log[n][i] \in LogEntry
        /\ log[n][i].timeouts \in Nat /\ log[n][i].total \in Nat
        /\ Cardinality(LostOf(n, lost, i)) \in Nat
  BY <1>1, <1>2, Typed, LostFragments DEF LogEntry
<1>8. LogWell(n)'
  <2>1. ASSUME NEW i \in DOMAIN log[n], log[n][i].dest = Broadcast
        PROVE  Cardinality(LostOf(n, lost, i)) = 0
    <3>1. LostOf(n, lost, i) = {}
      BY <1>1, <1>2, <2>1, LostFragments
    <3> QED  BY <3>1, FS_EmptySet
  <2> QED  BY <1>2, <1>3, <1>7, <2>1 DEF LogWell
<1>9. PacketsWell(n)'
  BY <1>2, <1>4, <1>5, PacketsStep
<1>10. CountsWell(n)'
  BY <1>1, <1>2, TickCounts
<1>11. TimeoutsWell(n)'
  <2>1. ASSUME NEW i \in DOMAIN log[n]
        PROVE  log'[n][i].timeouts + Cardinality(OfMessage(n, i)') <= log'[n][i].total
    <3>1. /\ Cardinality(LostOf(n, lost, i)) + Cardinality(OfMessage(n, i)')
               <= Cardinality(OfMessage(n, i))
          /\ Cardinality(OfMessage(n, i)') \in Nat /\ Cardinality(OfMessage(n, i)) \in Nat
      BY <1>1, <1>2, LostFragments
    <3>2. log[n][i].timeouts + Cardinality(OfMessage(n, i)) <= log[n][i].total
      BY <1>2 DEF TimeoutsWell
    <3> QED  BY <1>3, <1>7, <3>1, <3>2
  <2> QED  BY <1>3, <2>1 DEF TimeoutsWell
<1>12. GotWell(n)' /\ got'[n] = got[n]
  BY <1>2, <1>3, <1>4, GotStays DEF Forgets
<1>13. ASSUME NumbersUnique', NumbersUnique, WhileUnique
       PROVE  /\ AcksWell(n)' /\ AirWell(n)' /\ OutcomesWell(n)'
              /\ RecordsWell(n)' /\ GotHeld(n)' /\ WholeWell(n)'
  <2>1. /\ AcksWell(n) /\ AirWell(n) /\ OutcomesWell(n)
        /\ RecordsWell(n) /\ GotHeld(n) /\ WholeWell(n)
    BY <1>13 DEF WhileUnique
  <2>2. AcksWell(n)'
    <3>1. \A q \in ToSet(outBuffer'[n]) : q \in ToSet(outBuffer[n]) \/ q.type # "ack"
      BY <1>5 DEF IsUnicastData
    <3> QED  BY <1>2, <1>4, <2>1, <3>1, AcksStep
  <2>3. RecordsWell(n)' /\ GotHeld(n)' /\ WholeWell(n)'
    BY <1>2, <1>3, <1>4, <2>1, ForgetsStays
  <2>4. AirWell(n)'
    <3>1. ASSUME NEW g, OnAir(n, g)' PROVE OnAir(n, g)
      BY <1>2, <1>4, <1>6, <3>1, AirStep
    <3>2. ASSUME NEW q \in ToSet(outBuffer'[n]), IsUnicastData(q),
                 ~InWaiting(n, getHash(q))'
          PROVE  ~OnAir(n, getHash(q))'
      <4>1. q \in ToSet(outBuffer[n]) /\ ~InWaiting(n, getHash(q))
        BY <1>5, <3>2
      <4> QED  BY <2>1, <3>1, <3>2, <4>1 DEF AirWell
    <3> QED  BY <3>2 DEF AirWell
  <2>5. OutcomesWell(n)'
    <3>1. ASSUME NEW i \in DOMAIN log[n], log[n][i].total = 1
          PROVE  /\ log'[n][i].sent + log'[n][i].timeouts <= 1
                 /\ log'[n][i].sent = 1 => <<n, i>> \in got'[log'[n][i].dest]
                 /\ log'[n][i].sent + log'[n][i].timeouts > 0 =>
                      \A q \in Copies(n)' : q.msg # i
      <4>1. CASE LostOf(n, lost, i) = {}
        <5>1. log'[n][i].timeouts = log[n][i].timeouts
          <6>1. Cardinality(LostOf(n, lost, i)) = 0
            BY <4>1, FS_EmptySet
          <6>2. log'[n][i].timeouts = log[n][i].timeouts + Cardinality(LostOf(n, lost, i))
            BY <1>3
          <6>3. log[n][i].timeouts \in Nat
            BY <1>7
          <6> QED  BY <6>1, <6>2, <6>3
        <5>2. /\ log[n][i].sent + log[n][i].timeouts <= 1
              /\ log[n][i].sent = 1 => <<n, i>> \in got[log[n][i].dest]
              /\ log[n][i].sent + log[n][i].timeouts > 0 =>
                   \A q \in Copies(n) : q.msg # i
          BY <2>1, <3>1 DEF OutcomesWell, Delivered
        <5>3. log[n][i].sent = 1 => log[n][i].dest \in Node
          BY <1>2, <1>7 DEF LogWell, LogEntry
        <5>4. log[n][i].sent = 1 => <<n, i>> \in got'[log[n][i].dest]
          BY <1>4, <5>2, <5>3, FactsStay
        <5> QED  BY <1>3, <1>5, <5>1, <5>2, <5>4
      <4>2. CASE LostOf(n, lost, i) # {}
        <5>1. /\ log[n][i].sent = 0 /\ log[n][i].timeouts = 0
              /\ Cardinality(LostOf(n, lost, i)) = 1
              /\ \A q \in Copies(n)' : q.msg # i
          BY <1>1, <1>2, <2>1, <3>1, <4>2, LostOutcomes
        <5> QED  BY <1>3, <5>1
      <4> QED  BY <4>1, <4>2
    <3> QED  BY <1>3, <3>1 DEF OutcomesWell, Delivered
  <2> QED  BY <2>2, <2>3, <2>4, <2>5
<1> QED  BY <1>4, <1>6, <1>8, <1>9, <1>10, <1>11, <1>12, <1>13, Combine

-----------------------------------------------------------------------------
(* A restart.                                                              *)

\* A node that restarts has nothing to send and nothing to read, and may read again
\* whatever it read before.
LEMMA RestartDelivery ==
  ASSUME IInv, IInv', DInv, NEW n \in Node, Restart(n)
  PROVE  DInv'
<1>1. /\ DOMAIN waiting = Node /\ DOMAIN waiting_for_ack = Node
      /\ outBuffer \in [Node -> Seq(Packet)] /\ rx \in [Node -> Seq(Packet)]
      /\ DOMAIN receive_buffer = Node /\ DOMAIN inBuffer = Node
      /\ expired \in [Node -> SUBSET (Node \X Nat)]
      /\ \A i \in DOMAIN log[n] : i \in Nat /\ log[n][i] \in LogEntry
  BY Typed
<1>2. /\ outBuffer'[n] = <<>> /\ waiting'[n] = <<>> /\ waiting_for_ack'[n] = <<>>
      /\ receive_buffer'[n] = <<>> /\ inBuffer'[n] = <<>> /\ expired'[n] = got[n]
      /\ rx'[n] = <<>> /\ log' = log /\ got' = got
      /\ \A m \in Node \ {n} : /\ SenderSame(m) /\ ReceiverSame(m)
                               /\ rx'[m] = rx[m]
  BY <1>1 DEF Restart, SenderSame, ReceiverSame
<1>3. /\ ToSet(outBuffer'[n]) = {} /\ ToSet(rx'[n]) = {} /\ ToSet(inBuffer'[n]) = {}
      /\ DOMAIN waiting'[n] = {} /\ DOMAIN waiting_for_ack'[n] = {}
      /\ DOMAIN receive_buffer'[n] = {} /\ got'[n] \ expired'[n] = {}
  BY <1>2 DEF ToSet
<1>4. Copies(n)' = {}
  BY <1>3 DEF Copies
<1>5. /\ General /\ LogWell(n) /\ PacketsWell(n) /\ CountsWell(n) /\ TimeoutsWell(n)
      /\ GotWell(n)
  BY DEF DInv, General
<1>6. Local(n, {}) /\ AcksAnswer(n)
  BY <1>2, <1>3 DEF Local, LogGrows, AcksAnswer
<1>7. LogWell(n)' /\ PacketsWell(n)' /\ CountsWell(n)' /\ got'[n] = got[n]
  BY <1>2, <1>3, <1>4, <1>5 DEF LogWell, PacketsWell, CountsWell
<1>8. GotWell(n)'
  BY <1>5, <1>6, <1>7, GotStays
<1>9. TimeoutsWell(n)'
  <2>1. ASSUME NEW i \in DOMAIN log[n]
        PROVE  log[n][i].timeouts + Cardinality(OfMessage(n, i)') <= log[n][i].total
    <3>1. OfMessage(n, i)' = {}
      BY <1>4 DEF OfMessage, Hashes
    <3>2. Cardinality(OfMessage(n, i)') = 0
      BY <3>1, FS_EmptySet
    <3>3. Cardinality(OfMessage(n, i)) \in Nat
      <4>1. {q \in Copies(n) : q.msg = i} \in SUBSET Packet
        BY CopiesMembers
      <4> QED  BY <4>1, HashesFinite DEF OfMessage
    <3>4. log[n][i].timeouts + Cardinality(OfMessage(n, i)) <= log[n][i].total
      BY <1>5 DEF TimeoutsWell
    <3>5. log[n][i].timeouts \in Nat /\ log[n][i].total \in Nat
      BY <1>1 DEF LogEntry
    <3> QED  BY <3>2, <3>3, <3>4, <3>5
  <2> QED  BY <1>2, <2>1 DEF TimeoutsWell
<1>10. ASSUME NumbersUnique', NumbersUnique, WhileUnique
       PROVE  /\ AcksWell(n)' /\ AirWell(n)' /\ OutcomesWell(n)'
              /\ RecordsWell(n)' /\ GotHeld(n)' /\ WholeWell(n)'
  <2>1. OutcomesWell(n)
    BY <1>10 DEF WhileUnique
  <2>2. OutcomesWell(n)'
    BY <1>2, <1>4, <2>1 DEF OutcomesWell, Delivered
  <2>3. AcksWell(n)' /\ AirWell(n)' /\ RecordsWell(n)' /\ GotHeld(n)' /\ WholeWell(n)'
    BY <1>3 DEF AcksWell, AirWell, RecordsWell, GotHeld, WholeWell
  <2> QED  BY <2>2, <2>3
<1> QED  BY <1>6, <1>7, <1>8, <1>9, <1>10, Combine

-----------------------------------------------------------------------------
(* The invariant holds in every state.                                     *)

\* At first there is no message, no packet and no record.
LEMMA InitDInv == Init => DInv
<1> SUFFICES ASSUME Init PROVE DInv
  OBVIOUS
<1>1. ASSUME NEW n \in Node
      PROVE  /\ ToSet(outBuffer[n]) = {} /\ ToSet(rx[n]) = {} /\ ToSet(inBuffer[n]) = {}
             /\ DOMAIN waiting[n] = {} /\ DOMAIN waiting_for_ack[n] = {}
             /\ DOMAIN receive_buffer[n] = {} /\ got[n] = {} /\ DOMAIN log[n] = {}
             /\ Copies(n) = {}
  BY DEF Init, ToSet, Copies
<1>2. General
  BY <1>1 DEF General, LogWell, PacketsWell, CountsWell, TimeoutsWell, GotWell
<1>3. WhileUnique
  BY <1>1 DEF WhileUnique, AcksWell, AirWell, OutcomesWell, RecordsWell, GotHeld, WholeWell
<1> QED  BY <1>2, <1>3 DEF DInv

\* Every step keeps it.
LEMMA NextDInv == IInv /\ DInv /\ [Next]_vars => DInv'
<1> SUFFICES ASSUME IInv, DInv, [Next]_vars PROVE DInv'
  OBVIOUS
<1>1. IInv'
  BY NextIInv
<1>2. CASE UNCHANGED vars
  <2>1. CASE Node = {}
    BY <2>1 DEF DInv, General, WhileUnique
  <2>2. CASE Node # {}
    BY <1>1, <1>2, <2>2, QuietSteps
  <2> QED  BY <2>1, <2>2
<1>3. ASSUME NEW n \in Node, Send(n) PROVE DInv'
  BY <1>1, <1>3, SendDelivery
<1>4. ASSUME NEW n \in Node, SendToRadio(n) PROVE DInv'
  BY <1>1, <1>4, SendToRadioDelivery
<1>5. ASSUME NEW n \in Node, SendToRadioFails(n) \/ SendToRadioIdle(n) PROVE DInv'
  BY <1>1, <1>5, QuietSteps
<1>6. ASSUME NEW n \in Node, RecvFromRadio(n) PROVE DInv'
  <2>1. RecvData(n) \/ RecvBroadcast(n) \/ RecvAck(n) \/ RecvOther(n)
    BY <1>6 DEF RecvFromRadio
  <2> QED  BY <1>1, <2>1, RecvDataDelivery, RecvBroadcastDelivery, RecvAckDelivery, QuietSteps
<1>7. ASSUME NEW n \in Node, IdleTick(n) PROVE DInv'
  BY <1>1, <1>7, IdleTickDelivery
<1>8. ASSUME NEW n \in Node, Recv(n) \/ GetDisconnectedDestination(n) PROVE DInv'
  BY <1>1, <1>8, QuietSteps
<1>9. ASSUME NEW n \in Node, Restart(n) PROVE DInv'
  BY <1>1, <1>9, RestartDelivery
<1>10. [(\E n \in Node : \/ Send(n) \/ SendToRadio(n) \/ SendToRadioFails(n)
                         \/ SendToRadioIdle(n) \/ RecvFromRadio(n) \/ IdleTick(n)
                         \/ Recv(n) \/ GetDisconnectedDestination(n) \/ Restart(n))]_vars
  BY DEF Next, SystemStep
<1> QED  BY <1>2, <1>3, <1>4, <1>5, <1>6, <1>7, <1>8, <1>9, <1>10

\* The inductive invariant holds in every state.
LEMMA DeliveryHolds == Spec => [](IInv /\ DInv)
<1>1. Init => IInv /\ DInv
  BY InitIInv, InitDInv
<1>2. (IInv /\ DInv) /\ [Next]_vars => (IInv /\ DInv)'
  BY NextIInv, NextDInv
<1> QED  BY <1>1, <1>2, PTL DEF Spec

-----------------------------------------------------------------------------
(* The theorems.                                                           *)

\* Every count of acknowledgements has a packet that idleTick still acts for.
LEMMA CountHasPacket ==
  ASSUME IInv, General, NEW n \in Node, NEW s \in DOMAIN waiting_for_ack[n]
  PROVE  \/ \E p \in ToSet(outBuffer[n]) : IsUnicastData(p) /\ p.seq_number = s
         \/ \E h \in DOMAIN waiting[n] : waiting[n][h] # NULL /\ h[2] = s
<1>1. PICK c \in Count : c = waiting_for_ack[n][s]
  BY Typed
<1>2. c.received < c.total /\ c.total <= c.received + Cardinality(WithNumber(n, s))
  BY <1>1 DEF General, CountsWell
<1>3. c.received \in Nat /\ c.total \in Nat
  BY DEF Count
<1>4. WithNumber(n, s) # {}
  <2>1. Cardinality({}) = 0
    BY FS_EmptySet
  <2> QED  BY <1>2, <1>3, <2>1
<1>5. PICK p \in Copies(n) : p.seq_number = s
  BY <1>4 DEF WithNumber, Hashes
<1>6. /\ IsUnicastData(p)
      /\ \/ p \in ToSet(outBuffer[n])
         \/ InWaiting(n, getHash(p)) /\ waiting[n][getHash(p)].pkt = p
  BY CopiesMembers
<1>7. getHash(p)[2] = s
  BY <1>5 DEF getHash
<1> QED  BY <1>5, <1>6, <1>7 DEF InWaiting

\* A unicast message whose sender expects acknowledgements has a fragment in the
\* queue or in waiting, whatever is lost, given up or acknowledged twice, and
\* after any restart: accomplishAck and idleTick never leave it unanswered.
THEOREM NothingForgotten == Spec => []NoForgottenMessage
<1>1. IInv /\ DInv => NoForgottenMessage
  BY CountHasPacket DEF DInv, NoForgottenMessage
<1> QED  BY <1>1, DeliveryHolds, PTL

\* Nothing that may be sent is a packet of a message of one packet that is answered.
LEMMA AnsweredIsGone ==
  ASSUME IInv, General, WhileUnique, NEW n \in Node, NEW k \in DOMAIN log[n],
         log[n][k].total = 1, log[n][k].sent + log[n][k].timeouts > 0
  PROVE  /\ \A p \in ToSet(outBuffer[n]) : p.type = "data" => p.msg # k
         /\ \A h \in DOMAIN waiting[n] : waiting[n][h] # NULL => waiting[n][h].pkt.msg # k
<1>1. \A p \in Copies(n) : p.msg # k
  BY DEF WhileUnique, OutcomesWell
<1>2. log[n][k].dest # Broadcast
  BY DEF General, LogWell
<1>3. ASSUME NEW p \in ToSet(outBuffer[n]), p.type = "data" PROVE p.msg # k
  <2>1. p.source = n /\ IsPart(p)
    BY <1>3 DEF General, PacketsWell
  <2>2. p.msg = k => p.destination # Broadcast
    BY <1>2, <2>1 DEF IsPart
  <2>3. p.msg = k => p \in Copies(n)
    BY <1>3, <2>2 DEF Copies, IsUnicastData
  <2> QED  BY <1>1, <2>3
<1>4. ASSUME NEW h \in DOMAIN waiting[n], waiting[n][h] # NULL
      PROVE  waiting[n][h].pkt.msg # k
  BY <1>1, <1>4 DEF Copies
<1> QED  BY <1>3, <1>4

\* While a sequence number names one message, a message that fits one packet ends in
\* one event, SENT or TIMEOUT, SENT only after its destination received it, and no
\* packet of it is sent after that.
THEOREM OutcomesAgree == Spec => [](NumbersUnique => OneOutcome)
<1>1. IInv /\ DInv => (NumbersUnique => OneOutcome)
  <2> SUFFICES ASSUME IInv, DInv, NumbersUnique, NEW n \in Node, NEW k \in DOMAIN log[n]
               PROVE  LET m == log[n][k]
                      IN /\ m.total = 1 => m.sent + m.timeouts <= 1
                         /\ m.sent <= 1
                         /\ m.total = 1 /\ m.sent = 1 => Delivered(n, k)
                         /\ m.total = 1 /\ m.sent + m.timeouts > 0 =>
                              /\ \A p \in ToSet(outBuffer[n]) : p.type = "data" => p.msg # k
                              /\ \A h \in DOMAIN waiting[n] :
                                   waiting[n][h] # NULL => waiting[n][h].pkt.msg # k
    BY DEF OneOutcome
  <2>1. General /\ WhileUnique
    BY DEF DInv
  <2>2. LogWell(n) /\ OutcomesWell(n)
    BY <2>1 DEF General, WhileUnique
  <2>3. log[n][k].sent <= 1
    BY <2>2 DEF LogWell
  <2>4. /\ log[n][k].total = 1 => log[n][k].sent + log[n][k].timeouts <= 1
        /\ log[n][k].total = 1 /\ log[n][k].sent = 1 => Delivered(n, k)
    BY <2>2 DEF OutcomesWell
  <2> QED  BY <2>1, <2>3, <2>4, AnsweredIsGone
<1> QED  BY <1>1, DeliveryHolds, PTL

\* While a sequence number names one message, what the upper layer reads is all the
\* fragments of one message: reassembly mixes nothing, whatever the radio does.
THEOREM MessagesWhole == Spec => [](NumbersUnique => WholeMessages)
<1>1. IInv /\ DInv => (NumbersUnique => WholeMessages)
  <2> SUFFICES ASSUME IInv, DInv, NumbersUnique, NEW n \in Node, NEW i \in DOMAIN inBuffer[n]
               PROVE  LET r == inBuffer[n][i]
                      IN \E k \in DOMAIN log[r.source] :
                           r.parts = [f \in FragsOf(log[r.source][k].total) |-> k]
    BY DEF WholeMessages
  <2>1. WholeWell(n)
    BY DEF DInv, WhileUnique
  <2>2. inBuffer[n][i] \in ToSet(inBuffer[n])
    BY DEF ToSet
  <2> QED  BY <2>1, <2>2 DEF WholeWell
<1> QED  BY <1>1, DeliveryHolds, PTL

\* What happens to a datagram that was received before.
LEMMA HeldIsRepetition ==
  ASSUME IInv, General, WhileUnique, NEW n \in Node, NEW p \in ToSet(rx[n]), p.type = "data",
         <<p.source, p.msg>> \in got[n], <<p.source, p.msg>> \notin expired[n]
  PROVE  checkRepetition(n, p)
<1>1. IsPart(p)
  BY DEF General, PacketsWell
<1>2. PICK g \in got[n] \ expired[n] : g = <<p.source, p.msg>>
  OBVIOUS
<1>3. g[1] = p.source /\ g[2] = p.msg
  BY <1>2
<1>4. /\ log[g[1]][g[2]].seq = p.seq_number /\ p.frag \in FragsOf(log[g[1]][g[2]].total)
  BY <1>1, <1>3 DEF IsPart
<1>5. /\ <<g[1], log[g[1]][g[2]].seq>> \in DOMAIN receive_buffer[n]
      /\ DOMAIN receive_buffer[n][<<g[1], log[g[1]][g[2]].seq>>].packets
           = FragsOf(log[g[1]][g[2]].total)
  BY DEF WhileUnique, GotHeld
<1> QED  BY <1>3, <1>4, <1>5 DEF checkRepetition

\* A step that hands a message over is a reception that is not a repetition.
LEMMA HandsOver ==
  ASSUME IInv, NEW n \in Node, [Next]_vars, Len(inBuffer'[n]) > Len(inBuffer[n])
  PROVE  /\ Head(rx[n]) \in ToSet(rx[n]) /\ Head(rx[n]) \in Packet
         /\ ~checkRepetition(n, Head(rx[n]))
         /\ Head(rx[n]).type = "data" \/ Head(rx[n]).destination = Broadcast
<1>1. DOMAIN inBuffer = Node /\ \A m \in Node : inBuffer[m] \in Seq(ToSet(inBuffer[m]))
  BY DEF IInv, TypeOK, ReceiverTypeOK
<1>2. Len(inBuffer[n]) \in Nat
  BY <1>1, LenProperties
<1>3. inBuffer'[n] # inBuffer[n]
  BY <1>2
<1>4. UNCHANGED inBuffer \/ \E m \in Node :
        RecvData(m) \/ RecvBroadcast(m) \/ Recv(m) \/ Restart(m)
  <2>1. ASSUME NEW m \in Node, SendToRadio(m) \/ SendToRadioFails(m) \/ SendToRadioIdle(m)
        PROVE  UNCHANGED inBuffer
    BY <2>1 DEF SendToRadio, SendToRadioFails, SendToRadioIdle, recvVars
  <2>2. ASSUME NEW m \in Node, RecvAck(m) \/ RecvOther(m) PROVE UNCHANGED inBuffer
    BY <2>2 DEF RecvAck, RecvOther, recvVars
  <2>3. ASSUME NEW m \in Node, IdleTick(m) PROVE UNCHANGED inBuffer
    BY <2>3 DEF IdleTick
  <2>4. ASSUME NEW m \in Node, Send(m) \/ GetDisconnectedDestination(m)
        PROVE  UNCHANGED inBuffer
    BY <2>4 DEF Send, GetDisconnectedDestination, recvVars
  <2>5. CASE UNCHANGED vars
    BY <2>5 DEF vars, recvVars
  <2> QED  BY <2>1, <2>2, <2>3, <2>4, <2>5 DEF Next, SystemStep, RecvFromRadio
<1>5. ASSUME NEW m \in Node, Recv(m) PROVE FALSE
  <2>1. inBuffer' = [inBuffer EXCEPT ![m] = Tail(@)] /\ inBuffer[m] # <<>>
    BY <1>5 DEF Recv
  <2>2. m = n
    BY <1>1, <1>3, <2>1
  <2>3. inBuffer'[n] = Tail(inBuffer[n]) /\ inBuffer[n] # <<>>
    BY <1>1, <2>1, <2>2
  <2>4. Len(Tail(inBuffer[n])) = Len(inBuffer[n]) - 1
    BY <1>1, <2>3, HeadTailProperties
  <2> QED  BY <1>2, <2>3, <2>4
<1>6. ASSUME NEW m \in Node, Restart(m) PROVE FALSE
  <2>1. inBuffer' = [inBuffer EXCEPT ![m] = <<>>]
    BY <1>6 DEF Restart
  <2>2. m = n /\ inBuffer'[n] = <<>>
    BY <1>1, <1>3, <2>1
  <2>3. Len(<<>>) = 0
    OBVIOUS
  <2> QED  BY <1>2, <2>2, <2>3
<1>7. PICK m \in Node : RecvData(m) \/ RecvBroadcast(m)
  BY <1>3, <1>4, <1>5, <1>6
<1>8. /\ rx[m] # <<>> /\ Take(m) /\ Accept(m, Head(rx[m]))
      /\ Head(rx[m]).type = "data" \/ Head(rx[m]).destination = Broadcast
  BY <1>7 DEF RecvData, RecvBroadcast
<1>9. m = n /\ ~checkRepetition(m, Head(rx[m]))
  BY <1>1, <1>3, <1>8 DEF Accept, recvVars
<1> QED  BY <1>8, <1>9, TakeSets

\* While a sequence number names one message, a message is handed over a second time
\* only after the record of its first reception was dropped.
THEOREM NothingRepeated == Spec /\ []NumbersUnique => NoRepetition
<1> DEFINE Fresh == \A n \in Node :
             Len(inBuffer'[n]) > Len(inBuffer[n]) =>
               LET p == Head(rx[n])
               IN <<p.source, p.msg>> \in got[n] => <<p.source, p.msg>> \in expired[n]
<1>1. IInv /\ DInv /\ NumbersUnique /\ [Next]_vars => [Fresh]_vars
  <2> SUFFICES ASSUME IInv, DInv, NumbersUnique, [Next]_vars, NEW n \in Node,
                      Len(inBuffer'[n]) > Len(inBuffer[n])
               PROVE  LET p == Head(rx[n])
                      IN <<p.source, p.msg>> \in got[n] => <<p.source, p.msg>> \in expired[n]
    OBVIOUS
  <2>1. PICK p \in Packet : p = Head(rx[n]) /\ p \in ToSet(rx[n])
    BY HandsOver
  <2>2. ~checkRepetition(n, p) /\ (p.type = "data" \/ p.destination = Broadcast)
    BY <2>1, HandsOver
  <2>3. General /\ WhileUnique
    BY DEF DInv
  <2>4. p.type = "data"
    BY <2>1, <2>2, <2>3, NodeAssumption DEF General, PacketsWell, Packet
  <2>5. <<p.source, p.msg>> \in got[n] => <<p.source, p.msg>> \in expired[n]
    BY <2>1, <2>2, <2>3, <2>4, HeldIsRepetition
  <2> QED  BY <2>1, <2>5
<1> HIDE DEF Fresh
<1>2. Spec /\ []NumbersUnique => [][Fresh]_vars
  BY <1>1, DeliveryHolds, PTL DEF Spec
<1> QED  BY <1>2 DEF NoRepetition, Fresh

\* What checkRepetition holds of a number is the message of that number.
LEMMA RepetitionIsKnown ==
  ASSUME IInv, General, WhileUnique, NumbersUnique, NEW n \in Node, NEW p \in ToSet(rx[n]),
         p \in Packet, p.type = "data", checkRepetition(n, p)
  PROVE  LET held == receive_buffer[n][<<p.source, p.seq_number>>].packets
         IN <<p.source, p.msg>> \in got[n] \/ (p.frag \in DOMAIN held /\ held[p.frag] = p.msg)
<1>1. PICK key \in DOMAIN receive_buffer[n] :
        /\ key = <<p.source, p.seq_number>>
        /\ p.frag \in DOMAIN receive_buffer[n][key].packets
  BY DEF checkRepetition
<1>2. key[1] = p.source /\ key[2] = p.seq_number /\ p.source \in Node
  BY <1>1 DEF Packet
<1>3. PICK k \in DOMAIN log[key[1]] :
        /\ log[key[1]][k].seq = key[2]
        /\ RecordOf(receive_buffer[n][key], log[key[1]][k].total, k, <<key[1], k>> \in got[n])
  BY DEF WhileUnique, RecordsWell
<1>4. IsPart(p)
  BY DEF General, PacketsWell
<1>5. k = p.msg
  BY <1>2, <1>3, <1>4 DEF NumbersUnique, IsPart
<1>6. \/ <<p.source, k>> \in got[n]
      \/ receive_buffer[n][key].packets[p.frag] = k
  BY <1>1, <1>2, <1>3 DEF RecordOf
<1> QED  BY <1>1, <1>5, <1>6

\* A reception that leaves the receiving side as it was is a repetition, or the
\* message was handed over.
LEMMA UnchangedIsKnown ==
  ASSUME IInv, NEW n \in Node, NEW p, Accept(n, p), UNCHANGED recvVars
  PROVE  checkRepetition(n, p) \/ <<p.source, p.msg>> \in got[n]
<1>1. DOMAIN receive_buffer = Node /\ got \in [Node -> SUBSET (Node \X Nat)]
  BY Typed
<1>2. receive_buffer' = receive_buffer /\ got' = got
  BY DEF recvVars
<1>3. PICK k : k = <<p.source, p.seq_number>>
  OBVIOUS
<1>4. PICK r : r = WithFragment(n, p)
  OBVIOUS
<1>5. p.frag \in DOMAIN r.packets
  BY <1>4 DEF WithFragment, Put
<1>6. CASE checkRepetition(n, p)
  BY <1>6
<1>7. CASE ~checkRepetition(n, p) /\ Assembles(r)
  <2>1. got' = [got EXCEPT ![n] = @ \cup {<<p.source, p.msg>>}]
    BY <1>4, <1>7 DEF Accept
  <2> QED  BY <1>1, <1>2, <2>1
<1>8. CASE ~checkRepetition(n, p) /\ ~Assembles(r)
  <2>1. receive_buffer' = [receive_buffer EXCEPT ![n] = Put(@, k, r)]
    BY <1>3, <1>4, <1>8 DEF Accept
  <2>2. receive_buffer[n] = Put(receive_buffer[n], k, r)
    BY <1>1, <1>2, <2>1
  <2>3. k \in DOMAIN receive_buffer[n] /\ receive_buffer[n][k] = r
    BY <2>2 DEF Put
  <2> QED  BY <1>3, <1>5, <1>8, <2>3 DEF checkRepetition
<1> QED  BY <1>6, <1>7, <1>8

\* While a sequence number names one message, checkRepetition hides no message from
\* the upper layer: what it drops was received before.
THEOREM OnlyRepetitionsIgnored == Spec /\ []NumbersUnique => IgnoresOnlyRepetitions
<1> DEFINE Known == \A n \in Node :
             RecvData(n) /\ UNCHANGED recvVars =>
               LET p == Head(rx[n])
                   k == <<p.source, p.seq_number>>
                   held == receive_buffer[n][k].packets
               IN \/ <<p.source, p.msg>> \in got[n]
                  \/ p.frag \in DOMAIN held /\ held[p.frag] = p.msg
<1>1. IInv /\ DInv /\ NumbersUnique /\ [Next]_vars => [Known]_vars
  <2> SUFFICES ASSUME IInv, DInv, NumbersUnique, NEW n \in Node,
                      RecvData(n), UNCHANGED recvVars
               PROVE  LET p == Head(rx[n])
                          k == <<p.source, p.seq_number>>
                          held == receive_buffer[n][k].packets
                      IN \/ <<p.source, p.msg>> \in got[n]
                         \/ p.frag \in DOMAIN held /\ held[p.frag] = p.msg
    OBVIOUS
  <2>1. rx[n] # <<>> /\ Take(n) /\ Head(rx[n]).type = "data" /\ Accept(n, Head(rx[n]))
    BY DEF RecvData
  <2>2. PICK p \in Packet : p = Head(rx[n]) /\ p \in ToSet(rx[n])
    BY <2>1, TakeSets
  <2>3. General /\ WhileUnique
    BY DEF DInv
  <2>4. checkRepetition(n, p) \/ <<p.source, p.msg>> \in got[n]
    BY <2>1, <2>2, UnchangedIsKnown
  <2>5. LET held == receive_buffer[n][<<p.source, p.seq_number>>].packets
        IN <<p.source, p.msg>> \in got[n] \/ (p.frag \in DOMAIN held /\ held[p.frag] = p.msg)
    BY <2>1, <2>2, <2>3, <2>4, RepetitionIsKnown
  <2> QED  BY <2>2, <2>5
<1> HIDE DEF Known
<1>2. Spec /\ []NumbersUnique => [][Known]_vars
  BY <1>1, DeliveryHolds, PTL DEF Spec
<1> QED  BY <1>2 DEF IgnoresOnlyRepetitions, Known

-----------------------------------------------------------------------------
(* When a sequence number names one message.                               *)

\* No node submits more messages than there are numbers, and one that restarts
\* submits one at most.
NumbersLast == \A n \in Node :
  MaxSend[n] <= NumSeq /\ (MaxRestart[n] = 0 \/ MaxSend[n] <= 1)

\* The i-th number after a boot.
NumberAt(i) ==
  IF InitSeq + i <= NumSeq THEN InitSeq + i - 1 ELSE InitSeq + i - 1 - NumSeq

\* Without a restart the messages have the numbers in turn.
Numbered(n) ==
  /\ Len(log[n]) <= MaxSend[n] /\ restarts[n] <= MaxRestart[n]
  /\ restarts[n] = 0 =>
       /\ seq_number[n] = NumberAt(Len(log[n]) + 1)
       /\ \A i \in DOMAIN log[n] : log[n][i].seq = NumberAt(i)

\* The numbers in turn.
LEMMA NumbersInTurn ==
  /\ NumberAt(1) = InitSeq
  /\ \A i \in 1 .. NumSeq : NumberAt(i) \in SeqNumber /\ NextSeq(NumberAt(i)) = NumberAt(i + 1)
  /\ \A i, j \in 1 .. NumSeq : NumberAt(i) = NumberAt(j) => i = j
<1>1. NumSeq \in Nat /\ NumSeq # 0 /\ InitSeq \in Nat /\ InitSeq < NumSeq
  BY SeqAssumption
<1>2. NumberAt(1) = InitSeq
  BY <1>1 DEF NumberAt
<1>3. ASSUME NEW s \in 0 .. NumSeq-1
      PROVE  (s + 1) % NumSeq = IF s = NumSeq - 1 THEN 0 ELSE s + 1
  <2>1. CASE s = NumSeq - 1
    BY <1>1, <2>1
  <2>2. CASE s # NumSeq - 1
    BY <1>1, <2>2
  <2> QED  BY <2>1, <2>2
<1>4. ASSUME NEW i \in 1 .. NumSeq
      PROVE  NumberAt(i) \in SeqNumber /\ NextSeq(NumberAt(i)) = NumberAt(i + 1)
  <2>1. NumberAt(i) \in 0 .. NumSeq-1
    BY <1>1 DEF NumberAt
  <2>2. NextSeq(NumberAt(i)) = IF NumberAt(i) = NumSeq - 1 THEN 0 ELSE NumberAt(i) + 1
    BY <1>3, <2>1 DEF NextSeq
  <2>3. NumberAt(i + 1) = IF NumberAt(i) = NumSeq - 1 THEN 0 ELSE NumberAt(i) + 1
    BY <1>1 DEF NumberAt
  <2> QED  BY <2>1, <2>2, <2>3 DEF SeqNumber
<1>5. \A i, j \in 1 .. NumSeq : NumberAt(i) = NumberAt(j) => i = j
  BY <1>1 DEF NumberAt
<1> QED  BY <1>2, <1>4, <1>5

\* The history of a node that submits a message.
LEMMA SubmittedLog ==
  ASSUME IInv, NEW n \in Node, Send(n)
  PROVE  /\ Len(log[n]) < MaxSend[n] /\ Len(log'[n]) = Len(log[n]) + 1
         /\ restarts' = restarts
         /\ seq_number' = [seq_number EXCEPT ![n] = NextSeq(@)]
         /\ \A m \in Node \ {n} : log'[m] = log[m]
         /\ \A i \in DOMAIN log'[n] :
              \/ i \in DOMAIN log[n] /\ log'[n][i].seq = log[n][i].seq
              \/ i = Len(log[n]) + 1 /\ log'[n][i].seq = seq_number[n]
<1>1. log \in [Node -> Seq(LogEntry)] /\ DOMAIN log[n] = 1 .. Len(log[n])
  BY Typed
<1>2. /\ Len(log[n]) < MaxSend[n] /\ restarts' = restarts
      /\ seq_number' = [seq_number EXCEPT ![n] = NextSeq(@)]
  BY DEF Send, failVars
<1>3. PICK dest \in (Node \ {n}) \cup {Broadcast}, total \in 1 .. MaxFrag :
        log' = [log EXCEPT ![n] = Append(@,
            [dest |-> dest, total |-> total, seq |-> seq_number[n],
             sent |-> 0, timeouts |-> 0])]
  BY DEF Send
<1>4. PICK e : e = [dest |-> dest, total |-> total, seq |-> seq_number[n],
                    sent |-> 0, timeouts |-> 0]
  OBVIOUS
<1>5. e \in LogEntry
  <2>1. total \in Nat /\ seq_number[n] \in SeqNumber
    BY Typed, FragsOfProperties
  <2> QED  BY <1>4, <2>1 DEF LogEntry
<1>6. log'[n] = Append(log[n], e) /\ \A m \in Node \ {n} : log'[m] = log[m]
  BY <1>1, <1>3, <1>4
<1>7. log[n] \in Seq(LogEntry)
  BY <1>1
<1>8. /\ Len(log'[n]) = Len(log[n]) + 1 /\ DOMAIN log'[n] = 1 .. Len(log[n]) + 1
      /\ \A i \in 1 .. Len(log[n]) : log'[n][i] = log[n][i]
      /\ log'[n][Len(log[n]) + 1] = e
  BY <1>5, <1>6, <1>7, AppendProperties, LenProperties
<1>9. e.seq = seq_number[n]
  BY <1>4
<1>10. Len(log[n]) \in Nat
  BY Typed
<1>11. \A i \in 1 .. Len(log[n]) + 1 : i \in 1 .. Len(log[n]) \/ i = Len(log[n]) + 1
  BY <1>10
<1> QED  BY <1>1, <1>2, <1>6, <1>8, <1>9, <1>11

\* Only send and a restart change the numbers.
LEMMA NumbersSame ==
  ASSUME IInv, General, [Next]_vars, \A n \in Node : ~Send(n) /\ ~Restart(n)
  PROVE  /\ restarts' = restarts /\ seq_number' = seq_number
         /\ \A m \in Node : /\ DOMAIN log'[m] = DOMAIN log[m]
                            /\ \A i \in DOMAIN log[m] : log'[m][i].seq = log[m][i].seq
<1>1. restarts' = restarts /\ seq_number' = seq_number
  <2>1. ASSUME NEW m \in Node, SendToRadio(m) \/ SendToRadioFails(m) \/ SendToRadioIdle(m)
        PROVE  UNCHANGED <<restarts, seq_number>>
    BY <2>1 DEF SendToRadio, SendToRadioFails, SendToRadioIdle, failVars
  <2>2. ASSUME NEW m \in Node, RecvData(m) \/ RecvBroadcast(m)
        PROVE  UNCHANGED <<restarts, seq_number>>
    BY <2>2 DEF RecvData, RecvBroadcast, failVars, bufferVars
  <2>3. ASSUME NEW m \in Node, RecvAck(m) \/ RecvOther(m)
        PROVE  UNCHANGED <<restarts, seq_number>>
    BY <2>3 DEF RecvAck, RecvOther, failVars, bufferVars
  <2>4. ASSUME NEW m \in Node, IdleTick(m) PROVE UNCHANGED <<restarts, seq_number>>
    BY <2>4 DEF IdleTick, failVars
  <2>5. ASSUME NEW m \in Node, Recv(m) \/ GetDisconnectedDestination(m)
        PROVE  UNCHANGED <<restarts, seq_number>>
    BY <2>5 DEF Recv, GetDisconnectedDestination, failVars, bufferVars
  <2>6. CASE UNCHANGED vars
    BY <2>6 DEF vars, failVars, bufferVars
  <2> QED  BY <2>1, <2>2, <2>3, <2>4, <2>5, <2>6 DEF Next, SystemStep, RecvFromRadio
<1>2. UNCHANGED log \/ \E n \in Node : RecvAck(n) \/ IdleTick(n)
  BY DEF Next, SystemStep, vars, RecvFromRadio, RecvData, RecvBroadcast, RecvOther,
         SendToRadio, SendToRadioFails, SendToRadioIdle, Recv, GetDisconnectedDestination
<1>3. ASSUME NEW n \in Node, IdleTick(n)
      PROVE  \A m \in Node : /\ DOMAIN log'[m] = DOMAIN log[m]
                             /\ \A i \in DOMAIN log[m] : log'[m][i].seq = log[m][i].seq
  <2>1. PICK lost : TickEffect(n, lost)
    BY <1>3, IdleTickEffects
  <2> QED  BY <2>1 DEF TickEffect, SenderSame
<1>4. ASSUME NEW n \in Node, RecvAck(n)
      PROVE  \A m \in Node : /\ DOMAIN log'[m] = DOMAIN log[m]
                             /\ \A i \in DOMAIN log[m] : log'[m][i].seq = log[m][i].seq
  <2>1. log \in [Node -> Seq(LogEntry)] /\ log[n] \in Seq(LogEntry)
    BY Typed
  <2>2. PICK l, k : /\ log' = [log EXCEPT ![n] = l]
                    /\ l = log[n] \/ (k \in DOMAIN log[n] /\ l = SentIn(log[n], k))
    <3>1. \A s \in DOMAIN waiting_for_ack[n] : waiting_for_ack[n][s].msg \in DOMAIN log[n]
      BY DEF General, CountsWell
    <3> QED  BY <1>4, <2>1, <3>1 DEF RecvAck
  <2>3. /\ DOMAIN l = DOMAIN log[n]
        /\ \A i \in DOMAIN log[n] : l[i].seq = log[n][i].seq
    <3>1. CASE l = log[n]
      BY <3>1
    <3>2. CASE k \in DOMAIN log[n] /\ l = SentIn(log[n], k)
      BY <2>1, <3>2, SentInLog
    <3> QED  BY <2>2, <3>1, <3>2
  <2> QED  BY <2>1, <2>2, <2>3
<1> QED  BY <1>1, <1>2, <1>3, <1>4

\* The numbers stay in turn.
LEMMA NumberedStays ==
  ASSUME NumbersLast, IInv, IInv', General, [Next]_vars, \A n \in Node : Numbered(n)
  PROVE  \A n \in Node : Numbered(n)'
<1>1. /\ restarts \in [Node -> Nat] /\ seq_number \in [Node -> SeqNumber]
      /\ \A n \in Node : /\ DOMAIN log[n] = 1 .. Len(log[n]) /\ Len(log[n]) \in Nat
                         /\ DOMAIN log'[n] = 1 .. Len(log'[n]) /\ Len(log'[n]) \in Nat
                         /\ restarts[n] \in Nat
      /\ DOMAIN restarts = Node
  <2>1. restarts \in [Node -> Nat]
    BY DEF IInv, TypeOK
  <2>2. \A n \in Node : DOMAIN log'[n] = 1 .. Len(log'[n]) /\ Len(log'[n]) \in Nat
    BY Typed
  <2> QED  BY <2>1, <2>2, Typed
<1>2. /\ NumSeq \in Nat
      /\ \A n \in Node : MaxSend[n] \in Nat /\ MaxRestart[n] \in Nat
  BY SeqAssumption, BoundAssumption
<1>3. ASSUME \A n \in Node : ~Send(n) /\ ~Restart(n), NEW n \in Node PROVE Numbered(n)'
  <2>1. /\ restarts' = restarts /\ seq_number' = seq_number
        /\ DOMAIN log'[n] = DOMAIN log[n]
        /\ \A i \in DOMAIN log[n] : log'[n][i].seq = log[n][i].seq
    BY <1>3, NumbersSame
  <2>2. Len(log'[n]) = Len(log[n])
    <3>1. \A j, k \in Nat : 1 .. j = 1 .. k => j = k
      OBVIOUS
    <3> QED  BY <1>1, <2>1, <3>1
  <2> QED  BY <2>1, <2>2 DEF Numbered
<1>4. ASSUME NEW m \in Node, Restart(m), NEW n \in Node PROVE Numbered(n)'
  <2>1. /\ restarts' = [restarts EXCEPT ![m] = @ + 1] /\ restarts[m] < MaxRestart[m]
        /\ log' = log /\ seq_number' = [seq_number EXCEPT ![m] = InitSeq]
    BY <1>4 DEF Restart
  <2>2. CASE n = m
    <3>1. restarts'[n] = restarts[n] + 1
      BY <1>1, <2>1, <2>2
    <3>2. restarts'[n] # 0 /\ restarts'[n] <= MaxRestart[n]
      BY <1>1, <1>2, <2>1, <2>2, <3>1
    <3> QED  BY <2>1, <3>2 DEF Numbered
  <2>3. CASE n # m
    <3>1. restarts'[n] = restarts[n] /\ seq_number'[n] = seq_number[n] /\ log'[n] = log[n]
      BY <1>1, <2>1, <2>3
    <3> QED  BY <3>1 DEF Numbered
  <2> QED  BY <2>2, <2>3
<1>5. ASSUME NEW m \in Node, Send(m), NEW n \in Node PROVE Numbered(n)'
  <2>1. /\ Len(log[m]) < MaxSend[m] /\ Len(log'[m]) = Len(log[m]) + 1
        /\ restarts' = restarts
        /\ seq_number' = [seq_number EXCEPT ![m] = NextSeq(@)]
        /\ \A l \in Node \ {m} : log'[l] = log[l]
        /\ \A i \in DOMAIN log'[m] :
             \/ i \in DOMAIN log[m] /\ log'[m][i].seq = log[m][i].seq
             \/ i = Len(log[m]) + 1 /\ log'[m][i].seq = seq_number[m]
    BY <1>5, SubmittedLog
  <2>2. CASE n = m
    <3>1. PICK k \in Nat : k = Len(log[n])
      BY <1>1
    <3>2. k + 1 <= MaxSend[n] /\ k + 1 \in 1 .. NumSeq
      BY <1>2, <2>1, <2>2, <3>1 DEF NumbersLast
    <3>3. ASSUME restarts[n] = 0
          PROVE  /\ seq_number'[n] = NumberAt(k + 1 + 1)
                 /\ \A i \in DOMAIN log'[n] : log'[n][i].seq = NumberAt(i)
      <4>1. /\ seq_number[n] = NumberAt(k + 1)
            /\ \A i \in DOMAIN log[n] : log[n][i].seq = NumberAt(i)
        BY <3>1, <3>3 DEF Numbered
      <4>2. seq_number'[n] = NextSeq(NumberAt(k + 1))
        BY <1>1, <2>1, <2>2, <4>1
      <4>3. seq_number'[n] = NumberAt(k + 1 + 1)
        BY <3>2, <4>2, NumbersInTurn
      <4> QED  BY <2>1, <2>2, <3>1, <4>1, <4>3
    <3>4. Len(log'[n]) = k + 1 /\ restarts'[n] = restarts[n]
      BY <2>1, <2>2, <3>1
    <3> QED  BY <3>2, <3>3, <3>4 DEF Numbered
  <2>3. CASE n # m
    <3>1. restarts'[n] = restarts[n] /\ seq_number'[n] = seq_number[n] /\ log'[n] = log[n]
      BY <1>1, <2>1, <2>3
    <3> QED  BY <3>1 DEF Numbered
  <2> QED  BY <2>2, <2>3
<1> QED  BY <1>3, <1>4, <1>5

\* Numbers in turn name one message each.
LEMMA InTurnIsUnique ==
  ASSUME NumbersLast, IInv, \A n \in Node : Numbered(n)
  PROVE  NumbersUnique
<1> SUFFICES ASSUME NEW n \in Node, NEW i \in DOMAIN log[n], NEW j \in DOMAIN log[n],
                    log[n][i].seq = log[n][j].seq
             PROVE  i = j
  BY DEF NumbersUnique
<1>1. /\ DOMAIN log[n] = 1 .. Len(log[n]) /\ Len(log[n]) \in Nat
      /\ NumSeq \in Nat /\ MaxSend[n] \in Nat /\ MaxRestart[n] \in Nat
  BY Typed, SeqAssumption, BoundAssumption
<1>2. Len(log[n]) <= MaxSend[n] /\ MaxSend[n] <= NumSeq
  BY DEF Numbered, NumbersLast
<1>3. CASE restarts[n] = 0
  <2>1. NumberAt(i) = NumberAt(j)
    BY <1>3 DEF Numbered
  <2>2. i \in 1 .. NumSeq /\ j \in 1 .. NumSeq
    BY <1>1, <1>2
  <2> QED  BY <2>1, <2>2, NumbersInTurn
<1>4. CASE restarts[n] # 0
  <2>1. restarts[n] \in Nat
    BY DEF IInv, TypeOK
  <2>2. MaxRestart[n] # 0
    BY <1>1, <1>4, <2>1 DEF Numbered
  <2>3. Len(log[n]) <= 1
    BY <1>1, <1>2, <2>2 DEF NumbersLast
  <2> QED  BY <1>1, <2>3
<1> QED  BY <1>3, <1>4

\* A sequence number names one message of its node as long as no node submits more
\* messages than there are numbers (256) and only nodes with one message restart:
\* then the theorems above hold without their premise.
THEOREM NumbersStayUnique == ASSUME NumbersLast PROVE Spec => []NumbersUnique
<1> DEFINE InTurn == \A n \in Node : Numbered(n)
<1>1. Init => InTurn
  <2> SUFFICES ASSUME Init, NEW n \in Node PROVE Numbered(n)
    OBVIOUS
  <2>1. log[n] = <<>> /\ seq_number[n] = InitSeq /\ restarts[n] = 0
    BY DEF Init
  <2>2. Len(<<>>) = 0 /\ DOMAIN <<>> = {} /\ NumberAt(0 + 1) = InitSeq
    BY NumbersInTurn
  <2>3. 0 <= MaxSend[n] /\ 0 <= MaxRestart[n]
    BY BoundAssumption
  <2> QED  BY <2>1, <2>2, <2>3 DEF Numbered
<1>2. IInv /\ IInv' /\ DInv /\ InTurn /\ [Next]_vars => InTurn'
  BY NumberedStays DEF DInv
<1>3. IInv /\ InTurn => NumbersUnique
  BY InTurnIsUnique
<1> HIDE DEF InTurn
<1> QED  BY <1>1, <1>2, <1>3, DeliveryHolds, PTL DEF Spec
=============================================================================
