------------------------------ MODULE MacLayer ------------------------------
(***************************************************************************)
(* The MAC layer of every node (source/MacLayer.cpp, inc/MacLayer.h) over  *)
(* a lossy broadcast radio: fragmentation, acknowledgement, retransmission *)
(* after a timeout, reassembly and suppression of repetitions.             *)
(*                                                                         *)
(* A handler runs to completion (the fibers of the micro:bit are           *)
(* cooperative and no handler of this layer sleeps), so a handler is one   *)
(* action.  Time is abstract: idleTick has no upper bound on its delay, so *)
(* any set of sent packets may be found to be 64 ms old, and any set of    *)
(* receive records 11 * 64 ms old, when it runs.                           *)
(***************************************************************************)
EXTENDS Naturals, Sequences, FiniteSets, SequencesExt

CONSTANTS
  Node,            \* the micro:bits, named by their serial numbers
  Broadcast,       \* destination 0
  NULL,            \* a null pointer
  NumSeq,          \* sequence numbers are 0 .. NumSeq-1 (256 in the code)
  InitSeq,         \* the first one after a boot (248 in the code)
  MaxFrag,         \* fragments of the largest message (255 in the code)
  MaxAttempt,      \* MAC_LAYER_RETRANSMISSION_ATTEMPT (10 in the code)
  DisconnectedCap, \* cap on disconnected_destination (4 in the code)
  RxCap,           \* datagrams the radio driver queues before it drops
  MaxSend,         \* bound: messages the upper layer of each node submits
  MaxRestart,      \* bound: restarts of each node
  MaxRadioErrors   \* bound: radio errors each node meets

ASSUME NodeAssumption == Broadcast \notin Node
ASSUME NullAssumption == NULL \notin Nat
ASSUME SeqAssumption == NumSeq \in Nat \ {0} /\ InitSeq \in 0 .. NumSeq-1
ASSUME BoundAssumption ==
  /\ MaxFrag \in Nat \ {0} /\ MaxAttempt \in Nat
  /\ DisconnectedCap \in Nat /\ RxCap \in Nat
  /\ MaxSend \in [Node -> Nat] /\ MaxRestart \in [Node -> Nat]
  /\ MaxRadioErrors \in Nat

VARIABLES
  seq_number,              \* next sequence number
  outBuffer,               \* outgoing packets, the head is the next one sent
  waiting,                 \* hash -> packet sent and not acknowledged, or NULL
  waiting_for_ack,         \* sequence number -> count of acknowledgements
  receive_buffer,          \* <<source, sequence number>> -> receive record
  inBuffer,                \* reassembled messages, the head is the oldest
  disconnected_destination,\* destinations given up, the head is the oldest
  ready,                   \* MAC_LAYER_PACKET_READY_TO_SEND events on the bus
  rx,                      \* datagrams in the radio driver's queue
  restarts, radioErrors,   \* how often the two bounded failures happened
  log,                     \* history: messages submitted and their outcomes
  got,                     \* history: messages put into inBuffer
  expired                  \* history: those of got whose record was dropped

bufferVars == <<seq_number, outBuffer, waiting, waiting_for_ack, ready>>
recvVars == <<receive_buffer, inBuffer, got, expired>>
failVars == <<restarts, radioErrors>>
vars == <<bufferVars, recvVars, failVars, disconnected_destination, rx, log>>

-----------------------------------------------------------------------------
(* Packets, hashes and small helpers.                                      *)

SeqNumber == 0 .. NumSeq-1
Frag == 0 .. MaxFrag
Hash == Frag \X SeqNumber

\* getHash: the fragment number in the high byte, the sequence number in the
\* low one, so that a std::map orders it by fragment first.
getHash(p) == <<p.frag, p.seq_number>>
HashLess(g, h) == g[1] < h[1] \/ (g[1] = h[1] /\ g[2] < h[2])

\* A packet.  msg stands for the payload: which message of its source it is a
\* part of; control is the "more packets" bit.
Packet == [type : {"data", "ack"}, destination : Node \cup {Broadcast},
           source : Node, frag : Frag, seq_number : SeqNumber,
           control : {"more", "last"}, msg : Nat]

\* A null pointer is not the address of a packet.
ASSUME EntryAssumption == NULL \notin [pkt : Packet, attempt : Nat, queued : BOOLEAN]

IsUnicastData(p) == p.type = "data" /\ p.destination # Broadcast

\* Fragments of a message are numbered from 1; the only packet of a message
\* that is not fragmented has number 0.
FragsOf(total) == IF total = 1 THEN {0} ELSE 1 .. total

\* createMacBuffer, prepareFragment and setControl: all the fragments carry the
\* same sequence number and the last one the end mark.
PrepareFragments(n, dest, total, msg) ==
  [i \in 1 .. total |->
     [type |-> "data", destination |-> dest, source |-> n,
      frag |-> IF total = 1 THEN 0 ELSE i, seq_number |-> seq_number[n],
      control |-> IF i = total THEN "last" ELSE "more", msg |-> msg]]

AckOf(p, n) ==
  [type |-> "ack", destination |-> p.source, source |-> n, frag |-> p.frag,
   seq_number |-> p.seq_number, control |-> "last", msg |-> 0]

Put(f, k, v) == [x \in DOMAIN f \cup {k} |-> IF x = k THEN v ELSE f[x]]
Erase(f, S) == [x \in DOMAIN f \ S |-> f[x]]

\* std::remove and erase of one packet; a packet is in the queue at most once
\* (QueuedOnce).
KeepsBuffer(q, p) == q                      \* mutant: the erase is forgotten
Without(q, p) ==
  IF \E i \in DOMAIN q : q[i] = p
  THEN RemoveAt(q, CHOOSE i \in DOMAIN q : q[i] = p)
  ELSE q

\* The hashes of S in the order in which a std::map visits them.
Ordered(S) ==
  {s \in [1 .. Cardinality(S) -> S] :
     ToSet(s) = S /\ \A i, j \in DOMAIN s : i < j => HashLess(s[i], s[j])}

\* Insertion into outBuffer: the event that wakes send_to_radio is fired only
\* when the queue was empty.
WakesAfterInsertion(n, q) == outBuffer[n] \o q = <<>>  \* mutant: tested too late
Wakes(n, q) == outBuffer[n] = <<>> /\ q # <<>>

Enqueue(n, q) ==
  /\ outBuffer' = [outBuffer EXCEPT ![n] = @ \o q]
  /\ ready' = [ready EXCEPT ![n] = IF Wakes(n, q) THEN @ + 1 ELSE @]

-----------------------------------------------------------------------------
Init ==
  /\ seq_number = [n \in Node |-> InitSeq]
  /\ outBuffer = [n \in Node |-> <<>>]
  /\ waiting = [n \in Node |-> <<>>]
  /\ waiting_for_ack = [n \in Node |-> <<>>]
  /\ receive_buffer = [n \in Node |-> <<>>]
  /\ inBuffer = [n \in Node |-> <<>>]
  /\ disconnected_destination = [n \in Node |-> <<>>]
  /\ ready = [n \in Node |-> 0]
  /\ rx = [n \in Node |-> <<>>]
  /\ restarts = [n \in Node |-> 0]
  /\ radioErrors = [n \in Node |-> 0]
  /\ log = [n \in Node |-> <<>>]
  /\ got = [n \in Node |-> {}]
  /\ expired = [n \in Node |-> {}]

\* No packet of an earlier message still uses the number that is next: the
\* numbers have not gone round while a packet was outstanding.
SeqRetired(n) ==
  /\ \A i \in DOMAIN outBuffer[n] :
       IsUnicastData(outBuffer[n][i]) => outBuffer[n][i].seq_number # seq_number[n]
  /\ \A h \in DOMAIN waiting[n] : waiting[n][h] # NULL => h[2] # seq_number[n]

NoWrap(s) == s + 1                          \* mutant: the number does not wrap
NextSeq(s) == (s + 1) % NumSeq

\* send: total packets are enqueued; a unicast message is registered in
\* waiting_for_ack.
Send(n) ==
  /\ Len(log[n]) < MaxSend[n]
  /\ SeqRetired(n)
  /\ \E dest \in (Node \ {n}) \cup {Broadcast}, total \in 1 .. MaxFrag :
       /\ Enqueue(n, PrepareFragments(n, dest, total, Len(log[n]) + 1))
       /\ waiting_for_ack' = [waiting_for_ack EXCEPT ![n] =
            IF dest = Broadcast THEN @
            ELSE Put(@, seq_number[n], [total |-> total, received |-> 0,
                                     msg |-> Len(log[n]) + 1])]
       /\ log' = [log EXCEPT ![n] = Append(@,
            [dest |-> dest, total |-> total, seq |-> seq_number[n],
             sent |-> 0, timeouts |-> 0])]
  /\ seq_number' = [seq_number EXCEPT ![n] = NextSeq(@)]
  /\ UNCHANGED <<waiting, recvVars, failVars, disconnected_destination, rx>>

\* A datagram goes on the air: each other node hears it or not, and a node
\* whose queue is full does not.
Transmit(n, p) ==
  \E heard \in SUBSET {m \in Node \ {n} : Len(rx[m]) < RxCap} :
    rx' = [m \in Node |-> IF m \in heard THEN Append(rx[m], p) ELSE rx[m]]

\* send_to_radio when the driver accepts the datagram: unicast data moves to
\* waiting (attempt counts its retransmissions), anything else is deleted, and
\* the event is fired again while packets are left.
SendToRadio(n) ==
  /\ ready[n] > 0
  /\ outBuffer[n] # <<>>
  /\ LET p == Head(outBuffer[n])
         h == getHash(p)
         again == /\ h \in DOMAIN waiting[n]
                  /\ waiting[n][h] # NULL
                  /\ waiting[n][h].pkt = p
     IN /\ Transmit(n, p)
        /\ waiting' = [waiting EXCEPT ![n] =
             IF ~IsUnicastData(p) THEN @
             ELSE Put(@, h, [pkt |-> p, queued |-> FALSE,
                             attempt |-> IF again THEN @[h].attempt + 1 ELSE 0])]
  /\ outBuffer' = [outBuffer EXCEPT ![n] = Tail(@)]
  /\ ready' = [ready EXCEPT ![n] = IF Len(outBuffer[n]) > 1 THEN @ ELSE @ - 1]
  /\ UNCHANGED <<seq_number, waiting_for_ack, recvVars, failVars,
                 disconnected_destination, log>>

\* send_to_radio when the driver refuses it: only an error event, which nothing
\* listens to; the packet stays and no READY_TO_SEND event is fired.
SendToRadioFails(n) ==
  /\ ready[n] > 0
  /\ outBuffer[n] # <<>>
  /\ radioErrors[n] < MaxRadioErrors
  /\ radioErrors' = [radioErrors EXCEPT ![n] = @ + 1]
  /\ ready' = [ready EXCEPT ![n] = @ - 1]
  /\ UNCHANGED <<seq_number, outBuffer, waiting, waiting_for_ack, recvVars,
                 restarts, disconnected_destination, rx, log>>

\* send_to_radio when the queue was emptied by an acknowledgement meanwhile.
SendToRadioIdle(n) ==
  /\ ready[n] > 0
  /\ outBuffer[n] = <<>>
  /\ ready' = [ready EXCEPT ![n] = @ - 1]
  /\ UNCHANGED <<seq_number, outBuffer, waiting, waiting_for_ack, recvVars,
                 failVars, disconnected_destination, rx, log>>

-----------------------------------------------------------------------------
(* recv_from_radio, one action per kind of datagram.                       *)

\* Two mutants: the buffer is asked for instead of the fragment, and the
\* sequence number is compared without the fragment.
RepetitionInBuffer(n, p) ==
  LET k == <<p.source, p.seq_number>>
  IN /\ k \in DOMAIN receive_buffer[n] /\ p.frag \in DOMAIN receive_buffer[n][k].packets
     /\ receive_buffer[n][k].packets[p.frag] # NULL
RepetitionOfNumber(n, p) == <<p.source, p.seq_number>> \in DOMAIN receive_buffer[n]

\* checkRepetition: the fragment is in the receive record of its message. (The
\* record's timestamp is not refreshed.)
checkRepetition(n, p) ==
  LET k == <<p.source, p.seq_number>>
  IN k \in DOMAIN receive_buffer[n] /\ p.frag \in DOMAIN receive_buffer[n][k].packets

NewRecord == [lastReceived |-> FALSE, packet_number |-> 0, packets |-> <<>>]

\* addToFragmented: the fragment is added to its record, which may complete it.
WithFragment(n, p) ==
  LET k == <<p.source, p.seq_number>>
      old == IF k \in DOMAIN receive_buffer[n] THEN receive_buffer[n][k] ELSE NewRecord
  IN [lastReceived |-> old.lastReceived \/ p.control = "last",
      packet_number |-> IF p.control = "last" THEN p.frag ELSE old.packet_number,
      packets |-> Put(old.packets, p.frag, p.msg)]

CompleteAtLast(r) == r.lastReceived         \* mutant: the size is not compared
Complete(r) ==
  LET size == Cardinality(DOMAIN r.packets)
  IN r.lastReceived /\ (size = r.packet_number \/ (size = 1 /\ r.packet_number = 0))

\* addToDataReady assembles the packets unless the first one's buffer is gone.
Assembles(r) == Complete(r) /\ r.packets[Min(DOMAIN r.packets)] # NULL
Emptied(r) == [r EXCEPT !.packets = [f \in DOMAIN @ |-> NULL]]

\* checkRepetition, then addToFragmented and addToDataReady.
Accept(n, p) ==
  LET k == <<p.source, p.seq_number>>
      m == <<p.source, p.msg>>
      r == WithFragment(n, p)
  IN IF checkRepetition(n, p) THEN UNCHANGED recvVars
     ELSE IF Assembles(r)
     THEN /\ receive_buffer' = [receive_buffer EXCEPT ![n] = Put(@, k, Emptied(r))]
          /\ inBuffer' = [inBuffer EXCEPT
               ![n] = Append(@, [source |-> p.source, parts |-> r.packets])]
          /\ got' = [got EXCEPT ![n] = @ \cup {m}]
          /\ expired' = [expired EXCEPT ![n] = @ \ {m}]
     ELSE /\ receive_buffer' = [receive_buffer EXCEPT ![n] = Put(@, k, r)]
          /\ UNCHANGED <<inBuffer, got, expired>>

Take(n) == rx' = [rx EXCEPT ![n] = Tail(@)]

\* Unicast data is acknowledged (sendAck) before anything else is looked at.
RecvData(n) ==
  /\ rx[n] # <<>>
  /\ LET p == Head(rx[n])
     IN /\ p.destination = n /\ p.type = "data"
        /\ Enqueue(n, <<AckOf(p, n)>>)
        /\ Accept(n, p)
  /\ Take(n)
  /\ UNCHANGED <<seq_number, waiting, waiting_for_ack, failVars,
                 disconnected_destination, log>>

RecvBroadcast(n) ==
  /\ rx[n] # <<>>
  /\ Head(rx[n]).destination = Broadcast
  /\ Accept(n, Head(rx[n]))
  /\ Take(n)
  /\ UNCHANGED <<bufferVars, failVars, disconnected_destination, log>>

CountedIn(c, s) == [c EXCEPT ![s].received = @ + 1]
SentIn(l, k) == [l EXCEPT ![k].sent = @ + 1]

\* accomplishAck. Looking an unknown hash up inserts a null entry; every
\* acknowledgement is counted, a repeated one too; nothing compares the
\* acknowledgement's source with the packet's destination.
RecvAck(n) ==
  /\ rx[n] # <<>>
  /\ LET p == Head(rx[n])
         h == getHash(p)
         known == h \in DOMAIN waiting[n] /\ waiting[n][h] # NULL
         counted == p.seq_number \in DOMAIN waiting_for_ack[n]
         s == waiting_for_ack[n][p.seq_number]
         done == counted /\ s.received + 1 = s.total
     IN /\ p.destination = n /\ p.type = "ack"
        /\ outBuffer' = [outBuffer EXCEPT ![n] =
             IF known /\ waiting[n][h].queued THEN Without(@, waiting[n][h].pkt) ELSE @]
        /\ waiting' = [waiting EXCEPT ![n] =
             IF known THEN Erase(@, {h}) ELSE Put(@, h, NULL)]
        /\ waiting_for_ack' = [waiting_for_ack EXCEPT ![n] =
             IF done THEN Erase(@, {p.seq_number})
             ELSE IF counted THEN CountedIn(@, p.seq_number)
             ELSE @]
        /\ log' = [log EXCEPT ![n] = IF done THEN SentIn(@, s.msg) ELSE @]
  /\ Take(n)
  /\ UNCHANGED <<seq_number, ready, recvVars, failVars, disconnected_destination>>

\* A datagram for another node is discarded.
RecvOther(n) ==
  /\ rx[n] # <<>>
  /\ Head(rx[n]).destination \notin {n, Broadcast}
  /\ Take(n)
  /\ UNCHANGED <<bufferVars, recvVars, failVars, disconnected_destination, log>>

-----------------------------------------------------------------------------
(* idleTick, the upper layer's reads, and a restart.                       *)

\* Sent packets that are not queued again. A null entry is dereferenced by the
\* code: at address 0 of the board lies the vector table, whose first byte is
\* not 0, so the entry reads as queued and is skipped.
SentOrQueued(n) == {h \in DOMAIN waiting[n] : waiting[n][h] # NULL}  \* mutant: queued twice
Sent(n) == {h \in DOMAIN waiting[n] : waiting[n][h] # NULL /\ ~waiting[n][h].queued}

TriesOnceMore(n, h) == waiting[n][h].attempt > MaxAttempt  \* mutant: off by one
Exhausted(n, h) == waiting[n][h].attempt >= MaxAttempt

\* The messages whose MacBufferSent goes with a packet that is given up.
KeepsCount(lost) == {}                      \* mutant: the count is kept
GivenUp(lost) == {h[2] : h \in lost}

Requeued(n, due, lost) ==
  [h \in DOMAIN waiting[n] \ lost |->
     IF h \in due THEN [waiting[n][h] EXCEPT !.queued = TRUE] ELSE waiting[n][h]]

\* One TIMEOUT event for each packet given up.
TimedOutIn(n, lost) ==
  [i \in DOMAIN log[n] |-> [log[n][i] EXCEPT !.timeouts =
     @ + Cardinality({h \in lost : waiting[n][h].pkt.msg = i})]]

\* idleTick: each packet found 64 ms old (due) is queued again, or given up
\* after MaxAttempt retransmissions; then receive records are dropped.
IdleTick(n) ==
  \E due \in SUBSET Sent(n), old \in SUBSET DOMAIN receive_buffer[n] :
    LET lost == {h \in due : Exhausted(n, h)}
    IN /\ due \cup old # {}
       /\ \E again \in Ordered(due \ lost), gone \in Ordered(lost) :
            /\ Enqueue(n, [i \in DOMAIN again |-> waiting[n][again[i]].pkt])
            /\ disconnected_destination' = [disconnected_destination EXCEPT ![n] =
                 @ \o SubSeq([i \in DOMAIN gone |-> waiting[n][gone[i]].pkt.destination],
                             1, Min({Len(gone), DisconnectedCap - Len(@)}))]
       /\ waiting' = [waiting EXCEPT ![n] = Requeued(n, due, lost)]
       /\ waiting_for_ack' = [waiting_for_ack EXCEPT ![n] = Erase(@, GivenUp(lost))]
       /\ log' = [log EXCEPT ![n] = TimedOutIn(n, lost)]
       /\ receive_buffer' = [receive_buffer EXCEPT ![n] = Erase(@, old)]
       /\ expired' = [expired EXCEPT ![n] = @ \cup
            {m \in got[n] : <<m[1], log[m[1]][m[2]].seq>> \in old}]
       /\ UNCHANGED <<seq_number, failVars, rx, inBuffer, got>>

\* recv: the upper layer takes the oldest message.
Recv(n) ==
  /\ inBuffer[n] # <<>>
  /\ inBuffer' = [inBuffer EXCEPT ![n] = Tail(@)]
  /\ UNCHANGED <<bufferVars, receive_buffer, got, expired, failVars,
                 disconnected_destination, rx, log>>

GetDisconnectedDestination(n) ==
  /\ disconnected_destination[n] # <<>>
  /\ disconnected_destination' = [disconnected_destination EXCEPT ![n] = Tail(@)]
  /\ UNCHANGED <<bufferVars, recvVars, failVars, rx, log>>

\* The node loses power and boots: nothing of this layer is persisted.
Restart(n) ==
  /\ restarts[n] < MaxRestart[n]
  /\ restarts' = [restarts EXCEPT ![n] = @ + 1]
  /\ seq_number' = [seq_number EXCEPT ![n] = InitSeq]
  /\ outBuffer' = [outBuffer EXCEPT ![n] = <<>>]
  /\ waiting' = [waiting EXCEPT ![n] = <<>>]
  /\ waiting_for_ack' = [waiting_for_ack EXCEPT ![n] = <<>>]
  /\ ready' = [ready EXCEPT ![n] = 0]
  /\ receive_buffer' = [receive_buffer EXCEPT ![n] = <<>>]
  /\ inBuffer' = [inBuffer EXCEPT ![n] = <<>>]
  /\ expired' = [expired EXCEPT ![n] = got[n]]
  /\ disconnected_destination' = [disconnected_destination EXCEPT ![n] = <<>>]
  /\ rx' = [rx EXCEPT ![n] = <<>>]
  /\ UNCHANGED <<radioErrors, log, got>>

RecvFromRadio(n) == RecvData(n) \/ RecvBroadcast(n) \/ RecvAck(n) \/ RecvOther(n)

\* The steps the node's own scheduler takes: bus events and the idle fiber.
SystemStep(n) ==
  \/ SendToRadio(n) \/ SendToRadioFails(n) \/ SendToRadioIdle(n)
  \/ RecvFromRadio(n) \/ IdleTick(n)

Next == \E n \in Node :
  \/ SystemStep(n)
  \/ Send(n) \/ Recv(n) \/ GetDisconnectedDestination(n)
  \/ Restart(n)

Spec == Init /\ [][Next]_vars

\* The bus delivers every event, the driver every datagram, and the idle fiber
\* runs again and again; a driver that refuses a datagram is not assumed to
\* accept it later.
Fairness == \A n \in Node :
  /\ WF_vars(SendToRadio(n) \/ SendToRadioIdle(n))
  /\ WF_vars(RecvFromRadio(n))
  /\ WF_vars(IdleTick(n))

FairSpec == Spec /\ Fairness

-----------------------------------------------------------------------------
(* Properties.                                                             *)

\* waiting holds what its declaration says, "packets sent which we are waiting
\* for an ack", and idleTick finds a packet behind each of its entries.
WaitingHoldsPackets == \A n \in Node :
  \A h \in DOMAIN waiting[n] : waiting[n][h] # NULL

IsPartial(f, S, T) == DOMAIN f \subseteq S /\ f \in [DOMAIN f -> T]

Entry == [pkt : Packet, attempt : Nat, queued : BOOLEAN] \cup {NULL}
Count == [total : Nat, received : Nat, msg : Nat]
IsParts(f) == IsPartial(f, Frag, Nat \cup {NULL})
IsRecord(r) == r.lastReceived \in BOOLEAN /\ r.packet_number \in Frag /\ IsParts(r.packets)
IsMessage(m) == m.source \in Node /\ IsParts(m.parts)
LogEntry == [dest : Node \cup {Broadcast}, total : Nat, seq : SeqNumber,
             sent : Nat, timeouts : Nat]

SenderTypeOK ==
  /\ seq_number \in [Node -> SeqNumber]
  /\ outBuffer \in [Node -> Seq(Packet)]
  /\ ready \in [Node -> Nat]
  /\ disconnected_destination \in [Node -> Seq(Node)]
  /\ log \in [Node -> Seq(LogEntry)]
  /\ DOMAIN waiting = Node /\ DOMAIN waiting_for_ack = Node
  /\ \A n \in Node : IsPartial(waiting[n], Hash, Entry)
  /\ \A n \in Node : IsPartial(waiting_for_ack[n], SeqNumber, Count)

ReceiverTypeOK ==
  /\ got \in [Node -> SUBSET (Node \X Nat)]
  /\ expired \in [Node -> SUBSET (Node \X Nat)]
  /\ DOMAIN receive_buffer = Node /\ DOMAIN inBuffer = Node
  /\ \A n \in Node :
       /\ DOMAIN receive_buffer[n] \subseteq Node \X SeqNumber
       /\ \A k \in DOMAIN receive_buffer[n] : IsRecord(receive_buffer[n][k])
       /\ inBuffer[n] \in Seq(ToSet(inBuffer[n]))
       /\ \A m \in ToSet(inBuffer[n]) : IsMessage(m)

\* Types of the variables of the layer and of its environment.
TypeOK ==
  /\ SenderTypeOK
  /\ ReceiverTypeOK
  /\ rx \in [Node -> Seq(Packet)]
  /\ restarts \in [Node -> Nat] /\ radioErrors \in [Node -> Nat]

\* The queue is never left without a wake-up: while packets are queued a
\* READY_TO_SEND event is on the bus, unless the radio refused a datagram
\* (send, sendAck and idleTick fire it only for an empty queue, send_to_radio
\* only while packets are left, and accomplishAck may empty the queue).
NoLostWakeup == \A n \in Node :
  outBuffer[n] # <<>> => ready[n] > 0 \/ radioErrors[n] > 0

\* Unicast data is in the queue q at most once.
AtMostOnce(q) == \A i, j \in DOMAIN q :
  IsUnicastData(q[i]) /\ IsUnicastData(q[j]) /\ getHash(q[i]) = getHash(q[j]) => i = j

\* The entry e of hash h is in the queue q exactly while it is marked queued,
\* and nothing else of that hash is.
EntryMatches(q, h, e) ==
  /\ e.pkt \in Packet /\ IsUnicastData(e.pkt) /\ getHash(e.pkt) = h
  /\ e.queued <=> \E i \in DOMAIN q : q[i] = e.pkt
  /\ \A i \in DOMAIN q : IsUnicastData(q[i]) /\ getHash(q[i]) = h => q[i] = e.pkt

QueueMatches(q, w) ==
  AtMostOnce(q) /\ \A h \in DOMAIN w : w[h] # NULL => EntryMatches(q, h, w[h])

\* The buffers shared by outBuffer and waiting: the one that accomplishAck or
\* idleTick deletes is never left behind in the queue, none is queued twice.
QueuedOnce == \A n \in Node : QueueMatches(outBuffer[n], waiting[n])

\* A packet is put on the air MaxAttempt + 1 times at most.
AttemptsBounded == \A n \in Node : \A h \in DOMAIN waiting[n] :
  waiting[n][h] # NULL =>
    /\ waiting[n][h].attempt <= MaxAttempt
    /\ waiting[n][h].queued => waiting[n][h].attempt < MaxAttempt

\* A unicast message whose sender still expects acknowledgements (neither SENT
\* nor TIMEOUT was fired for it) has a fragment in the queue or in waiting, so
\* that idleTick still acts for it.
NoForgottenMessage == \A n \in Node : \A s \in DOMAIN waiting_for_ack[n] :
  \/ \E p \in ToSet(outBuffer[n]) : IsUnicastData(p) /\ p.seq_number = s
  \/ \E h \in DOMAIN waiting[n] : waiting[n][h] # NULL /\ h[2] = s

Delivered(n, k) == <<n, k>> \in got[log[n][k].dest]

\* A message that fits one packet ends in one event, SENT or TIMEOUT, and SENT
\* only after its destination received it; then no packet of it is left in
\* outBuffer or in waiting to be sent again.
OneOutcome == \A n \in Node : \A k \in DOMAIN log[n] :
  LET m == log[n][k]
  IN /\ m.total = 1 => m.sent + m.timeouts <= 1
     /\ m.sent <= 1
     /\ m.total = 1 /\ m.sent = 1 => Delivered(n, k)
     /\ m.total = 1 /\ m.sent + m.timeouts > 0 =>
          /\ \A p \in ToSet(outBuffer[n]) : p.type = "data" => p.msg # k
          /\ \A h \in DOMAIN waiting[n] : waiting[n][h] # NULL => waiting[n][h].pkt.msg # k

\* Reassembly never mixes messages: what the upper layer reads is all the
\* fragments of one message of the source, whatever was lost or repeated.
WholeMessages == \A n \in Node : \A i \in DOMAIN inBuffer[n] :
  LET r == inBuffer[n][i]
  IN \E k \in DOMAIN log[r.source] :
       r.parts = [f \in FragsOf(log[r.source][k].total) |-> k]

\* A message is put into inBuffer a second time only after the record of its
\* first reception was dropped (idleTick, or a restart of the receiver).
NoRepetition ==
  [][\A n \in Node :
       Len(inBuffer'[n]) > Len(inBuffer[n]) =>
         LET p == Head(rx[n])
         IN <<p.source, p.msg>> \in got[n] => <<p.source, p.msg>> \in expired[n]]_vars

\* What is dropped as a repetition was received before: checkRepetition hides
\* no message from the upper layer.
IgnoresOnlyRepetitions ==
  [][\A n \in Node :
       RecvData(n) /\ UNCHANGED recvVars =>
         LET p == Head(rx[n])
             k == <<p.source, p.seq_number>>
             held == receive_buffer[n][k].packets
         IN \/ <<p.source, p.msg>> \in got[n]
            \/ p.frag \in DOMAIN held /\ held[p.frag] = p.msg]_vars

Answered(n, k) == k \in DOMAIN log[n] /\ log[n][k].sent + log[n][k].timeouts > 0

\* With a radio that accepts every datagram each unicast message is eventually
\* answered with SENT or TIMEOUT, however many datagrams are lost.
EveryMessageAnswered == \A n \in Node : \A k \in 1 .. MaxSend[n] :
  (k \in DOMAIN log[n] /\ log[n][k].dest # Broadcast) ~> Answered(n, k)
=============================================================================
