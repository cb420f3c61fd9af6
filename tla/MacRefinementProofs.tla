------------------------ MODULE MacRefinementProofs ------------------------
(***************************************************************************)
(* MacLayer implements MacService, proved for every value of the           *)
(* constants: each handler is a step of the service or one that the upper  *)
(* layers do not see, while a sequence number names one message.           *)
(***************************************************************************)
EXTENDS MacDeliveryProofs, MacRefinement

-----------------------------------------------------------------------------
(* What the service sees.                                                  *)

View(l) == [k \in DOMAIN l |-> ViewOf(l[k])]
Messages == [n \in Node |-> View(log[n])]

\* The messages after a step of n that changes no other history.
LEMMA MessagesOf ==
  ASSUME NEW n \in Node, NEW w, w = View(log'[n]), \A m \in Node \ {n} : log'[m] = log[m]
  PROVE  Messages' = [Messages EXCEPT ![n] = w]
<1>1. /\ Messages' = [m \in Node |-> View(log'[m])]
      /\ Messages = [m \in Node |-> View(log[m])]
  BY DEF Messages, View
<1> QED  BY <1>1

\* A step that neither changes the history nor hands a message over is hidden.
LEMMA Hidden ==
  ASSUME log' = log, got' = got
  PROVE  UNCHANGED Service!vars
  BY DEF Service!vars

\* The actions of the service, as steps of Messages and got: a submission,
LEMMA ServiceSubmit ==
  ASSUME NEW n \in Node, NEW dest \in (Node \ {n}) \cup {Broadcast}, NEW total \in 1 .. MaxFrag,
         Messages' = [Messages EXCEPT ![n] =
           Append(@, [dest |-> dest, total |-> total, sent |-> 0, timeouts |-> 0])],
         got' = got
  PROVE  Service!Submit(n)
  BY DEF Service!Submit, Messages, View

\* a delivery,
LEMMA ServiceDeliver ==
  ASSUME NEW n \in Node, NEW m \in Node \ {n}, NEW k \in DOMAIN log[m],
         log[m][k].dest \in {n, Broadcast},
         got' = [got EXCEPT ![n] = @ \cup {<<m, k>>}], log' = log
  PROVE  Service!Deliver(n)
<1>1. /\ Messages' = Messages /\ DOMAIN Messages[m] = DOMAIN log[m]
      /\ Messages[m][k].dest = log[m][k].dest
  BY DEF Messages, View, ViewOf
<1> QED  BY <1>1 DEF Service!Deliver, Messages, View

\* a SENT event,
LEMMA ServiceSent ==
  ASSUME NEW n \in Node, NEW k \in DOMAIN log[n], log[n][k].dest # Broadcast,
         log[n][k].sent = 0, log[n][k].timeouts = 0,
         log[n][k].total = 1 => <<n, k>> \in got[log[n][k].dest],
         Messages' = [Messages EXCEPT ![n][k].sent = 1], got' = got
  PROVE  Service!Sent(n)
<1>1. DOMAIN Messages[n] = DOMAIN log[n] /\ Messages[n][k] = ViewOf(log[n][k])
  BY DEF Messages, View
<1>2. /\ Messages[n][k].dest = log[n][k].dest /\ Messages[n][k].total = log[n][k].total
      /\ Messages[n][k].sent = log[n][k].sent /\ Messages[n][k].timeouts = log[n][k].timeouts
  BY <1>1 DEF ViewOf
<1> QED  BY <1>1, <1>2 DEF Service!Sent, Messages, View

\* and the TIMEOUT events of one run of the timer.
LEMMA ServiceTimedOut ==
  ASSUME NEW n \in Node, NEW lost \in SUBSET DOMAIN log[n],
         NEW count \in [lost -> 1 .. MaxFrag],
         \A k \in lost : /\ log[n][k].dest # Broadcast
                         /\ log[n][k].total = 1 => log[n][k].sent = 0
                         /\ log[n][k].timeouts + count[k] <= log[n][k].total,
         Messages' = [Messages EXCEPT ![n] = [k \in DOMAIN Messages[n] |->
           IF k \in lost THEN Service!GaveUp(Messages[n][k], count[k]) ELSE Messages[n][k]]],
         got' = got
  PROVE  Service!TimedOut(n)
<1>1. /\ DOMAIN Messages[n] = DOMAIN log[n]
      /\ \A k \in DOMAIN log[n] : Messages[n][k] = ViewOf(log[n][k])
  BY DEF Messages, View
<1>2. ASSUME NEW k \in DOMAIN log[n]
      PROVE  /\ Messages[n][k].dest = log[n][k].dest /\ Messages[n][k].total = log[n][k].total
             /\ Messages[n][k].sent = log[n][k].sent
             /\ Messages[n][k].timeouts = log[n][k].timeouts
  <2>1. Messages[n][k] = ViewOf(log[n][k])
    BY <1>1
  <2> QED  BY <2>1 DEF ViewOf
<1>3. \A k \in lost : /\ Messages[n][k].dest # Broadcast
                      /\ Messages[n][k].total = 1 => Messages[n][k].sent = 0
                      /\ Messages[n][k].timeouts + count[k] <= Messages[n][k].total
  BY <1>2
<1>4. lost \in SUBSET DOMAIN Messages[n]
  BY <1>1
<1>5. /\ \A k \in lost : /\ Messages[n][k].dest # Broadcast
                         /\ Messages[n][k].total = 1 => Messages[n][k].sent = 0
                         /\ Messages[n][k].timeouts + count[k] <= Messages[n][k].total
      /\ Messages' = [Messages EXCEPT ![n] = [k \in DOMAIN Messages[n] |->
           IF k \in lost THEN Service!GaveUp(Messages[n][k], count[k]) ELSE Messages[n][k]]]
      /\ UNCHANGED got
  BY <1>3
<1> QED  BY <1>4, <1>5 DEF Service!TimedOut, Messages, View

-----------------------------------------------------------------------------
(* The handlers, one by one.                                               *)

\* send submits a message.
LEMMA SendSubmits ==
  ASSUME IInv, IInv', NEW n \in Node, Send(n)
  PROVE  Service!Submit(n)
<1>1. PICK dest \in (Node \ {n}) \cup {Broadcast}, total \in 1 .. MaxFrag :
        \E F : SendEffect(n, dest, total, F)
  BY SendEffects
<1>2. PICK F : SendEffect(n, dest, total, F)
  BY <1>1
<1>3. PICK e : e = [dest |-> dest, total |-> total, seq |-> seq_number[n],
                    sent |-> 0, timeouts |-> 0]
  OBVIOUS
<1>4. PICK v : v = [dest |-> dest, total |-> total, sent |-> 0, timeouts |-> 0]
  OBVIOUS
<1>5. PICK k \in Nat : k = Len(log[n]) + 1
  BY Typed
<1>6. /\ DOMAIN log'[n] = DOMAIN log[n] \cup {k} /\ k \notin DOMAIN log[n]
      /\ \A i \in DOMAIN log[n] : log'[n][i] = log[n][i]
      /\ log'[n][k] = e
  BY <1>2, <1>3, <1>5, SendLog
<1>7. ViewOf(e) = v
  BY <1>3, <1>4 DEF ViewOf
<1>8. View(log[n]) \in Seq({ViewOf(log[n][i]) : i \in DOMAIN log[n]} \cup {v})
  <2>1. DOMAIN log[n] = 1 .. Len(log[n]) /\ Len(log[n]) \in Nat
    BY Typed
  <2>2. \A i \in 1 .. Len(log[n]) :
          ViewOf(log[n][i]) \in {ViewOf(log[n][j]) : j \in DOMAIN log[n]} \cup {v}
    BY <2>1
  <2>3. View(log[n]) = [i \in 1 .. Len(log[n]) |-> ViewOf(log[n][i])]
    BY <2>1 DEF View
  <2> QED  BY <2>1, <2>2, <2>3, IsASeq
<1>9. View(log'[n]) = Append(View(log[n]), v)
  <2>1. /\ DOMAIN View(log[n]) = DOMAIN log[n] /\ DOMAIN log[n] = 1 .. Len(log[n])
        /\ Len(log[n]) \in Nat
    BY Typed DEF View
  <2>2. Len(View(log[n])) = Len(log[n])
    BY <1>8, <2>1, LenProperties
  <2>3. /\ Append(View(log[n]), v)
             \in Seq({ViewOf(log[n][i]) : i \in DOMAIN log[n]} \cup {v})
        /\ DOMAIN Append(View(log[n]), v) = 1 .. k
        /\ \A i \in 1 .. Len(log[n]) : Append(View(log[n]), v)[i] = View(log[n])[i]
        /\ Append(View(log[n]), v)[k] = v
    BY <1>5, <1>8, <2>2, AppendProperties, LenProperties
  <2>4. DOMAIN View(log'[n]) = 1 .. k
    BY <1>5, <1>6, <2>1 DEF View
  <2>5. ASSUME NEW i \in 1 .. k PROVE View(log'[n])[i] = Append(View(log[n]), v)[i]
    <3>1. View(log'[n])[i] = ViewOf(log'[n][i])
      BY <1>5, <1>6, <2>1 DEF View
    <3>2. CASE i = k
      BY <1>6, <1>7, <2>3, <3>1, <3>2
    <3>3. CASE i # k
      <4>1. i \in 1 .. Len(log[n])
        BY <1>5, <2>1, <3>3
      <4>2. View(log[n])[i] = ViewOf(log[n][i])
        BY <2>1, <4>1 DEF View
      <4> QED  BY <1>6, <2>1, <2>3, <3>1, <4>1, <4>2
    <3> QED  BY <3>2, <3>3
  <2>6. View(log'[n]) = [i \in 1 .. k |-> View(log'[n])[i]]
    BY <2>4 DEF View
  <2>7. Append(View(log[n]), v) = [i \in 1 .. k |-> Append(View(log[n]), v)[i]]
    BY <2>3, LenProperties
  <2> QED  BY <2>5, <2>6, <2>7
<1>10. \A m \in Node \ {n} : log'[m] = log[m]
  BY <1>2 DEF SendEffect, Local, SenderSame
<1>11. Messages' = [Messages EXCEPT ![n] = Append(@, v)]
  <2>1. Messages[n] = View(log[n])
    BY DEF Messages
  <2>2. Messages' = [Messages EXCEPT ![n] = Append(View(log[n]), v)]
    BY <1>9, <1>10, MessagesOf
  <2> QED  BY <2>1, <2>2
<1>12. got' = got
  BY DEF Send, recvVars
<1> QED  BY <1>4, <1>11, <1>12, ServiceSubmit

\* A reception hands over a message of the log, or the upper layer sees nothing.
LEMMA AcceptDelivers ==
  ASSUME IInv, General, NEW n \in Node, NEW p \in ToSet(rx[n]), p \in Packet, p.type = "data",
         p.destination \in {n, Broadcast}, Accept(n, p), log' = log
  PROVE  Service!Deliver(n) \/ UNCHANGED Service!vars
<1>1. /\ IsPart(p) /\ p.source # n /\ p.source \in Node
  BY DEF General, PacketsWell, Packet
<1>2. /\ p.source \in Node \ {n} /\ p.msg \in DOMAIN log[p.source]
      /\ log[p.source][p.msg].dest \in {n, Broadcast}
  BY <1>1 DEF IsPart
<1>3. \/ got' = got
      \/ got' = [got EXCEPT ![n] = @ \cup {<<p.source, p.msg>>}]
  BY DEF Accept, recvVars
<1>4. CASE got' = got
  BY <1>4, Hidden
<1>5. CASE got' = [got EXCEPT ![n] = @ \cup {<<p.source, p.msg>>}]
  BY <1>2, <1>5, ServiceDeliver
<1> QED  BY <1>3, <1>4, <1>5

\* Both kinds of data packets do that.
LEMMA ReceptionDelivers ==
  ASSUME IInv, General, NEW n \in Node, RecvData(n) \/ RecvBroadcast(n)
  PROVE  Service!Deliver(n) \/ UNCHANGED Service!vars
<1>1. /\ rx[n] # <<>> /\ Take(n) /\ Accept(n, Head(rx[n])) /\ log' = log
      /\ \/ Head(rx[n]).type = "data" /\ Head(rx[n]).destination = n
         \/ Head(rx[n]).destination = Broadcast
  BY DEF RecvData, RecvBroadcast
<1>2. PICK p \in Packet : p = Head(rx[n]) /\ p \in ToSet(rx[n])
  BY <1>1, TakeSets
<1>3. p.destination \in {n, Broadcast} /\ p.type = "data"
  BY <1>1, <1>2, NodeAssumption DEF General, PacketsWell, Packet
<1> QED  BY <1>1, <1>2, <1>3, AcceptDelivers

\* The entry that an acknowledgement completes.
LEMMA AnsweredEntry ==
  ASSUME IInv, General, WhileUnique, NumbersUnique, NEW n \in Node, NEW p \in Packet,
         AckEffect(n, p), Answers(n, p)
  PROVE  \E k \in DOMAIN log[n] :
           /\ log'[n] = SentIn(log[n], k)
           /\ log[n][k].dest # Broadcast /\ log[n][k].sent = 0 /\ log[n][k].timeouts = 0
           /\ log[n][k].total = 1 => <<n, k>> \in got[log[n][k].dest]
<1>1. p.seq_number \in DOMAIN waiting_for_ack[n]
  BY DEF Answers
<1>2. PICK k \in DOMAIN log[n] :
        /\ k = waiting_for_ack[n][p.seq_number].msg /\ log[n][k].seq = p.seq_number
        /\ log[n][k].dest # Broadcast /\ log[n][k].sent = 0 /\ log[n][k].timeouts = 0
  BY <1>1 DEF General, CountsWell
<1>3. log'[n] = SentIn(log[n], k)
  BY <1>2 DEF AckEffect
<1>4. AckFor(p) /\ p.destination = n
  BY DEF AckEffect, WhileUnique, AcksWell
<1>5. PICK i \in DOMAIN log[n] :
        /\ log[n][i].seq = p.seq_number /\ log[n][i].dest = p.source
        /\ log[n][i].total = 1 => <<n, i>> \in got[p.source]
  BY <1>4 DEF AckFor
<1>6. i = k
  BY <1>2, <1>5 DEF NumbersUnique
<1> QED  BY <1>2, <1>3, <1>5, <1>6

\* The view of a history in which message k was answered with SENT.
LEMMA SentView ==
  ASSUME NEW n \in Node, NEW l \in Seq(LogEntry), NEW k \in DOMAIN l, l[k].sent = 0,
         NEW w, w = View(SentIn(l, k))
  PROVE  w = [View(l) EXCEPT ![k].sent = 1]
<1>1. /\ DOMAIN SentIn(l, k) = DOMAIN l
      /\ \A i \in DOMAIN l : i # k => SentIn(l, k)[i] = l[i]
      /\ SentIn(l, k)[k].dest = l[k].dest /\ SentIn(l, k)[k].total = l[k].total
      /\ SentIn(l, k)[k].seq = l[k].seq /\ SentIn(l, k)[k].timeouts = l[k].timeouts
      /\ SentIn(l, k)[k].sent = l[k].sent + 1
  BY SentInLog
<1>2. ViewOf(SentIn(l, k)[k]) = [ViewOf(l[k]) EXCEPT !.sent = 1]
  <2>1. SentIn(l, k)[k].sent = 1
    BY <1>1
  <2> QED  BY <1>1, <2>1 DEF ViewOf
<1>3. w = [i \in DOMAIN l |-> IF i = k THEN [ViewOf(l[k]) EXCEPT !.sent = 1]
                              ELSE ViewOf(l[i])]
  BY <1>1, <1>2 DEF View
<1> QED  BY <1>3 DEF View

\* An acknowledgement answers a message with SENT, or the upper layer sees nothing.
LEMMA AckAnswers ==
  ASSUME IInv, DInv, NumbersUnique, NEW n \in Node, RecvAck(n)
  PROVE  Service!Sent(n) \/ UNCHANGED Service!vars
<1>1. PICK p \in Packet : AckEffect(n, p)
  BY RecvAckEffects
<1>2. got' = got /\ log \in [Node -> Seq(LogEntry)] /\ General /\ WhileUnique
  BY Typed DEF RecvAck, recvVars, DInv
<1>3. PICK l : log' = [log EXCEPT ![n] = l]
  BY DEF RecvAck
<1>4. log'[n] = l /\ \A m \in Node \ {n} : log'[m] = log[m]
  BY <1>2, <1>3
<1>5. CASE ~Answers(n, p)
  <2>1. log'[n] = log[n]
    BY <1>1, <1>5 DEF AckEffect
  <2>2. log' = log
    BY <1>2, <1>3, <1>4, <2>1
  <2> QED  BY <1>2, <2>2, Hidden
<1>6. CASE Answers(n, p)
  <2>1. PICK k \in DOMAIN log[n] :
           /\ log'[n] = SentIn(log[n], k)
           /\ log[n][k].dest # Broadcast /\ log[n][k].sent = 0 /\ log[n][k].timeouts = 0
           /\ log[n][k].total = 1 => <<n, k>> \in got[log[n][k].dest]
    BY <1>1, <1>2, <1>6, AnsweredEntry
  <2>2. PICK w : w = View(log'[n])
    OBVIOUS
  <2>3. w = [View(log[n]) EXCEPT ![k].sent = 1]
    BY <1>2, <2>1, <2>2, SentView
  <2>4. Messages' = [Messages EXCEPT ![n] = w]
    BY <1>4, <2>2, MessagesOf
  <2>5. Messages[n] = View(log[n])
    BY DEF Messages
  <2>6. Messages' = [Messages EXCEPT ![n][k].sent = 1]
    BY <2>3, <2>4, <2>5
  <2> QED  BY <1>2, <2>1, <2>6, ServiceSent
<1> QED  BY <1>5, <1>6

\* k is the history l after c[i] fragments of each message i of lost were given up.
GivesUpIn(l, lost, c, k) ==
  /\ DOMAIN k = DOMAIN l
  /\ \A i \in DOMAIN l :
       /\ k[i].dest = l[i].dest /\ k[i].total = l[i].total /\ k[i].sent = l[i].sent
       /\ k[i].timeouts = IF i \in lost THEN l[i].timeouts + c[i] ELSE l[i].timeouts
ViewWithout(l, lost, c) ==
  [i \in DOMAIN View(l) |->
     IF i \in lost THEN Service!GaveUp(View(l)[i], c[i]) ELSE View(l)[i]]

\* Its view.
LEMMA GivenUpView ==
  ASSUME NEW l, NEW lost, NEW c, NEW k, GivesUpIn(l, lost, c, k)
  PROVE  View(k) = ViewWithout(l, lost, c)
<1>1. DOMAIN View(l) = DOMAIN l /\ DOMAIN View(k) = DOMAIN l
  BY DEF View, GivesUpIn
<1>2. ASSUME NEW i \in DOMAIN l
      PROVE  ViewOf(k[i]) = IF i \in lost THEN Service!GaveUp(View(l)[i], c[i]) ELSE View(l)[i]
  <2>1. View(l)[i] = ViewOf(l[i])
    BY DEF View
  <2>2. CASE i \in lost
    BY <2>1, <2>2 DEF GivesUpIn, ViewOf, Service!GaveUp
  <2>3. CASE i \notin lost
    BY <2>1, <2>3 DEF GivesUpIn, ViewOf
  <2> QED  BY <2>2, <2>3
<1>3. View(k) = [i \in DOMAIN l |-> ViewOf(k[i])]
  BY DEF View, GivesUpIn
<1> QED  BY <1>1, <1>2, <1>3 DEF ViewWithout

\* A run of idleTick answers the messages whose fragments it gives up with TIMEOUT.
LEMMA TickTimesOut ==
  ASSUME IInv, DInv, NumbersUnique, NEW n \in Node, IdleTick(n)
  PROVE  Service!TimedOut(n)
<1>1. PICK gone : TickEffect(n, gone)
  BY IdleTickEffects
<1>2. /\ General /\ WhileUnique /\ LogWell(n) /\ TimeoutsWell(n) /\ OutcomesWell(n)
      /\ got' = got
  BY DEF DInv, General, WhileUnique, IdleTick
<1>3. PICK lost \in SUBSET DOMAIN log[n] :
        lost = {i \in DOMAIN log[n] : LostOf(n, gone, i) # {}}
  OBVIOUS
<1>4. PICK count : count = [i \in lost |-> Cardinality(LostOf(n, gone, i))]
  OBVIOUS
<1>5. ASSUME NEW i \in lost
      PROVE  /\ count[i] \in 1 .. MaxFrag /\ log[n][i].dest # Broadcast
             /\ log[n][i].total = 1 => log[n][i].sent = 0
             /\ log[n][i].timeouts + count[i] <= log[n][i].total
  <2>1. i \in DOMAIN log[n] /\ LostOf(n, gone, i) # {}
        /\ count[i] = Cardinality(LostOf(n, gone, i))
    BY <1>3, <1>4
  <2>2. /\ IsFiniteSet(LostOf(n, gone, i)) /\ count[i] \in Nat
        /\ count[i] + Cardinality(OfMessage(n, i)') <= Cardinality(OfMessage(n, i))
        /\ Cardinality(OfMessage(n, i)') \in Nat /\ Cardinality(OfMessage(n, i)) \in Nat
        /\ log[n][i].dest # Broadcast
    BY <1>1, <1>2, <2>1, LostFragments
  <2>3. count[i] # 0
    BY <2>1, <2>2, FS_EmptySet
  <2>4. /\ log[n][i].timeouts \in Nat /\ log[n][i].total \in Nat
        /\ log[n][i].total <= MaxFrag /\ MaxFrag \in Nat
    <3>1. log[n][i] \in LogEntry /\ log[n][i].total \in 1 .. MaxFrag
      BY <1>2, <2>1, Typed DEF LogWell
    <3> QED  BY <3>1, FragsOfProperties, BoundAssumption DEF LogEntry
  <2>5. log[n][i].timeouts + Cardinality(OfMessage(n, i)) <= log[n][i].total
    BY <1>2, <2>1 DEF TimeoutsWell
  <2>6. log[n][i].timeouts + count[i] <= log[n][i].total /\ count[i] \in 1 .. MaxFrag
    BY <2>2, <2>3, <2>4, <2>5
  <2>7. log[n][i].total = 1 => log[n][i].sent = 0
    BY <1>1, <1>2, <2>1, LostOutcomes
  <2> QED  BY <2>2, <2>6, <2>7
<1>6. count \in [lost -> 1 .. MaxFrag]
  BY <1>4, <1>5
<1>7. ASSUME NEW i \in DOMAIN log[n]
      PROVE  /\ log'[n][i].dest = log[n][i].dest /\ log'[n][i].total = log[n][i].total
             /\ log'[n][i].sent = log[n][i].sent
             /\ log'[n][i].timeouts = IF i \in lost THEN log[n][i].timeouts + count[i]
                                      ELSE log[n][i].timeouts
  <2>1. /\ log'[n][i].dest = log[n][i].dest /\ log'[n][i].total = log[n][i].total
        /\ log'[n][i].sent = log[n][i].sent
        /\ log'[n][i].timeouts = log[n][i].timeouts + Cardinality(LostOf(n, gone, i))
    BY <1>1 DEF TickEffect
  <2>2. CASE i \in lost
    BY <1>4, <2>1, <2>2
  <2>3. CASE i \notin lost
    <3>1. LostOf(n, gone, i) = {}
      BY <1>3, <2>3
    <3>2. Cardinality(LostOf(n, gone, i)) = 0
      BY <3>1, FS_EmptySet
    <3>3. log[n][i].timeouts \in Nat
      BY Typed DEF LogEntry
    <3> QED  BY <2>1, <2>3, <3>2, <3>3
  <2> QED  BY <2>2, <2>3, <2>1
<1>8. PICK w : w = View(log'[n])
  OBVIOUS
<1>9. w = ViewWithout(log[n], lost, count)
  <2>1. DOMAIN log'[n] = DOMAIN log[n]
    BY <1>1 DEF TickEffect
  <2>2. GivesUpIn(log[n], lost, count, log'[n])
    BY <1>7, <2>1 DEF GivesUpIn
  <2>3. PICK k : k = log'[n]
    OBVIOUS
  <2> QED  BY <1>8, <2>2, <2>3, GivenUpView
<1>10. \A m \in Node \ {n} : log'[m] = log[m]
  BY <1>1 DEF TickEffect, SenderSame
<1>11. Messages' = [Messages EXCEPT ![n] = [i \in DOMAIN Messages[n] |->
          IF i \in lost THEN Service!GaveUp(Messages[n][i], count[i]) ELSE Messages[n][i]]]
  <2>1. Messages[n] = View(log[n])
    BY DEF Messages
  <2>2. Messages' = [Messages EXCEPT ![n] = w]
    BY <1>8, <1>10, MessagesOf
  <2> QED  BY <1>9, <2>1, <2>2 DEF ViewWithout
<1> QED  BY <1>2, <1>5, <1>6, <1>11, ServiceTimedOut

-----------------------------------------------------------------------------
(* The theorem.                                                            *)

\* Every step of the layer is a step of the service, or hidden.
LEMMA StepImplements ==
  ASSUME IInv, IInv', DInv, NumbersUnique, [Next]_vars
  PROVE  [Service!Next]_(Service!vars)
<1>1. ASSUME UNCHANGED vars PROVE UNCHANGED Service!vars
  BY <1>1, Hidden DEF vars, recvVars
<1>2. ASSUME NEW n \in Node, Send(n) PROVE Service!Submit(n)
  BY <1>2, SendSubmits
<1>3. ASSUME NEW n \in Node, RecvData(n) \/ RecvBroadcast(n)
      PROVE  Service!Deliver(n) \/ UNCHANGED Service!vars
  BY <1>3, ReceptionDelivers DEF DInv
<1>4. ASSUME NEW n \in Node, RecvAck(n) PROVE Service!Sent(n) \/ UNCHANGED Service!vars
  BY <1>4, AckAnswers
<1>5. ASSUME NEW n \in Node, IdleTick(n) PROVE Service!TimedOut(n)
  BY <1>5, TickTimesOut
<1>6. ASSUME NEW n \in Node,
             \/ SendToRadio(n) \/ SendToRadioFails(n) \/ SendToRadioIdle(n) \/ RecvOther(n)
             \/ Recv(n) \/ GetDisconnectedDestination(n) \/ Restart(n)
      PROVE  UNCHANGED Service!vars
  <2>1. log' = log /\ got' = got
    BY <1>6 DEF SendToRadio, SendToRadioFails, SendToRadioIdle, RecvOther, Recv,
                GetDisconnectedDestination, Restart, recvVars
  <2> QED  BY <2>1, Hidden
<1>7. Service!Next <=> \E n \in Node : \/ Service!Submit(n) \/ Service!Deliver(n)
                                       \/ Service!Sent(n) \/ Service!TimedOut(n)
  BY DEF Service!Next
<1>8. \/ UNCHANGED vars
      \/ \E n \in Node :
           \/ Send(n) \/ RecvData(n) \/ RecvBroadcast(n) \/ RecvAck(n) \/ IdleTick(n)
           \/ SendToRadio(n) \/ SendToRadioFails(n) \/ SendToRadioIdle(n) \/ RecvOther(n)
           \/ Recv(n) \/ GetDisconnectedDestination(n) \/ Restart(n)
  BY DEF Next, SystemStep, RecvFromRadio
<1> QED  BY <1>1, <1>2, <1>3, <1>4, <1>5, <1>6, <1>7, <1>8

\* While a sequence number names one message, MacLayer implements MacService: SENT is
\* fired once, before any TIMEOUT and, for a message of one packet, after the
\* destination received it; there is at most one TIMEOUT for each fragment; and only
\* what was submitted is handed over, to its destination.
THEOREM Implements == Spec /\ []NumbersUnique => ImplementsService
<1>1. Init => Service!Init
  BY DEF Init, Service!Init
<1>2. Spec => [](IInv /\ DInv)
  BY DeliveryHolds
<1>3. IInv /\ IInv' /\ DInv /\ NumbersUnique /\ [Next]_vars => [Service!Next]_(Service!vars)
  BY StepImplements
<1>4. Spec /\ []NumbersUnique => Service!Init /\ [][Service!Next]_(Service!vars)
  BY <1>1, <1>2, <1>3, PTL DEF Spec
<1> QED  BY <1>4 DEF ImplementsService, Service!Spec
=============================================================================
