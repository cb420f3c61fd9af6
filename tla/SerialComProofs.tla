-------------------------- MODULE SerialComProofs ---------------------------
(***************************************************************************)
(* Theorems about SerialCom, for every value of its constants.             *)
(***************************************************************************)
EXTENDS SerialCom, TLAPS, SequenceTheorems

\* The inductive invariant. SendReturns keeps OneWakeup only if the message it
\* ends is the first of the queue and no other handler is at it; the line stays
\* a prefix of the stream only if the queue is what follows it there.
IInv == TypeOK /\ OneWakeup /\ QueueIsRest

-----------------------------------------------------------------------------
(* Lemmas about sequences of numbers.                                      *)

\* The elements of a concatenation.
LEMMA ConcatAt ==
  ASSUME NEW S, NEW q \in Seq(S), NEW r \in Seq(S)
  PROVE  /\ q \o r \in Seq(S) /\ Len(q \o r) = Len(q) + Len(r)
         /\ Len(q) \in Nat /\ Len(r) \in Nat
         /\ \A i \in 1 .. Len(q) : (q \o r)[i] = q[i]
         /\ \A i \in 1 .. Len(r) : (q \o r)[Len(q) + i] = r[i]
  BY ConcatProperties, LenProperties

LEMMA ConcatOfNat ==
  ASSUME NEW q \in Seq(Nat), NEW r \in Seq(Nat)
  PROVE  /\ q \o r \in Seq(Nat) /\ Len(q \o r) = Len(q) + Len(r)
         /\ \A i \in 1 .. Len(q) : (q \o r)[i] = q[i]
         /\ \A i \in 1 .. Len(r) : (q \o r)[Len(q) + i] = r[i]
  BY ConcatAt

\* A part of a sequence.
LEMMA PartAt ==
  ASSUME NEW S, NEW q \in Seq(S), NEW m \in Nat, NEW n \in Nat, m >= 1, n <= Len(q)
  PROVE  /\ SubSeq(q, m, n) \in Seq(S)
         /\ Len(SubSeq(q, m, n)) = IF m <= n THEN n - m + 1 ELSE 0
         /\ \A i \in 1 .. Len(SubSeq(q, m, n)) : SubSeq(q, m, n)[i] = q[m + i - 1]
<1>1. \A i \in m .. n : q[i] \in S
  BY ElementOfSeq, LenProperties
<1> QED  BY <1>1, SubSeqProperties

\* The rest of a sequence.
LEMMA TailAt ==
  ASSUME NEW S, NEW q \in Seq(S), q # <<>>
  PROVE  /\ Tail(q) \in Seq(S) /\ Len(Tail(q)) = Len(q) - 1 /\ Len(q) \in Nat \ {0}
         /\ Head(q) = q[1] /\ q[1] \in S
         /\ \A i \in 1 .. Len(q) - 1 : Tail(q)[i] = q[i + 1]
  BY HeadTailProperties, LenProperties, EmptySeq

\* b is what t has after its first at elements.
LiesAt(b, t, at) == \A j \in 1 .. Len(b) : b[j] = t[at + j]

\* r is l and the k elements of b after the first s.
Longer(r, l, b, s, k) ==
  /\ l \in Seq(Nat) /\ b \in Seq(Nat) /\ s \in Nat /\ k \in Nat \ {0}
  /\ s + k <= Len(b) /\ r = l \o SubSeq(b, s + 1, s + k)

LongerElements(r, l, b, s, k) ==
  /\ r \in Seq(Nat) /\ Len(r) = Len(l) + k
  /\ \A i \in 1 .. Len(l) : r[i] = l[i]
  /\ \A i \in 1 .. k : r[Len(l) + i] = b[s + i]

LEMMA LongerAt ==
  ASSUME NEW r, NEW l, NEW b, NEW s, NEW k, Longer(r, l, b, s, k)
  PROVE  LongerElements(r, l, b, s, k)
<1> USE DEF Longer
<1>1. PICK c : c = SubSeq(b, s + 1, s + k)
  OBVIOUS
<1>2. s + 1 \in Nat /\ s + k \in Nat /\ s + 1 >= 1 /\ s + 1 <= s + k
      /\ (s + k) - (s + 1) + 1 = k /\ \A i \in Nat : (s + 1) + i - 1 = s + i
  OBVIOUS
<1>3. c \in Seq(Nat) /\ Len(c) = k /\ \A i \in 1 .. k : c[i] = b[(s + 1) + i - 1]
  BY <1>1, <1>2, PartAt
<1>4. \A i \in 1 .. k : c[i] = b[s + i]
  BY <1>2, <1>3
<1>5. r = l \o c
  BY <1>1
<1>6. /\ r \in Seq(Nat) /\ Len(r) = Len(l) + Len(c)
      /\ \A i \in 1 .. Len(l) : r[i] = l[i]
      /\ \A i \in 1 .. Len(c) : r[Len(l) + i] = c[i]
  <2> HIDE DEF Longer
  <2>1. l \in Seq(Nat) /\ c \in Seq(Nat)
    BY <1>3 DEF Longer
  <2>2. /\ l \o c \in Seq(Nat) /\ Len(l \o c) = Len(l) + Len(c)
        /\ \A i \in 1 .. Len(l) : (l \o c)[i] = l[i]
        /\ \A i \in 1 .. Len(c) : (l \o c)[Len(l) + i] = c[i]
    BY <2>1, ConcatOfNat
  <2> QED  BY <1>5, <2>2, Zenon
<1> QED  BY <1>3, <1>4, <1>6 DEF LongerElements

\* A line that ends in the middle of what b is of the stream t, and more of b.
LEMMA MoreOfIt ==
  ASSUME NEW r, NEW l, NEW t \in Seq(Nat), NEW b, NEW at \in Nat, NEW s, NEW k,
         Longer(r, l, b, s, k), at + Len(b) <= Len(t), Len(l) = at + s,
         LiesAt(b, t, at), LiesAt(l, t, 0)
  PROVE  Len(r) <= Len(t) /\ LiesAt(r, t, 0)
<1>0. l \in Seq(Nat) /\ b \in Seq(Nat) /\ s \in Nat /\ k \in Nat \ {0} /\ s + k <= Len(b)
  BY DEF Longer
<1>1. Len(b) \in Nat /\ Len(l) \in Nat /\ Len(t) \in Nat
  BY <1>0, LenProperties
<1>5. /\ r \in Seq(Nat) /\ Len(r) = Len(l) + k
      /\ \A i \in 1 .. Len(l) : r[i] = l[i]
      /\ \A i \in 1 .. k : r[Len(l) + i] = b[s + i]
  <2>1. LongerElements(r, l, b, s, k)
    BY LongerAt
  <2> QED  BY <2>1 DEF LongerElements
<1>6. Len(r) <= Len(t)
  <2>1. \A x, y, z, v, w \in Nat : x + y <= z /\ v + w <= y => x + v + w <= z
    OBVIOUS
  <2>2. at + s + k <= Len(t)
    BY <2>1, <1>0, <1>1
  <2> QED  BY <2>2, <1>0, <1>1, <1>5
<1>7. ASSUME NEW j \in 1 .. Len(r) PROVE r[j] = t[0 + j]
  <2>3. j \in Nat /\ 0 + j = j
    BY <1>0, <1>1, <1>5
  <2>1. CASE j <= Len(l)
    <3>1. j \in 1 .. Len(l)
      BY <2>1, <1>0, <1>1
    <3> QED  BY <3>1, <1>5 DEF LiesAt
  <2>2. CASE j > Len(l)
    <3>1. PICK i \in 1 .. k : j = Len(l) + i
      <4>1. j - Len(l) \in 1 .. k /\ j = Len(l) + (j - Len(l))
        <5>1. j \in Nat /\ j <= Len(l) + k /\ j > Len(l)
          BY <2>2, <1>0, <1>1, <1>5
        <5> QED  BY <5>1, <1>0, <1>1
      <4> QED  BY <4>1
    <3>2. r[j] = b[s + i]
      BY <3>1, <1>5
    <3>3. s + i \in 1 .. Len(b) /\ at + (s + i) = j
      <4>1. i \in Nat /\ 1 <= i /\ i <= k
        BY <3>1
      <4>2. s + i <= Len(b)
        BY <4>1, <1>0, <1>1
      <4> QED  BY <3>1, <4>1, <4>2, <1>0, <1>1
    <3>4. b[s + i] = t[at + (s + i)]
      BY <3>3 DEF LiesAt
    <3> QED  BY <3>2, <3>3, <3>4, <2>3
  <2> QED  BY <2>1, <2>2, <2>3, <1>0, <1>1
<1> QED  BY <1>5, <1>6, <1>7 DEF LiesAt

\* One element more.
LEMMA AppendAt ==
  ASSUME NEW S, NEW q \in Seq(S), NEW e \in S
  PROVE  /\ Append(q, e) \in Seq(S) /\ Len(Append(q, e)) = Len(q) + 1 /\ Len(q) \in Nat
         /\ \A i \in 1 .. Len(q) : Append(q, e)[i] = q[i]
         /\ Append(q, e)[Len(q) + 1] = e
  BY AppendProperties, LenProperties

\* A message goes out with a header: no frame is empty (send).
LEMMA FrameType ==
  ASSUME NEW m \in Message
  PROVE  Frame(m) \in Seq(Nat) /\ Len(Frame(m)) \in Nat \ {0}
<1>1. /\ m.payload \in Seq(Nat) /\ Len(m.payload) \in Nat
      /\ <<m.id, m.value, Len(m.payload)>> \in Seq(Nat)
  BY LenProperties DEF Message
<1>2. Len(<<m.id, m.value, Len(m.payload)>>) = 3
  OBVIOUS
<1> QED  BY <1>1, <1>2, ConcatAt DEF Frame

-----------------------------------------------------------------------------
(* Types.                                                                  *)

\* The part of TypeOK about sending, and the one about receiving.
OutTypes ==
  /\ out \in Seq(OutEntry) /\ {sent, ready, taken} \subseteq Nat
  /\ line \in Seq(Nat) /\ stream \in Seq(Nat)

InTypes ==
  /\ stage \in {"first", "second", "length", "payload", "spinning", "asleep"}
  /\ {id, value, len} \subseteq Nat /\ buf \in Seq(Nat)
  /\ rx \in Seq(Nat) /\ Len(rx) <= RxCap /\ wire \in Seq(Nat)
  /\ got \in Seq([id : Nat, value : Nat, payload : Seq(Nat \cup {Garbage})])
  /\ hostSent \in Seq(InMessage) /\ due \in Seq(InMessage) /\ broken \in BOOLEAN

UsedType == used \in [out : Nat, inUse : Nat, noData : Nat]

LEMMA TypeParts == TypeOK <=> OutTypes /\ InTypes /\ UsedType
  BY DEF TypeOK, OutTypes, InTypes, UsedType

LEMMA InitIInv == ASSUME Init PROVE IInv
<1>1. <<>> \in Seq(Nat) /\ <<>> \in Seq(OutEntry) /\ <<>> \in Seq(InMessage)
      /\ Len(<<>>) = 0
  OBVIOUS
<1>2. OutTypes
  BY <1>1 DEF Init, OutTypes
<1>3. <<>> \in Seq([id : Nat, value : Nat, payload : Seq(Nat \cup {Garbage})])
  OBVIOUS
<1>4. InTypes
  <2>1. stage \in {"first", "second", "length", "payload", "spinning", "asleep"} /\ {id, value, len} \subseteq Nat
    BY DEF Init
  <2>4. broken \in BOOLEAN
    BY Zenon DEF Init
  <2>2. /\ buf \in Seq(Nat) /\ rx \in Seq(Nat) /\ wire \in Seq(Nat)
        /\ hostSent \in Seq(InMessage) /\ due \in Seq(InMessage) /\ Len(rx) <= RxCap
    BY <1>1, SerialBounds DEF Init
  <2>3. got \in Seq([id : Nat, value : Nat, payload : Seq(Nat \cup {Garbage})])
    BY <1>3 DEF Init
  <2> QED  BY <2>1, <2>2, <2>3, <2>4 DEF InTypes
<1>5. UsedType
  BY DEF Init, UsedType
<1>6. OneWakeup /\ QueueIsRest
  BY <1>1 DEF Init, OneWakeup, QueueIsRest
<1> QED  BY <1>2, <1>4, <1>5, <1>6, TypeParts DEF IInv

\* The entries of the queue.
LEMMA EntryAt ==
  ASSUME OutTypes
  PROVE  \A i \in 1 .. Len(out) :
           /\ out[i] \in OutEntry /\ out[i].bytes \in Seq(Nat)
           /\ out[i].at \in Nat /\ Len(out[i].bytes) \in Nat
<1> SUFFICES ASSUME NEW i \in 1 .. Len(out)
             PROVE  /\ out[i] \in OutEntry /\ out[i].bytes \in Seq(Nat)
                    /\ out[i].at \in Nat /\ Len(out[i].bytes) \in Nat
  OBVIOUS
<1>1. out \in Seq(OutEntry)
  BY DEF OutTypes
<1>2. out[i] \in OutEntry
  BY <1>1, ElementOfSeq
<1>3. out[i].bytes \in Seq(Nat) /\ out[i].at \in Nat
  BY <1>2 DEF OutEntry
<1> QED  BY <1>2, <1>3, LenProperties

\* A step of the sending half leaves the receiving half as it is, and vice versa.
LEMMA InTypesKept == ASSUME InTypes, UNCHANGED inVars PROVE InTypes'
  BY DEF InTypes, inVars

LEMMA OutKept ==
  ASSUME OutTypes, OneWakeup, QueueIsRest, UNCHANGED outVars
  PROVE  OutTypes' /\ OneWakeup' /\ QueueIsRest'
  BY DEF OutTypes, OneWakeup, QueueIsRest, Rest, outVars

\* What the listeners are called with is bytes, some of them perhaps unwritten.
LEMMA DeliverTypes ==
  ASSUME InTypes, NEW payload \in Seq(Nat \cup {Garbage}), Deliver(payload),
         rx' \in Seq(Nat), Len(rx') <= RxCap, broken' \in BOOLEAN,
         UNCHANGED <<id, value, len, wire, hostSent, due>>
  PROVE  InTypes'
<1> DEFINE G == [id : Nat, value : Nat, payload : Seq(Nat \cup {Garbage})]
           e == [id |-> id, value |-> value, payload |-> payload]
<1>1. e \in G
  BY DEF InTypes
<1>2. got' \in Seq(G)
  <2>1. Append(got, e) \in Seq(G)
    BY <1>1, AppendProperties DEF InTypes
  <2> QED  BY <2>1 DEF InTypes, Deliver, CallListeners
<1> QED  BY <1>2 DEF InTypes, Deliver, CallListeners

-----------------------------------------------------------------------------
(* The receiving half.                                                     *)

LEMMA RecvFieldTypes ==
  ASSUME InTypes, RecvFirstByte \/ RecvSecondByte \/ RecvLength
  PROVE  InTypes'
<1>1. rx # <<>>
  BY DEF RecvFirstByte, RecvSecondByte, RecvLength
<1>2. Head(rx) \in Nat /\ Tail(rx) \in Seq(Nat) /\ Len(Tail(rx)) <= RxCap
  BY <1>1, TailAt, SerialBounds DEF InTypes
<1>3. CASE RecvFirstByte
  BY <1>2, <1>3 DEF InTypes, RecvFirstByte
<1>4. CASE RecvSecondByte
  BY <1>2, <1>4 DEF InTypes, RecvSecondByte
<1>5. CASE RecvLength
  BY <1>2, <1>5 DEF InTypes, RecvLength
<1> QED  BY <1>3, <1>4, <1>5

LEMMA RecvPayloadTypes ==
  ASSUME InTypes, RecvPayload
  PROVE  InTypes'
<1> DEFINE read == buf \o SubSeq(rx, 1, Available)
<1>1. Len(rx) \in Nat /\ Len(buf) \in Nat /\ len \in Nat
  BY LenProperties DEF InTypes
<1>2. Available \in Int /\ Available <= Len(rx)
  BY <1>1 DEF Available, Missing
<1>3. Available >= 0
  BY <1>1 DEF Available, Missing
<1>4. rx' \in Seq(Nat) /\ Len(rx') <= RxCap
  <2>1. rx' = SubSeq(rx, Available + 1, Len(rx))
    BY DEF RecvPayload
  <2>2. rx \in Seq(Nat) /\ Len(rx) <= RxCap /\ RxCap \in Nat
    BY SerialBounds DEF InTypes
  <2>3. PICK a : a = Available + 1
    OBVIOUS
  <2>4. a \in Nat /\ a >= 1
    BY <1>2, <1>3, <2>3
  <2>5. /\ SubSeq(rx, a, Len(rx)) \in Seq(Nat)
        /\ Len(SubSeq(rx, a, Len(rx))) = IF a <= Len(rx) THEN Len(rx) - a + 1 ELSE 0
    BY <1>1, <2>2, <2>4, PartAt
  <2> QED  BY <1>1, <2>1, <2>2, <2>3, <2>4, <2>5
<1>5. read \in Seq(Nat)
  BY <1>1, <1>2, <1>3, PartAt, ConcatAt DEF InTypes
<1>6. read \in Seq(Nat \cup {Garbage})
  BY <1>5, SeqMonotonic
<1> HIDE DEF read
<1>7. \/ Deliver(read)
      \/ buf' = read /\ stage' = "spinning" /\ UNCHANGED got
  BY DEF RecvPayload, read
<1>8. UNCHANGED <<id, value, len, wire, hostSent, due, broken>>
  BY DEF RecvPayload
<1>9. broken' \in BOOLEAN
  BY <1>8 DEF InTypes
<1>10. CASE Deliver(read)
  BY <1>4, <1>6, <1>8, <1>9, <1>10, DeliverTypes
<1>11. CASE buf' = read /\ stage' = "spinning" /\ UNCHANGED got
  BY <1>4, <1>5, <1>8, <1>11 DEF InTypes
<1> QED  BY <1>7, <1>10, <1>11

LEMMA RecvNoDataTypes ==
  ASSUME InTypes, RecvPayloadNoData
  PROVE  InTypes'
  BY DEF InTypes, RecvPayloadNoData

LEMMA RecvWakesTypes ==
  ASSUME InTypes, RecvPayloadWakes
  PROVE  InTypes'
<1> DEFINE fill == [i \in 1 .. Missing |-> Garbage]
           B == Nat \cup {Garbage}
<1>1. Missing \in Nat
  BY LenProperties DEF Missing, InTypes
<1>2. fill \in Seq(B)
  BY <1>1, IsASeq
<1>3. buf \in Seq(B)
  BY SeqMonotonic DEF InTypes
<1>4. buf \o fill \in Seq(B)
  BY <1>2, <1>3, ConcatAt
<1>5. Deliver(buf \o fill)
  BY DEF RecvPayloadWakes
<1> HIDE DEF fill
<1>6. UNCHANGED <<id, value, len, rx, wire, hostSent, due, broken>>
  BY DEF RecvPayloadWakes
<1>7. rx' \in Seq(Nat) /\ Len(rx') <= RxCap /\ broken' \in BOOLEAN
  BY <1>6 DEF InTypes
<1> QED  BY <1>4, <1>5, <1>6, <1>7, DeliverTypes

LEMMA HostTypes ==
  ASSUME InTypes, ByteArrives \/ \E m \in InMessage : HostWrites(m)
  PROVE  InTypes'
<1>1. CASE ByteArrives
  <2>1. Tail(wire) \in Seq(Nat) /\ Head(wire) \in Nat
    BY <1>1, TailAt DEF InTypes, ByteArrives
  <2>2. Append(rx, Head(wire)) \in Seq(Nat) /\ Len(Append(rx, Head(wire))) = Len(rx) + 1
        /\ Len(rx) \in Nat
    BY <2>1, AppendAt DEF InTypes
  <2>3. wire' = Tail(wire) /\ UNCHANGED <<stage, id, value, len, buf, got, hostSent, due>>
    BY <1>1 DEF ByteArrives
  <2>4. rx' \in Seq(Nat) /\ Len(rx') <= RxCap /\ broken' \in BOOLEAN
    <3>1. CASE HasRoom
      <4>1. rx' = Append(rx, Head(wire)) /\ broken' = broken
        BY <1>1, <3>1 DEF ByteArrives
      <4>2. Len(rx) + 1 <= RxCap
        BY <2>2, <3>1, SerialBounds DEF HasRoom
      <4> QED  BY <2>2, <4>1, <4>2 DEF InTypes
    <3>2. CASE ~HasRoom
      BY <1>1, <3>2 DEF InTypes, ByteArrives
    <3> QED  BY <3>1, <3>2
  <2> QED  BY <2>1, <2>3, <2>4 DEF InTypes
<1>2. ASSUME NEW m \in InMessage, HostWrites(m) PROVE InTypes'
  <2>1. Frame(m) \in Seq(Nat)
    BY FrameType, MessageAssumption
  <2>2. wire \o Frame(m) \in Seq(Nat)
    BY <2>1, ConcatAt DEF InTypes
  <2>3. Append(hostSent, m) \in Seq(InMessage) /\ Append(due, m) \in Seq(InMessage)
    BY AppendAt DEF InTypes
  <2>4. due' \in Seq(InMessage)
    BY <1>2, <2>3 DEF InTypes, HostWrites
  <2> QED  BY <1>2, <2>2, <2>3, <2>4 DEF InTypes, HostWrites
<1> QED  BY <1>1, <1>2

-----------------------------------------------------------------------------
(* The sending half.                                                       *)

LEMMA SendOut ==
  ASSUME OutTypes, OneWakeup, QueueIsRest, NEW m \in OutMessage, Send(m)
  PROVE  OutTypes' /\ OneWakeup' /\ QueueIsRest'
<1> DEFINE f == Frame(m)
           e == [bytes |-> f, at |-> Len(stream)]
<1>1. f \in Seq(Nat) /\ Len(f) \in Nat \ {0}
  BY FrameType, MessageAssumption
<1> HIDE DEF f
<1>2. /\ stream' = stream \o f /\ out' = Append(out, e) /\ ready' = ready + FirstReady
      /\ sent' = sent /\ taken' = taken /\ line' = line
  BY DEF Send, f
<1>3. /\ stream' \in Seq(Nat) /\ Len(stream') = Len(stream) + Len(f) /\ Len(stream) \in Nat
      /\ \A i \in 1 .. Len(stream) : stream'[i] = stream[i]
      /\ \A i \in 1 .. Len(f) : stream'[Len(stream) + i] = f[i]
  BY <1>1, <1>2, ConcatAt DEF OutTypes
<1>4. e \in OutEntry
  BY <1>1, <1>3 DEF OutEntry
<1>5. /\ out' \in Seq(OutEntry) /\ Len(out') = Len(out) + 1 /\ Len(out) \in Nat
      /\ \A i \in 1 .. Len(out) : out'[i] = out[i]
      /\ out'[Len(out) + 1] = e
  BY <1>2, <1>4, AppendAt DEF OutTypes
<1>6. out # <<>> <=> Len(out) >= 1
  BY <1>5, EmptySeq DEF OutTypes
<1>7. out' # <<>>
  BY <1>5
<1>8. OutTypes'
  BY <1>2, <1>3, <1>5 DEF OutTypes, FirstReady
<1>9. OneWakeup'
  BY <1>2, <1>7 DEF OneWakeup, FirstReady, OutTypes
<1>10. \A i \in 1 .. Len(out) : /\ out[i].at \in Nat /\ Len(out[i].bytes) \in Nat
  BY EntryAt
<1>11. ASSUME NEW i \in 1 .. Len(out')
       PROVE  /\ Len(out'[i].bytes) > 0 /\ out'[i].at + Len(out'[i].bytes) <= Len(stream')
              /\ \A j \in 1 .. Len(out'[i].bytes) :
                   out'[i].bytes[j] = stream'[out'[i].at + j]
              /\ i < Len(out') => out'[i + 1].at = out'[i].at + Len(out'[i].bytes)
              /\ i = Len(out') => Len(stream') = out'[i].at + Len(out'[i].bytes)
  <2>1. CASE i = Len(out) + 1
    <3>1. out'[i] = e /\ i = Len(out') /\ out'[i].bytes = f /\ out'[i].at = Len(stream)
      BY <2>1, <1>5
    <3> QED  BY <3>1, <1>1, <1>3
  <2>2. CASE i \in 1 .. Len(out)
    <3>1. /\ out'[i] = out[i] /\ out[i].at \in Nat /\ Len(out[i].bytes) \in Nat
          /\ i # Len(out')
      BY <2>2, <1>5, <1>10
    <3>2. /\ Len(out[i].bytes) > 0 /\ out[i].at + Len(out[i].bytes) <= Len(stream)
          /\ \A j \in 1 .. Len(out[i].bytes) : out[i].bytes[j] = stream[out[i].at + j]
          /\ i < Len(out) => out[i + 1].at = out[i].at + Len(out[i].bytes)
          /\ i = Len(out) => Len(stream) = out[i].at + Len(out[i].bytes)
      BY <2>2 DEF QueueIsRest
    <3>3. \A j \in 1 .. Len(out[i].bytes) : out[i].at + j \in 1 .. Len(stream)
      <4>1. \A a, b, c \in Nat : a + b <= c => \A j \in 1 .. b : a + j \in 1 .. c
        OBVIOUS
      <4> QED  BY <4>1, <3>1, <3>2, <1>3
    <3>4. i < Len(out) => out'[i + 1] = out[i + 1]
      BY <2>2, <1>5
    <3>5. i = Len(out) => out'[i + 1].at = Len(stream)
      BY <1>5
    <3>8. Len(out[i].bytes) > 0 /\ out'[i].at + Len(out'[i].bytes) <= Len(stream')
      <4>1. \A a, b, c, d \in Nat : a + b <= c => a + b <= c + d
        OBVIOUS
      <4>2. Len(stream') = Len(stream) + Len(f) /\ Len(stream) \in Nat /\ Len(f) \in Nat
        BY <1>1, <1>3
      <4> QED  BY <4>1, <4>2, <3>1, <3>2
    <3>9. i < Len(out') => i < Len(out) \/ i = Len(out)
      BY <2>2, <1>5
    <3>6. \A j \in 1 .. Len(out[i].bytes) : out[i].bytes[j] = stream'[out[i].at + j]
      BY <3>2, <3>3, <1>3
    <3>7. i < Len(out') => out'[i + 1].at = out[i].at + Len(out[i].bytes)
      BY <3>2, <3>4, <3>5, <3>9
    <3> QED  BY <3>1, <3>6, <3>7, <3>8
  <2> QED  BY <2>1, <2>2, <1>5
<1>12. Len(line') <= Len(stream') /\ \A j \in 1 .. Len(line') : line'[j] = stream'[j]
  <2>1. Len(line) \in Nat
    BY LenProperties DEF OutTypes
  <2> QED  BY <2>1, <1>1, <1>2, <1>3 DEF QueueIsRest
<1>13. IF out' = <<>> THEN sent' = 0 /\ Len(line') = Len(stream')
       ELSE /\ Len(line') = out'[1].at + sent' + taken' /\ sent' < Len(out'[1].bytes)
            /\ sent' + taken' <= Len(out'[1].bytes)
  <2>1. CASE out = <<>>
    <3>1. out'[1] = e /\ sent = 0 /\ taken = 0 /\ Len(line) = Len(stream)
      <4>1. Len(out) = 0
        BY <2>1
      <4>2. taken = 0
        BY <2>1 DEF OneWakeup, OutTypes
      <4> QED  BY <4>1, <4>2, <2>1, <1>5 DEF QueueIsRest
    <3> QED  BY <3>1, <1>1, <1>2, <1>3, <1>7
  <2>2. CASE out # <<>>
    <3>1. out'[1] = out[1]
      BY <2>2, <1>5, <1>6
    <3> QED  BY <3>1, <2>2, <1>2, <1>7 DEF QueueIsRest, Rest
  <2> QED  BY <2>1, <2>2
<1>14. QueueIsRest'
  BY <1>11, <1>12, <1>13 DEF QueueIsRest, Rest
<1> QED  BY <1>8, <1>9, <1>14

\* The first message of the queue, and the part of it that is to be sent.
LEMMA HeadOut ==
  ASSUME OutTypes, QueueIsRest, out # <<>>
  PROVE  /\ Head(out) = out[1] /\ out[1] \in OutEntry /\ Len(out) \in Nat \ {0}
         /\ out[1].bytes \in Seq(Nat) /\ out[1].at \in Nat /\ Len(out[1].bytes) \in Nat
         /\ sent \in Nat /\ taken \in Nat /\ Len(line) \in Nat /\ Len(stream) \in Nat
         /\ out[1].at + Len(out[1].bytes) <= Len(stream)
         /\ Len(line) = out[1].at + sent + taken
         /\ sent < Len(out[1].bytes) /\ sent + taken <= Len(out[1].bytes)
<1>1. Head(out) = out[1] /\ out[1] \in OutEntry /\ Len(out) \in Nat \ {0}
  BY TailAt DEF OutTypes
<1>2. out[1].bytes \in Seq(Nat) /\ out[1].at \in Nat
  BY <1>1 DEF OutEntry
<1>3. Len(out[1].bytes) \in Nat /\ Len(line) \in Nat /\ Len(stream) \in Nat
  BY <1>2, LenProperties DEF OutTypes
<1>4. 1 \in 1 .. Len(out)
  BY <1>1
<1> QED  BY <1>1, <1>2, <1>3, <1>4 DEF OutTypes, QueueIsRest, Rest

LEMMA SendToSerialOut ==
  ASSUME OutTypes, OneWakeup, QueueIsRest, SendToSerial
  PROVE  OutTypes' /\ OneWakeup' /\ QueueIsRest'
<1> DEFINE b == out[1].bytes
<1>1. out # <<>> /\ taken = 0 /\ ready > 0 /\ ready' = ready - 1
      /\ UNCHANGED <<out, sent, stream>>
  BY DEF SendToSerial
<1>h. /\ Head(out) = out[1] /\ out[1] \in OutEntry /\ Len(out) \in Nat \ {0}
      /\ b \in Seq(Nat) /\ out[1].at \in Nat /\ Len(b) \in Nat
      /\ sent \in Nat /\ taken \in Nat /\ Len(line) \in Nat /\ Len(stream) \in Nat
      /\ out[1].at + Len(b) <= Len(stream)
      /\ Len(line) = out[1].at + sent + taken
      /\ sent < Len(b) /\ sent + taken <= Len(b)
  BY <1>1, HeadOut
<1>s. \A j \in 1 .. Len(b) : b[j] = stream[out[1].at + j]
  <2>1. 1 \in 1 .. Len(out)
    BY <1>h
  <2> QED  BY <2>1 DEF QueueIsRest
<1>r. \A i \in 1 .. Len(out) :
        /\ Len(out[i].bytes) > 0 /\ out[i].at + Len(out[i].bytes) <= Len(stream)
        /\ \A j \in 1 .. Len(out[i].bytes) : out[i].bytes[j] = stream[out[i].at + j]
        /\ i < Len(out) => out[i + 1].at = out[i].at + Len(out[i].bytes)
        /\ i = Len(out) => Len(stream) = out[i].at + Len(out[i].bytes)
  BY DEF QueueIsRest
<1>2. PICK k \in 1 .. Len(b) - sent : taken' = k /\ line' = line \o FromSent(k)
  BY <1>h DEF SendToSerial
<1> HIDE DEF b
<1>3. /\ k \in Nat \ {0} /\ sent + k <= Len(b)
  <2>1. Len(b) \in Nat /\ sent \in Nat
    BY <1>h
  <2>2. \A l, t \in Nat : \A i \in 1 .. l - t : i \in Nat \ {0} /\ t + i <= l
    OBVIOUS
  <2> QED  BY <2>1, <2>2
<1>4. FromSent(k) = SubSeq(b, sent + 1, sent + k)
  BY <1>h DEF FromSent, b
<1>8. Len(line) = out[1].at + sent /\ \A j \in 1 .. Len(line) : line[j] = stream[j]
  BY <1>1, <1>h DEF QueueIsRest
<1>5. /\ line' \in Seq(Nat) /\ Len(line') = Len(line) + k
      /\ Len(line') <= Len(stream) /\ \A j \in 1 .. Len(line') : line'[j] = stream[j]
  <2>1. line \in Seq(Nat) /\ stream \in Seq(Nat)
    BY DEF OutTypes
  <2>2. line' = line \o SubSeq(b, sent + 1, sent + k)
    BY <1>2, <1>4
  <2>3. sent + k <= Len(b) /\ out[1].at + Len(b) <= Len(stream)
        /\ Len(line) = out[1].at + sent /\ k \in Nat \ {0}
        /\ b \in Seq(Nat) /\ sent \in Nat /\ out[1].at \in Nat
    BY <1>3, <1>8, <1>h
  <2>4. LiesAt(b, stream, out[1].at) /\ LiesAt(line, stream, 0)
    BY <1>8, <1>h, <1>s DEF LiesAt
  <2>5. Longer(line', line, b, sent, k)
    BY <2>1, <2>2, <2>3 DEF Longer
  <2>6. line' \in Seq(Nat) /\ Len(line') = Len(line) + k
    <3>1. LongerElements(line', line, b, sent, k)
      BY <2>5, LongerAt
    <3> QED  BY <3>1 DEF LongerElements
  <2>7. Len(line') <= Len(stream) /\ LiesAt(line', stream, 0)
    BY <2>1, <2>3, <2>4, <2>5, MoreOfIt
  <2> QED  BY <2>6, <2>7, LenProperties DEF LiesAt
<1>6. OutTypes'
  <2>1. taken' \in Nat
    BY <1>2, <1>3
  <2>2. line' \in Seq(Nat)
    BY <1>5
  <2>3. ready' \in Nat
    BY <1>1 DEF OutTypes
  <2> QED  BY <1>1, <2>1, <2>2, <2>3 DEF OutTypes
<1>7. OneWakeup'
  BY <1>1, <1>2, <1>3 DEF OneWakeup, OutTypes
<1>11. /\ Len(line') = out[1].at + sent + taken'
       /\ sent < Len(b) /\ sent + taken' <= Len(b)
  BY <1>1, <1>2, <1>3, <1>5, <1>8, <1>h
<1>12. QueueIsRest'
  BY <1>1, <1>r, <1>5, <1>11 DEF QueueIsRest, Rest, b
<1> QED  BY <1>6, <1>7, <1>12

LEMMA SendReturnsOut ==
  ASSUME OutTypes, OneWakeup, QueueIsRest, SendReturns
  PROVE  OutTypes' /\ OneWakeup' /\ QueueIsRest'
<1>1. taken > 0 /\ taken' = 0 /\ ready' = ready + NextReady
      /\ UNCHANGED <<line, stream>>
  BY DEF SendReturns
<1>2. out # <<>> /\ ready = 0
  BY <1>1 DEF OneWakeup, OutTypes
<1>h. /\ Head(out) = out[1] /\ Len(out) \in Nat \ {0}
      /\ out[1].at \in Nat /\ Len(out[1].bytes) \in Nat
      /\ sent \in Nat /\ taken \in Nat /\ Len(line) \in Nat
      /\ Len(line) = out[1].at + sent + taken /\ sent + taken <= Len(out[1].bytes)
  BY <1>2, HeadOut
<1>3. Complete <=> sent + taken = Len(out[1].bytes)
  BY <1>h DEF Complete
<1>4. CASE ~Complete
  <2>1. out' = out /\ sent' = sent + taken /\ ready' = 1
    BY <1>1, <1>2, <1>4 DEF SendReturns, NextReady, SentAfter
  <2>2. sent' < Len(out[1].bytes) /\ sent' \in Nat
    BY <1>h, <1>3, <1>4, <2>1
  <2>3. OutTypes'
    BY <1>1, <2>1, <2>2 DEF OutTypes
  <2>4. OneWakeup'
    BY <1>1, <1>2, <2>1 DEF OneWakeup
  <2>5. Len(line) = out[1].at + sent' + 0 /\ sent' + 0 <= Len(out[1].bytes)
    BY <1>h, <2>1, <2>2
  <2>6. QueueIsRest'
    BY <1>1, <1>2, <2>1, <2>2, <2>5 DEF QueueIsRest, Rest
  <2> QED  BY <2>3, <2>4, <2>6
<1>5. CASE Complete
  <2>1. out' = Tail(out) /\ sent' = 0
    BY <1>5 DEF SendReturns, SentAfter
  <2>2. /\ out' \in Seq(OutEntry) /\ Len(out') = Len(out) - 1 /\ Len(out) \in Nat \ {0}
        /\ \A i \in 1 .. Len(out) - 1 : out'[i] = out[i + 1]
    BY <1>2, <2>1, TailAt DEF OutTypes
  <2>3. out' = <<>> <=> Len(out) = 1
    BY <2>2, EmptySeq
  <2>4. ready' = IF out' = <<>> THEN 0 ELSE 1
    BY <1>1, <1>2, <1>5, <2>3 DEF NextReady
  <2>5. OutTypes'
    BY <1>1, <2>1, <2>2, <2>4 DEF OutTypes
  <2>6. OneWakeup'
    BY <1>1, <2>4 DEF OneWakeup
  <2>7. ASSUME NEW i \in 1 .. Len(out')
        PROVE  /\ Len(out'[i].bytes) > 0 /\ out'[i].at + Len(out'[i].bytes) <= Len(stream)
               /\ \A j \in 1 .. Len(out'[i].bytes) : out'[i].bytes[j] = stream[out'[i].at + j]
               /\ i < Len(out') => out'[i + 1].at = out'[i].at + Len(out'[i].bytes)
               /\ i = Len(out') => Len(stream) = out'[i].at + Len(out'[i].bytes)
    <3>1. i + 1 \in 1 .. Len(out) /\ i \in 1 .. Len(out) - 1
      BY <2>2
    <3>2. out'[i] = out[i + 1] /\ (i < Len(out') => out'[i + 1] = out[(i + 1) + 1])
      BY <3>1, <2>2
    <3>3. (i < Len(out') <=> i + 1 < Len(out)) /\ (i = Len(out') <=> i + 1 = Len(out))
      BY <3>1, <2>2
    <3>4. \A n \in 1 .. Len(out) :
            /\ Len(out[n].bytes) > 0 /\ out[n].at + Len(out[n].bytes) <= Len(stream)
            /\ \A j \in 1 .. Len(out[n].bytes) : out[n].bytes[j] = stream[out[n].at + j]
            /\ n < Len(out) => out[n + 1].at = out[n].at + Len(out[n].bytes)
            /\ n = Len(out) => Len(stream) = out[n].at + Len(out[n].bytes)
      BY DEF QueueIsRest
    <3> HIDE DEF QueueIsRest
    <3> QED  BY <3>1, <3>2, <3>3, <3>4
  <2>8. Len(line) = out[1].at + Len(out[1].bytes)
    BY <1>h, <1>3, <1>5
  <2>9. 1 \in 1 .. Len(out)
    BY <2>2
  <2>10. IF out' = <<>> THEN sent' = 0 /\ Len(line) = Len(stream)
         ELSE /\ Len(line) = out'[1].at + sent' + taken' /\ sent' < Len(out'[1].bytes)
              /\ sent' + taken' <= Len(out'[1].bytes)
    <3>1. CASE Len(out) = 1
      <4>1. Len(stream) = out[1].at + Len(out[1].bytes)
        BY <3>1, <2>9 DEF QueueIsRest
      <4> QED  BY <4>1, <3>1, <2>1, <2>3, <2>8
    <3>2. CASE Len(out) # 1
      <4>1. 1 \in 1 .. Len(out') /\ out'[1] = out[2]
        BY <3>2, <2>2
      <4>2. out[2].at = Len(line)
        <5>1. 1 < Len(out) /\ 1 + 1 = 2
          BY <3>2, <2>2
        <5>2. 1 < Len(out) => out[1 + 1].at = out[1].at + Len(out[1].bytes)
          BY <2>9 DEF QueueIsRest
        <5> QED  BY <5>1, <5>2, <2>8
      <4>3. Len(out'[1].bytes) > 0
        BY <4>1, <2>7
      <4>4. Len(out'[1].bytes) \in Nat /\ out'[1].at \in Nat
        <5>1. 2 \in 1 .. Len(out)
          BY <3>2, <2>2
        <5> QED  BY <4>1, <5>1, EntryAt
      <4> QED  BY <4>1, <4>2, <4>3, <4>4, <3>2, <2>1, <2>3, <1>1
    <3> QED  BY <3>1, <3>2
  <2>11. QueueIsRest'
    BY <1>1, <2>7, <2>10 DEF QueueIsRest, Rest
  <2> QED  BY <2>5, <2>6, <2>11
<1> QED  BY <1>4, <1>5

-----------------------------------------------------------------------------
(* The invariant.                                                          *)

LEMMA UsedKept ==
  ASSUME UsedType, [Next]_vars
  PROVE  UsedType'
<1> USE DEF UsedType
<1>1. CASE UNCHANGED vars
  BY <1>1 DEF vars
<1>2. ASSUME NEW m \in OutMessage, Send(m) PROVE UsedType'
  BY <1>2 DEF Send
<1>3. CASE SendToSerialInUse
  BY <1>3 DEF SendToSerialInUse
<1>4. CASE RecvPayloadNoData
  BY <1>4 DEF RecvPayloadNoData
<1>5. CASE SendToSerial \/ SendReturns \/ ByteArrives \/ RecvStep
  BY <1>5 DEF SendToSerial, SendReturns, ByteArrives, RecvStep, RecvFirstByte,
              RecvSecondByte, RecvLength, RecvPayload, RecvPayloadWakes
<1>6. ASSUME NEW m \in InMessage, HostWrites(m) PROVE UsedType'
  BY <1>6 DEF HostWrites
<1> QED  BY <1>1, <1>2, <1>3, <1>4, <1>5, <1>6 DEF Next, SendStep

LEMMA NextIInv ==
  ASSUME IInv, [Next]_vars
  PROVE  IInv'
<1>1. OutTypes /\ InTypes /\ UsedType /\ OneWakeup /\ QueueIsRest
  BY TypeParts DEF IInv
<1>2. UsedType'
  BY <1>1, UsedKept
<1>3. SUFFICES OutTypes' /\ InTypes' /\ OneWakeup' /\ QueueIsRest'
  <2>1. OutTypes' /\ InTypes' /\ UsedType' => TypeOK'
    BY DEF TypeOK, OutTypes, InTypes, UsedType
  <2> QED  BY <1>2, <1>3, <2>1 DEF IInv
<1>4. ASSUME NEW m \in OutMessage, Send(m)
      PROVE  OutTypes' /\ InTypes' /\ OneWakeup' /\ QueueIsRest'
  <2>1. UNCHANGED inVars
    BY <1>4 DEF Send
  <2> QED  BY <1>1, <1>4, <2>1, SendOut, InTypesKept
<1>5. CASE SendToSerial
  <2>1. UNCHANGED inVars
    BY <1>5 DEF SendToSerial
  <2> QED  BY <1>1, <1>5, <2>1, SendToSerialOut, InTypesKept
<1>6. CASE SendToSerialInUse
  BY <1>1, <1>6, OutKept, InTypesKept DEF SendToSerialInUse
<1>7. CASE SendReturns
  <2>1. UNCHANGED inVars
    BY <1>7 DEF SendReturns
  <2> QED  BY <1>1, <1>7, <2>1, SendReturnsOut, InTypesKept
<1>8. CASE \E m \in InMessage : HostWrites(m)
  <2>1. UNCHANGED outVars
    BY <1>8 DEF HostWrites
  <2> QED  BY <1>1, <1>8, <2>1, OutKept, HostTypes
<1>9. CASE ByteArrives
  <2>1. UNCHANGED outVars
    BY <1>9 DEF ByteArrives
  <2> QED  BY <1>1, <1>9, <2>1, OutKept, HostTypes
<1>10. CASE RecvFirstByte \/ RecvSecondByte \/ RecvLength
  <2>1. UNCHANGED outVars
    BY <1>10 DEF RecvFirstByte, RecvSecondByte, RecvLength
  <2> QED  BY <1>1, <1>10, <2>1, OutKept, RecvFieldTypes
<1>11. CASE RecvPayload
  <2>1. UNCHANGED outVars
    BY <1>11 DEF RecvPayload
  <2> QED  BY <1>1, <1>11, <2>1, OutKept, RecvPayloadTypes
<1>12. CASE RecvPayloadNoData
  <2>1. UNCHANGED outVars
    BY <1>12 DEF RecvPayloadNoData
  <2> QED  BY <1>1, <1>12, <2>1, OutKept, RecvNoDataTypes
<1>13. CASE RecvPayloadWakes
  <2>1. UNCHANGED outVars
    BY <1>13 DEF RecvPayloadWakes
  <2> QED  BY <1>1, <1>13, <2>1, OutKept, RecvWakesTypes
<1>14. CASE UNCHANGED vars
  BY <1>1, <1>14, OutKept, InTypesKept DEF vars
<1> QED  BY <1>4, <1>5, <1>6, <1>7, <1>8, <1>9, <1>10, <1>11, <1>12, <1>13, <1>14
         DEF Next, SendStep, RecvStep

\* The invariant of every state that can be reached.
THEOREM Invariance == Spec => []IInv
  BY InitIInv, NextIInv, PTL DEF Spec

\* The variables keep their types, the receive buffer its size (ByteArrives).
THEOREM TypeCorrect == Spec => []TypeOK
<1>1. IInv => TypeOK
  BY DEF IInv
<1> QED  BY <1>1, Invariance, PTL

\* While a message waits, exactly one event or handler is at it (send,
\* send_to_serial): no message sleeps in the queue and none is sent twice.
THEOREM WakeupOnce == Spec => []OneWakeup
<1>1. IInv => OneWakeup
  BY DEF IInv
<1> QED  BY <1>1, Invariance, PTL

\* What is in the queue is what is missing on the line (out, sent).
THEOREM QueueKept == Spec => []QueueIsRest
<1>1. IInv => QueueIsRest
  BY DEF IInv
<1> QED  BY <1>1, Invariance, PTL

-----------------------------------------------------------------------------
(* SerialCom implements ByteStream.                                        *)

\* A line that agrees with the stream as far as it goes is a part of it.
LEMMA LineIsPart ==
  ASSUME NEW l \in Seq(Nat), NEW t \in Seq(Nat), Len(l) <= Len(t),
         \A j \in 1 .. Len(l) : l[j] = t[j]
  PROVE  l = SubSeq(t, 1, Len(l))
<1>1. Len(l) \in Nat
  BY LenProperties
<1>2. PICK p : p = SubSeq(t, 1, Len(l))
  OBVIOUS
<1>3. p \in Seq(Nat) /\ Len(p) = Len(l) /\ \A i \in 1 .. Len(p) : p[i] = t[1 + i - 1]
  BY <1>1, <1>2, PartAt
<1>4. \A i \in 1 .. Len(l) : p[i] = l[i]
  BY <1>1, <1>3
<1> QED  BY <1>2, <1>3, <1>4, SeqEqual

LEMMA NextStream ==
  ASSUME IInv, IInv', [Next]_vars
  PROVE  [Stream!Next]_<<stream, line>>
<1>1. ASSUME NEW m \in OutMessage, Send(m) PROVE Stream!Next
  BY <1>1 DEF Send, Stream!Next, Stream!Write
<1>2. CASE SendToSerial
  <2>1. out' = out /\ out # <<>> /\ taken = 0 /\ taken' > 0 /\ taken' \in Nat
        /\ UNCHANGED <<sent, stream>>
    BY <1>2 DEF SendToSerial, IInv, TypeOK
  <2>2. OutTypes /\ OutTypes' /\ QueueIsRest /\ QueueIsRest'
    BY TypeParts DEF IInv, OutTypes, TypeOK
  <2>3. Len(line) = out[1].at + sent + taken /\ Len(line) \in Nat
        /\ out[1].at \in Nat /\ sent \in Nat /\ taken \in Nat
    BY <2>1, <2>2, HeadOut
  <2>4. Len(line') = out[1].at + sent + taken' /\ Len(line') <= Len(stream)
        /\ \A j \in 1 .. Len(line') : line'[j] = stream[j]
    BY <2>1, <2>2 DEF QueueIsRest, Rest
  <2>5. line' \in Seq(Nat) /\ stream \in Seq(Nat)
    BY <2>2 DEF OutTypes
  <2>6. line' = SubSeq(stream, 1, Len(line'))
    BY <2>4, <2>5, LineIsPart
  <2>7. Len(line') \in Len(line) + 1 .. Len(stream)
    <3>1. Len(stream) \in Nat
      BY <2>5, LenProperties
    <3>2. \A x, y \in Nat : \A t, u \in Nat : t = 0 /\ u > 0 => x + y + u \in x + y + t + 1 .. x + y + u
      OBVIOUS
    <3>3. Len(line') \in Nat /\ Len(line') \in Len(line) + 1 .. Len(line')
      BY <2>1, <2>3, <2>4, <3>2
    <3> QED  BY <2>3, <2>4, <3>1, <3>3
  <2> QED  BY <2>1, <2>6, <2>7 DEF Stream!Next, Stream!Transmit
<1>3. CASE SendToSerialInUse
  BY <1>3 DEF SendToSerialInUse, outVars
<1>4. CASE SendReturns
  BY <1>4 DEF SendReturns
<1>5. CASE ByteArrives \/ RecvStep \/ RecvPayloadNoData \/ \E m \in InMessage : HostWrites(m)
  BY <1>5 DEF ByteArrives, RecvStep, RecvFirstByte, RecvSecondByte, RecvLength, RecvPayload,
              RecvPayloadWakes, RecvPayloadNoData, HostWrites, outVars
<1>6. CASE UNCHANGED vars
  BY <1>6 DEF vars, outVars
<1> QED  BY <1>1, <1>2, <1>3, <1>4, <1>5, <1>6 DEF Next, SendStep

\* However the driver takes a message apart and whatever is queued meanwhile,
\* the line carries the messages whole, in order, without a gap (send,
\* send_to_serial).
THEOREM StreamImplemented == Spec => SendsStream
<1>1. Init => Stream!Init
  BY DEF Init, Stream!Init
<1> QED  BY <1>1, NextStream, Invariance, PTL DEF Spec, SendsStream, Stream!Spec

-----------------------------------------------------------------------------
(* What the listeners get.                                                 *)

\* The bytes s has after its first at are the frame of m.
LiesIn(m, s, at) ==
  /\ s[at + 1] = m.id /\ s[at + 2] = m.value /\ s[at + 3] = Len(m.payload)
  /\ \A j \in 1 .. Len(m.payload) : s[at + 3 + j] = m.payload[j]

\* s is all the host wrote: its message i begins after at[i] bytes, when due had
\* h[i] messages.
Laid(s, at, h) ==
  /\ s \in [Nat -> Nat] /\ at \in [Nat -> Nat] /\ h \in [Nat -> Nat]
  /\ h[Len(hostSent) + 1] = Len(due)
  /\ \A i \in 1 .. Len(hostSent) :
       /\ at[i + 1] = at[i] + 3 + Len(hostSent[i].payload)
       /\ at[i + 1] <= at[Len(hostSent) + 1]
       /\ LiesIn(hostSent[i], s, at[i])
       /\ HasListener(hostSent[i]) =>
            h[i + 1] = h[i] + 1 /\ h[i] < Len(due) /\ due[h[i] + 1] = hostSent[i]
       /\ ~HasListener(hostSent[i]) => h[i + 1] = h[i]

\* The handlers took p of the end bytes, the rest is on its way.
Left(s, end, p) ==
  /\ p \in Nat /\ p + Len(rx) + Len(wire) = end
  /\ \A j \in 1 .. Len(rx) : rx[j] = s[p + j]
  /\ \A j \in 1 .. Len(wire) : wire[j] = s[p + Len(rx) + j]

\* They are at message n, where the stage says, and have kept what they read.
Reading(at, n, p) ==
  /\ n \in 1 .. Len(hostSent) + 1
  /\ stage # "first" => n <= Len(hostSent) /\ id = hostSent[n].id
  /\ stage # "asleep" /\ (stage \notin {"payload", "spinning"} => buf = <<>>)
  /\ stage = "first" => p = at[n]
  /\ stage = "second" => p = at[n] + 1
  /\ stage \in {"length", "payload", "spinning"} => value = hostSent[n].value
  /\ stage = "length" => p = at[n] + 2
  /\ stage \in {"payload", "spinning"} =>
       /\ len = Len(hostSent[n].payload) /\ Len(buf) <= len /\ p = at[n] + 3 + Len(buf)
       /\ \A j \in 1 .. Len(buf) : buf[j] = hostSent[n].payload[j]

\* The listeners were called with what was due of the messages before n.
Served(h, n) ==
  /\ Len(got) = h[n] /\ h[n] <= Len(due)
  /\ \A j \in 1 .. Len(got) : got[j] = due[j]

Parses(s, at, h, n, p) ==
  /\ Laid(s, at, h) /\ Left(s, at[Len(hostSent) + 1], p)
  /\ Reading(at, n, p) /\ Served(h, n)

\* Until a byte is lost the chain of handlers keeps in step with the frames: it
\* is the part of ReceivesWhole that is inductive.
InStep == ~broken => \E s, at, h, n, p : Parses(s, at, h, n, p)

\* A frame is the header and the payload.
LEMMA FrameAt ==
  ASSUME NEW m \in Message
  PROVE  /\ Frame(m) \in Seq(Nat) /\ Len(Frame(m)) = 3 + Len(m.payload)
         /\ Len(m.payload) \in Nat /\ m.payload \in Seq(Nat)
         /\ Frame(m)[1] = m.id /\ Frame(m)[2] = m.value /\ Frame(m)[3] = Len(m.payload)
         /\ \A j \in 1 .. Len(m.payload) : Frame(m)[3 + j] = m.payload[j]
<1>1. m.payload \in Seq(Nat) /\ Len(m.payload) \in Nat /\ m.id \in Nat /\ m.value \in Nat
  BY LenProperties DEF Message
<1>2. PICK q : q = <<m.id, m.value, Len(m.payload)>>
  OBVIOUS
<1>3. q \in Seq(Nat) /\ Len(q) = 3 /\ q[1] = m.id /\ q[2] = m.value /\ q[3] = Len(m.payload)
  BY <1>1, <1>2
<1>4. /\ q \o m.payload \in Seq(Nat) /\ Len(q \o m.payload) = Len(q) + Len(m.payload)
      /\ \A i \in 1 .. Len(q) : (q \o m.payload)[i] = q[i]
      /\ \A i \in 1 .. Len(m.payload) : (q \o m.payload)[Len(q) + i] = m.payload[i]
  BY <1>1, <1>3, ConcatOfNat, Zenon
<1>5. PICK f : f = q \o m.payload
  OBVIOUS
<1>6. f = Frame(m)
  BY <1>2, <1>5 DEF Frame
<1>7. 1 \in 1 .. 3 /\ 2 \in 1 .. 3 /\ 3 \in 1 .. 3
  OBVIOUS
<1>8. f \in Seq(Nat) /\ Len(f) = 3 + Len(m.payload)
  BY <1>3, <1>4, <1>5
<1>9. f[1] = m.id /\ f[2] = m.value /\ f[3] = Len(m.payload)
  BY <1>3, <1>4, <1>5, <1>7
<1>10. \A j \in 1 .. Len(m.payload) : f[3 + j] = m.payload[j]
  BY <1>3, <1>4, <1>5
<1> QED  BY <1>1, <1>6, <1>8, <1>9, <1>10

\* Each message of the host is one.
LEMMA HostSentAt ==
  ASSUME InTypes
  PROVE  /\ Len(hostSent) \in Nat /\ Len(due) \in Nat /\ Len(rx) \in Nat /\ Len(wire) \in Nat
         /\ Len(got) \in Nat /\ Len(buf) \in Nat
         /\ \A i \in 1 .. Len(hostSent) :
              /\ hostSent[i] \in Message /\ hostSent[i].payload \in Seq(Nat)
              /\ Len(hostSent[i].payload) \in Nat
<1>1. /\ Len(hostSent) \in Nat /\ Len(due) \in Nat /\ Len(rx) \in Nat /\ Len(wire) \in Nat
      /\ Len(got) \in Nat /\ Len(buf) \in Nat
  BY LenProperties DEF InTypes
<1>2. ASSUME NEW i \in 1 .. Len(hostSent) PROVE hostSent[i] \in Message
  <2>1. hostSent[i] \in InMessage
    BY ElementOfSeq DEF InTypes
  <2> QED  BY <2>1, MessageAssumption
<1> QED  BY <1>1, <1>2, FrameAt

LEMMA InitInStep == ASSUME Init PROVE InStep
<1> DEFINE z == [x \in Nat |-> 0]
<1>1. Parses(z, z, z, 1, 0)
  <2>1. Len(hostSent) = 0 /\ Len(due) = 0 /\ Len(rx) = 0 /\ Len(wire) = 0 /\ Len(got) = 0
    BY DEF Init
  <2>2. z \in [Nat -> Nat] /\ z[1] = 0
    OBVIOUS
  <2> HIDE DEF z
  <2>3. Laid(z, z, z)
    BY <2>1, <2>2 DEF Laid
  <2>4. Left(z, z[Len(hostSent) + 1], 0)
    BY <2>1, <2>2 DEF Left
  <2>5. Reading(z, 1, 0) /\ Served(z, 1)
    BY <2>1, <2>2 DEF Reading, Served, Init
  <2> QED  BY <2>3, <2>4, <2>5 DEF Parses
<1> QED  BY <1>1 DEF InStep

\* A step of the sending half leaves all of it alone.
LEMMA InStepKept == ASSUME InStep, UNCHANGED inVars PROVE InStep'
<1>1. UNCHANGED <<stage, id, value, len, buf, rx, wire, got, hostSent, due, broken>>
  BY DEF inVars
<1> SUFFICES ASSUME ~broken' PROVE \E s, at, h, n, p : Parses(s, at, h, n, p)'
  BY DEF InStep
<1>2. PICK s, at, h, n, p : Parses(s, at, h, n, p)
  BY <1>1 DEF InStep
<1>3. Laid(s, at, h)' /\ Served(h, n)'
  BY <1>1, <1>2 DEF Parses, Laid, Served
<1>4. Left(s, at[Len(hostSent) + 1], p)'
  BY <1>1, <1>2 DEF Parses, Left
<1>5. Reading(at, n, p)'
  BY <1>1, <1>2 DEF Parses, Reading
<1> QED  BY <1>3, <1>4, <1>5 DEF Parses

\* The handlers go on by k bytes, and rx loses them.
LEMMA LeftAfter ==
  ASSUME InTypes, NEW s, NEW end, NEW p, NEW k \in 0 .. Len(rx), Left(s, end, p), wire' = wire,
         Len(rx') = Len(rx) - k, \A j \in 1 .. Len(rx') : rx'[j] = rx[k + j]
  PROVE  Left(s, end, p + k)'
<1>1. Len(rx) \in Nat /\ Len(wire) \in Nat /\ p \in Nat /\ k \in Nat /\ k <= Len(rx)
  BY HostSentAt DEF Left
<1>2. p + k \in Nat /\ (p + k) + Len(rx') + Len(wire') = end
  <2>1. p + Len(rx) + Len(wire) = end
    BY DEF Left
  <2> QED  BY <1>1, <2>1
<1>3. ASSUME NEW j \in 1 .. Len(rx') PROVE rx'[j] = s[(p + k) + j]
  <2>1. k + j \in 1 .. Len(rx) /\ p + (k + j) = (p + k) + j
    BY <1>1
  <2>2. rx[k + j] = s[p + (k + j)]
    BY <2>1 DEF Left
  <2> QED  BY <2>1, <2>2
<1>4. ASSUME NEW j \in 1 .. Len(wire') PROVE wire'[j] = s[(p + k) + Len(rx') + j]
  <2>1. wire[j] = s[p + Len(rx) + j]
    BY DEF Left
  <2>2. (p + k) + Len(rx') + j = p + Len(rx) + j
    BY <1>1
  <2> QED  BY <2>1, <2>2
<1> QED  BY <1>2, <1>3, <1>4 DEF Left

\* With a byte in rx a message is not over, and the byte is the next of it.
LEMMA ByteOfMessage ==
  ASSUME InTypes, NEW s, NEW at, NEW h, NEW n, NEW p, Parses(s, at, h, n, p), rx # <<>>
  PROVE  /\ n \in 1 .. Len(hostSent) /\ rx[1] = s[p + 1] /\ p \in Nat
         /\ at[n] \in Nat /\ hostSent[n] \in Message /\ LiesIn(hostSent[n], s, at[n])
<1>1. /\ Len(hostSent) \in Nat /\ Len(rx) \in Nat /\ Len(wire) \in Nat
      /\ p \in Nat /\ n \in 1 .. Len(hostSent) + 1
  BY HostSentAt DEF Parses, Left, Reading
<1>2. Len(rx) > 0
  BY <1>1, EmptySeq DEF InTypes
<1>3. n \in 1 .. Len(hostSent)
  <2>1. CASE stage = "first"
    <3>1. p = at[n] /\ p + Len(rx) + Len(wire) = at[Len(hostSent) + 1]
      BY <2>1 DEF Parses, Reading, Left
    <3>2. n # Len(hostSent) + 1
      BY <1>1, <1>2, <3>1
    <3> QED  BY <1>1, <3>2
  <2>2. CASE stage # "first"
    BY <1>1, <2>2 DEF Parses, Reading
  <2> QED  BY <2>1, <2>2
<1>4. rx[1] = s[p + 1]
  <2>1. 1 \in 1 .. Len(rx)
    BY <1>1, <1>2
  <2> QED  BY <2>1 DEF Parses, Left
<1>5. at[n] \in Nat /\ LiesIn(hostSent[n], s, at[n])
  BY <1>3 DEF Parses, Laid
<1> QED  BY <1>1, <1>3, <1>4, <1>5, HostSentAt

\* A handler that reads one field.
LEMMA FieldInStep ==
  ASSUME InTypes, InStep, RecvFirstByte \/ RecvSecondByte \/ RecvLength
  PROVE  InStep'
<1> SUFFICES ASSUME ~broken' PROVE \E s, at, h, n, p : Parses(s, at, h, n, p)'
  BY DEF InStep
<1>0. UNCHANGED <<hostSent, due, got, wire, buf, broken>> /\ rx # <<>> /\ rx' = Tail(rx)
  BY DEF RecvFirstByte, RecvSecondByte, RecvLength
<1>1. PICK s, at, h, n, p : Parses(s, at, h, n, p)
  BY <1>0 DEF InStep
<1>2. /\ n \in 1 .. Len(hostSent) /\ rx[1] = s[p + 1] /\ p \in Nat
      /\ at[n] \in Nat /\ hostSent[n] \in Message /\ LiesIn(hostSent[n], s, at[n])
  BY <1>0, <1>1, ByteOfMessage
<1>3. Head(rx) = rx[1] /\ Len(rx') = Len(rx) - 1 /\ Len(rx) \in Nat \ {0}
      /\ \A j \in 1 .. Len(rx) - 1 : rx'[j] = rx[j + 1]
  BY <1>0, TailAt DEF InTypes
<1>4. Left(s, at[Len(hostSent) + 1], p + 1)'
  <2>1. Left(s, at[Len(hostSent) + 1], p)
    BY <1>1 DEF Parses
  <2>2. PICK e : e = at[Len(hostSent) + 1]
    OBVIOUS
  <2>3. 1 \in 0 .. Len(rx) /\ \A j \in 1 .. Len(rx') : rx'[j] = rx[1 + j]
    BY <1>3
  <2>4. Left(s, e, p + 1)'
    BY <1>0, <1>3, <2>1, <2>2, <2>3, LeftAfter
  <2>5. (at[Len(hostSent) + 1])' = e
    BY <1>0, <2>2
  <2> QED  BY <2>4, <2>5
<1>5. Laid(s, at, h)' /\ Served(h, n)'
  BY <1>0, <1>1 DEF Parses, Laid, Served
<1>6. Reading(at, n, p + 1)'
  <2>0. n \in 1 .. Len(hostSent') + 1 /\ n <= Len(hostSent') /\ hostSent'[n] = hostSent[n]
    BY <1>0, <1>2, HostSentAt
  <2>1. CASE RecvFirstByte
    <3>1. stage = "first" /\ stage' = "second" /\ id' = s[p + 1] /\ p = at[n] /\ buf = <<>>
      BY <1>1, <1>2, <1>3, <2>1 DEF RecvFirstByte, Parses, Reading
    <3>2. id' = hostSent[n].id
      BY <1>2, <3>1 DEF LiesIn
    <3> QED  BY <1>0, <2>0, <3>1, <3>2 DEF Reading
  <2>2. CASE RecvSecondByte
    <3>1. stage = "second" /\ stage' = "length" /\ value' = s[p + 1] /\ p = at[n] + 1
          /\ buf = <<>> /\ id' = id /\ id = hostSent[n].id
      BY <1>1, <1>2, <1>3, <2>2 DEF RecvSecondByte, Parses, Reading
    <3>2. p + 1 = at[n] + 2
      BY <1>2, <3>1
    <3>3. value' = hostSent[n].value
      BY <1>2, <3>1, <3>2 DEF LiesIn
    <3> QED  BY <1>0, <2>0, <3>1, <3>2, <3>3 DEF Reading
  <2>3. CASE RecvLength
    <3>1. stage = "length" /\ stage' = "payload" /\ len' = s[p + 1] /\ p = at[n] + 2
          /\ buf = <<>> /\ id' = id /\ id = hostSent[n].id
          /\ value' = value /\ value = hostSent[n].value
      BY <1>1, <1>2, <1>3, <2>3 DEF RecvLength, Parses, Reading
    <3>2. p + 1 = at[n] + 3
      BY <1>2, <3>1
    <3>3. len' = Len(hostSent[n].payload)
      BY <1>2, <3>1, <3>2 DEF LiesIn
    <3>4. Len(buf') = 0 /\ Len(hostSent[n].payload) \in Nat /\ at[n] + 3 + 0 = at[n] + 3
      <4>1. Len(buf) = 0 /\ buf' = buf
        BY <1>0, <3>1
      <4>2. Len(hostSent[n].payload) \in Nat
        BY <1>2, HostSentAt
      <4> QED  BY <1>2, <4>1, <4>2
    <3> QED  BY <1>0, <2>0, <3>1, <3>2, <3>3, <3>4 DEF Reading
  <2> QED  BY <2>1, <2>2, <2>3
<1> QED  BY <1>4, <1>5, <1>6 DEF Parses

LEMMA ArrivesInStep == ASSUME InTypes, InStep, ByteArrives PROVE InStep'
<1> SUFFICES ASSUME ~broken' PROVE \E s, at, h, n, p : Parses(s, at, h, n, p)'
  BY DEF InStep
<1>1. /\ UNCHANGED <<stage, id, value, len, buf, got, hostSent, due>> /\ wire # <<>>
      /\ wire' = Tail(wire) /\ rx' = Append(rx, Head(wire)) /\ broken' = broken
  BY DEF ByteArrives
<1>2. PICK s, at, h, n, p : Parses(s, at, h, n, p)
  BY <1>1 DEF InStep
<1>3. Laid(s, at, h)' /\ Served(h, n)' /\ Reading(at, n, p)'
  BY <1>1, <1>2 DEF Parses, Laid, Served, Reading
<1>4. /\ Len(wire') = Len(wire) - 1 /\ Len(wire) \in Nat \ {0} /\ Head(wire) = wire[1]
      /\ Head(wire) \in Nat /\ \A i \in 1 .. Len(wire) - 1 : wire'[i] = wire[i + 1]
  BY <1>1, TailAt DEF InTypes
<1>5. /\ Len(rx') = Len(rx) + 1 /\ Len(rx) \in Nat
      /\ \A i \in 1 .. Len(rx) : rx'[i] = rx[i]
      /\ rx'[Len(rx) + 1] = wire[1]
  BY <1>1, <1>4, AppendAt DEF InTypes
<1>6. Left(s, at[Len(hostSent) + 1], p)'
  <2>1. /\ p \in Nat /\ p + Len(rx) + Len(wire) = at[Len(hostSent) + 1]
        /\ \A j \in 1 .. Len(rx) : rx[j] = s[p + j]
        /\ \A j \in 1 .. Len(wire) : wire[j] = s[p + Len(rx) + j]
    BY <1>2 DEF Parses, Left
  <2>2. p + Len(rx') + Len(wire') = (at[Len(hostSent) + 1])'
    <3>1. p + Len(rx') + Len(wire') = at[Len(hostSent) + 1]
      BY <1>4, <1>5, <2>1
    <3> QED  BY <1>1, <3>1
  <2>3. ASSUME NEW j \in 1 .. Len(rx') PROVE rx'[j] = s[p + j]
    <3>1. CASE j \in 1 .. Len(rx)
      BY <1>5, <2>1, <3>1
    <3>2. CASE j \notin 1 .. Len(rx)
      <4>0. Len(wire) \in Nat \ {0} /\ Len(rx) \in Nat /\ Len(rx') = Len(rx) + 1 /\ p \in Nat
        BY <1>4, <1>5, <2>1
      <4>1. j = Len(rx) + 1 /\ 1 \in 1 .. Len(wire) /\ p + Len(rx) + 1 = p + (Len(rx) + 1)
        BY <3>2, <4>0
      <4>2. wire[1] = s[p + Len(rx) + 1]
        BY <2>1, <4>1
      <4> QED  BY <1>5, <4>1, <4>2
    <3> QED  BY <3>1, <3>2
  <2>4. ASSUME NEW j \in 1 .. Len(wire') PROVE wire'[j] = s[p + Len(rx') + j]
    <3>1. j + 1 \in 1 .. Len(wire) /\ p + Len(rx) + (j + 1) = p + Len(rx') + j
          /\ j \in 1 .. Len(wire) - 1
      BY <1>4, <1>5, <2>1
    <3>2. wire[j + 1] = s[p + Len(rx) + (j + 1)]
      BY <2>1, <3>1
    <3> QED  BY <1>4, <3>1, <3>2
  <2> QED  BY <2>1, <2>2, <2>3, <2>4 DEF Left
<1> QED  BY <1>3, <1>6 DEF Parses

\* Bytes of a message that ends before e do.
LEMMA BeforeEnd ==
  ASSUME NEW x \in Nat, NEW l \in Nat, NEW e \in Nat, x + 3 + l <= e
  PROVE  /\ x + 1 \in Nat /\ x + 2 \in Nat /\ x + 3 \in Nat
         /\ x + 1 <= e /\ x + 2 <= e /\ x + 3 <= e
         /\ \A j \in 1 .. l : x + 3 + j \in Nat /\ x + 3 + j <= e
  OBVIOUS

\* What is on its way ends later by what is added to it.
LEMMA EndMoves ==
  ASSUME NEW x \in Nat, NEW y \in Nat, NEW z \in Nat, NEW l \in Nat, NEW e, x + y + z = e
  PROVE  x + y + (z + l) = e + l
  OBVIOUS

\* One message more leaves what is laid out where it is.
LEMMA WritesInStep ==
  ASSUME InTypes, InStep, NEW m \in InMessage, HostWrites(m)
  PROVE  InStep'
<1> SUFFICES ASSUME ~broken' PROVE \E s, at, h, n, p : Parses(s, at, h, n, p)'
  BY DEF InStep
<1>1. /\ UNCHANGED <<stage, id, value, len, buf, rx, got, broken>>
      /\ hostSent' = Append(hostSent, m) /\ wire' = wire \o Frame(m)
      /\ due' = IF HasListener(m) THEN Append(due, m) ELSE due
  BY DEF HostWrites
<1>2. PICK s, at, h, n, p : Parses(s, at, h, n, p)
  BY <1>1 DEF InStep
<1>3. PICK f : f = Frame(m)
  OBVIOUS
<1>4. /\ f \in Seq(Nat) /\ Len(f) = 3 + Len(m.payload) /\ Len(m.payload) \in Nat
      /\ f[1] = m.id /\ f[2] = m.value /\ f[3] = Len(m.payload)
      /\ \A j \in 1 .. Len(m.payload) : f[3 + j] = m.payload[j]
  <2>1. m \in Message
    BY MessageAssumption
  <2> QED  BY <1>3, <2>1, FrameAt, Zenon
<1>40. Len(f) = 3 + Len(m.payload) /\ Len(m.payload) \in Nat /\ Len(f) \in Nat
  BY <1>4
<1>5. PICK k : k = Len(hostSent)
  OBVIOUS
<1>6. PICK e : e = at[k + 1]
  OBVIOUS
<1>71. s \in [Nat -> Nat] /\ at \in [Nat -> Nat] /\ h \in [Nat -> Nat]
  BY <1>2 DEF Parses, Laid
<1>72. h[k + 1] = Len(due)
  BY <1>2, <1>5 DEF Parses, Laid
<1>7. k \in Nat /\ Len(due) \in Nat /\ e \in Nat
  <2>1. k \in Nat /\ Len(due) \in Nat
    BY <1>5, HostSentAt
  <2>2. k + 1 \in Nat
    BY <2>1
  <2> QED  BY <1>6, <1>71, <2>1, <2>2
<1>8. /\ Len(hostSent') = k + 1 /\ hostSent'[k + 1] = m
      /\ \A i \in 1 .. k : hostSent'[i] = hostSent[i]
  BY <1>1, <1>5, AppendAt DEF InTypes
<1>9. /\ Len(wire') = Len(wire) + Len(f) /\ Len(wire) \in Nat /\ Len(rx) \in Nat
      /\ \A i \in 1 .. Len(wire) : wire'[i] = wire[i]
      /\ \A i \in 1 .. Len(f) : wire'[Len(wire) + i] = f[i]
  <2>1. wire \in Seq(Nat) /\ Len(wire) \in Nat /\ Len(rx) \in Nat
    BY HostSentAt DEF InTypes
  <2>2. wire' = wire \o f
    BY <1>1, <1>3
  <2> QED  BY <1>4, <2>1, <2>2, ConcatOfNat, Zenon
<1>90. Len(wire') = Len(wire) + Len(f) /\ Len(wire) \in Nat /\ Len(rx) \in Nat
  BY <1>9
<1>10. /\ \A i \in 1 .. Len(due) : due'[i] = due[i]
       /\ HasListener(m) => Len(due') = Len(due) + 1 /\ due'[Len(due) + 1] = m
       /\ ~HasListener(m) => Len(due') = Len(due)
       /\ Len(due') >= Len(due) /\ Len(due') \in Nat
  <2>1. CASE HasListener(m)
    <3>1. due' = Append(due, m) /\ due \in Seq(InMessage)
      BY <1>1, <2>1 DEF InTypes
    <3> QED  BY <1>7, <2>1, <3>1, AppendAt
  <2>2. CASE ~HasListener(m)
    BY <1>1, <1>7, <2>2
  <2> QED  BY <2>1, <2>2
<1>11. PICK s2 : s2 = [x \in Nat |-> IF x \in e + 1 .. e + Len(f) THEN f[x - e] ELSE s[x]]
  OBVIOUS
<1>12. PICK at2 : at2 = [at EXCEPT ![k + 2] = e + Len(f)]
  OBVIOUS
<1>13. PICK h2 : h2 = [h EXCEPT ![k + 2] = Len(due')]
  OBVIOUS
<1>14. /\ s2 \in [Nat -> Nat]
       /\ \A x \in Nat : x <= e => s2[x] = s[x]
       /\ \A j \in 1 .. Len(f) : s2[e + j] = f[j]
  <2>1. \A x \in Nat : x \in e + 1 .. e + Len(f) => x - e \in 1 .. Len(f)
    BY <1>40, <1>7
  <2>2. \A j \in 1 .. Len(f) : e + j \in Nat /\ e + j \in e + 1 .. e + Len(f) /\ (e + j) - e = j
    BY <1>40, <1>7
  <2>3. \A j \in 1 .. Len(f) : f[j] \in Nat
    BY <1>4, ElementOfSeq
  <2>4. \A x \in Nat : x <= e => x \notin e + 1 .. e + Len(f)
    BY <1>40, <1>7
  <2>5. s2 \in [Nat -> Nat]
    BY <1>71, <1>11, <2>1, <2>3
  <2>6. \A x \in Nat : x <= e => s2[x] = s[x]
    BY <1>11, <2>4
  <2>7. \A j \in 1 .. Len(f) : s2[e + j] = f[j]
    BY <1>11, <2>2
  <2> QED  BY <2>5, <2>6, <2>7
<1>15. /\ at2 \in [Nat -> Nat] /\ h2 \in [Nat -> Nat]
       /\ at2[k + 2] = e + Len(f) /\ h2[k + 2] = Len(due')
       /\ \A i \in 1 .. k + 1 : at2[i] = at[i] /\ h2[i] = h[i]
  <2>1. e + Len(f) \in Nat /\ Len(due') \in Nat /\ k + 2 \in Nat
    BY <1>40, <1>7, <1>10
  <2>2. \A i \in 1 .. k + 1 : i \in Nat /\ i # k + 2
    BY <1>7
  <2> QED  BY <1>71, <1>12, <1>13, <2>1, <2>2
<1>16. Laid(s2, at2, h2)'
  <2>1. h2[Len(hostSent') + 1] = Len(due') /\ at2[Len(hostSent') + 1] = e + Len(f)
    <3>1. (k + 1) + 1 = k + 2
      BY <1>7
    <3> QED  BY <1>8, <1>15, <3>1
  <2>2. ASSUME NEW i \in 1 .. Len(hostSent')
        PROVE  /\ at2[i + 1] = at2[i] + 3 + Len(hostSent'[i].payload)
               /\ at2[i + 1] <= at2[Len(hostSent') + 1]
               /\ LiesIn(hostSent'[i], s2, at2[i])
               /\ HasListener(hostSent'[i]) =>
                    /\ h2[i + 1] = h2[i] + 1 /\ h2[i] < Len(due')
                    /\ due'[h2[i] + 1] = hostSent'[i]
               /\ ~HasListener(hostSent'[i]) => h2[i + 1] = h2[i]
    <3>1. CASE i \in 1 .. k
      <4>1. /\ at[i + 1] = at[i] + 3 + Len(hostSent[i].payload)
            /\ at[i + 1] <= e /\ LiesIn(hostSent[i], s, at[i])
            /\ HasListener(hostSent[i]) =>
                 h[i + 1] = h[i] + 1 /\ h[i] < Len(due) /\ due[h[i] + 1] = hostSent[i]
            /\ ~HasListener(hostSent[i]) => h[i + 1] = h[i]
        BY <1>2, <1>5, <1>6, <3>1 DEF Parses, Laid
      <4>2. /\ i \in 1 .. k + 1 /\ i + 1 \in 1 .. k + 1 /\ i \in Nat /\ i + 1 \in Nat
        BY <1>7, <3>1
      <4>3. /\ at2[i] = at[i] /\ at2[i + 1] = at[i + 1] /\ h2[i] = h[i] /\ h2[i + 1] = h[i + 1]
            /\ at[i] \in Nat /\ h[i] \in Nat /\ at[i + 1] \in Nat
        BY <1>7, <1>15, <4>2
      <4>4. Len(hostSent[i].payload) \in Nat /\ hostSent'[i] = hostSent[i]
        BY <1>5, <1>8, <3>1, HostSentAt
      <4>5. at2[i + 1] <= at2[Len(hostSent') + 1]
        <5>1. e <= e + Len(f)
          BY <1>40, <1>7
        <5>2. \A x, y, z \in Nat : x <= y /\ y <= z => x <= z
          OBVIOUS
        <5>3. e + Len(f) \in Nat /\ at[i + 1] \in Nat
          BY <1>40, <1>7, <4>3
        <5> QED  BY <1>7, <2>1, <4>1, <4>3, <5>1, <5>2, <5>3
      <4>6. LiesIn(hostSent[i], s2, at[i])
        <5>0. /\ at[i] + 3 + Len(hostSent[i].payload) <= e /\ at[i] \in Nat
              /\ Len(hostSent[i].payload) \in Nat
          BY <4>1, <4>3, <4>4
        <5>1. \A j \in 1 .. Len(hostSent[i].payload) :
                at[i] + 3 + j \in Nat /\ at[i] + 3 + j <= e
          BY <1>7, <5>0, BeforeEnd, Zenon
        <5>2. /\ at[i] + 1 \in Nat /\ at[i] + 2 \in Nat /\ at[i] + 3 \in Nat
              /\ at[i] + 1 <= e /\ at[i] + 2 <= e /\ at[i] + 3 <= e
          BY <1>7, <5>0, BeforeEnd, Zenon
        <5>3. \A j \in 1 .. Len(hostSent[i].payload) : s2[at[i] + 3 + j] = s[at[i] + 3 + j]
          BY <1>14, <5>1
        <5>4. /\ s2[at[i] + 1] = s[at[i] + 1] /\ s2[at[i] + 2] = s[at[i] + 2]
              /\ s2[at[i] + 3] = s[at[i] + 3]
          BY <1>14, <5>2
        <5> QED  BY <4>1, <5>3, <5>4 DEF LiesIn
      <4>7. HasListener(hostSent[i]) =>
              h[i] < Len(due') /\ due'[h[i] + 1] = due[h[i] + 1]
        <5>1. ASSUME h[i] < Len(due) PROVE h[i] + 1 \in 1 .. Len(due) /\ h[i] < Len(due')
          BY <1>7, <1>10, <4>3, <5>1
        <5> QED  BY <1>10, <4>1, <5>1
      <4> QED  BY <4>1, <4>3, <4>4, <4>5, <4>6, <4>7
    <3>2. CASE i \notin 1 .. k
      <4>1. i = k + 1 /\ i + 1 = k + 2 /\ i \in 1 .. k + 1
        BY <1>7, <1>8, <3>2
      <4>2. hostSent'[i] = m /\ at2[i] = e /\ at2[i + 1] = e + Len(f)
            /\ h2[i] = Len(due) /\ h2[i + 1] = Len(due')
        BY <1>6, <1>72, <1>8, <1>15, <4>1
      <4>3. e + Len(f) = e + 3 + Len(m.payload) /\ e + Len(f) <= e + Len(f)
        <5>1. \A x, y, l \in Nat : l = 3 + y => x + l = x + 3 + y /\ x + l <= x + l
          OBVIOUS
        <5> QED  BY <1>40, <1>7, <5>1, Zenon
      <4>4. LiesIn(m, s2, e)
        <5>1. /\ 1 \in 1 .. Len(f) /\ 2 \in 1 .. Len(f) /\ 3 \in 1 .. Len(f)
              /\ \A j \in 1 .. Len(m.payload) :
                   3 + j \in 1 .. Len(f) /\ e + 3 + j = e + (3 + j)
          BY <1>40, <1>7
        <5>2. s2[e + 1] = m.id /\ s2[e + 2] = m.value /\ s2[e + 3] = Len(m.payload)
          BY <1>4, <1>14, <5>1
        <5>3. ASSUME NEW j \in 1 .. Len(m.payload) PROVE s2[e + 3 + j] = m.payload[j]
          <6>1. 3 + j \in 1 .. Len(f) /\ e + 3 + j = e + (3 + j)
            BY <5>1
          <6>2. s2[e + (3 + j)] = f[3 + j] /\ f[3 + j] = m.payload[j]
            BY <1>4, <1>14, <6>1, Zenon
          <6> QED  BY <6>1, <6>2, Zenon
        <5> QED  BY <5>2, <5>3 DEF LiesIn
      <4>5. HasListener(m) => Len(due) < Len(due')
        BY <1>7, <1>10
      <4> QED  BY <1>10, <2>1, <4>2, <4>3, <4>4, <4>5
    <3> QED  BY <3>1, <3>2
  <2> QED  BY <1>14, <1>15, <2>1, <2>2 DEF Laid, HasListener
<1>17. Left(s2, at2[Len(hostSent) + 1], p)'
  <2>1. /\ p \in Nat /\ p + Len(rx) + Len(wire) = e
        /\ \A j \in 1 .. Len(rx) : rx[j] = s[p + j]
        /\ \A j \in 1 .. Len(wire) : wire[j] = s[p + Len(rx) + j]
    BY <1>2, <1>5, <1>6 DEF Parses, Left
  <2>2. at2[Len(hostSent') + 1] = e + Len(f)
    <3>1. (k + 1) + 1 = k + 2
      BY <1>7
    <3> QED  BY <1>8, <1>15, <3>1
  <2>3. p + Len(rx') + Len(wire') = e + Len(f)
    <3>2. p \in Nat /\ Len(rx) \in Nat /\ Len(wire) \in Nat /\ Len(f) \in Nat
      BY <1>40, <1>90, <2>1
    <3>3. p + Len(rx) + (Len(wire) + Len(f)) = e + Len(f)
      <4>1. p + Len(rx) + Len(wire) = e
        BY <2>1
      <4> QED  BY <3>2, <4>1, EndMoves
    <3>4. rx' = rx /\ Len(wire') = Len(wire) + Len(f)
      BY <1>1, <1>90
    <3> QED  BY <3>3, <3>4, Zenon
  <2>4. ASSUME NEW j \in 1 .. Len(rx') PROVE rx'[j] = s2[p + j]
    <3>1. p + j \in Nat /\ p + j <= e /\ j \in 1 .. Len(rx)
      BY <1>1, <1>9, <2>1
    <3> QED  BY <1>1, <1>14, <2>1, <3>1
  <2>5. ASSUME NEW j \in 1 .. Len(wire') PROVE wire'[j] = s2[p + Len(rx') + j]
    <3>1. CASE j \in 1 .. Len(wire)
      <4>1. p + Len(rx) + j \in Nat /\ p + Len(rx) + j <= e
        BY <1>9, <2>1, <3>1
      <4>2. s2[p + Len(rx) + j] = wire[j]
        BY <1>14, <2>1, <3>1, <4>1
      <4> QED  BY <1>1, <1>9, <3>1, <4>2
    <3>2. CASE j \notin 1 .. Len(wire)
      <4>1. PICK i \in 1 .. Len(f) : j = Len(wire) + i
        <5>1. j - Len(wire) \in 1 .. Len(f) /\ j = Len(wire) + (j - Len(wire))
          BY <1>4, <1>9, <3>2
        <5> QED  BY <5>1
      <4>2. p + Len(rx) + j = e + i
        BY <1>4, <1>9, <2>1, <4>1
      <4> QED  BY <1>1, <1>9, <1>14, <4>1, <4>2
    <3> QED  BY <3>1, <3>2
  <2> QED  BY <2>1, <2>2, <2>3, <2>4, <2>5 DEF Left
<1>18. n \in 1 .. k + 1 /\ Reading(at, n, p)
  BY <1>2, <1>5 DEF Parses, Reading
<1>19. Reading(at2, n, p)'
  <2>1. n \in 1 .. Len(hostSent') + 1 /\ at2[n] = at[n] /\ h2[n] = h[n]
        /\ (n <= k => n <= Len(hostSent') /\ hostSent'[n] = hostSent[n])
    <3>1. n \in 1 .. (k + 1) + 1 /\ (n <= k => n \in 1 .. k /\ n <= k + 1)
      BY <1>7, <1>18
    <3> QED  BY <1>8, <1>15, <1>18, <3>1
  <2>2. stage # "first" => n <= k
    BY <1>5, <1>18 DEF Reading
  <2> QED  BY <1>1, <1>18, <2>1, <2>2 DEF Reading
<1>20. Served(h2, n)'
  <2>1. Len(got) = h[n] /\ h[n] <= Len(due) /\ \A j \in 1 .. Len(got) : got[j] = due[j]
    BY <1>2 DEF Parses, Served
  <2>2. h2[n] = h[n] /\ h[n] \in Nat
    <3>1. n \in Nat
      BY <1>7, <1>18
    <3> QED  BY <1>71, <1>15, <1>18, <3>1
  <2>3. h[n] <= Len(due') /\ \A j \in 1 .. Len(got) : j \in 1 .. Len(due)
    BY <1>7, <1>10, <2>1, <2>2
  <2> QED  BY <1>1, <1>10, <2>1, <2>2, <2>3 DEF Served
<1> QED  BY <1>16, <1>17, <1>19, <1>20 DEF Parses

\* The handler of the payload takes k more bytes of it.
LEMMA PayloadInStep == ASSUME InTypes, InStep, RecvPayload PROVE InStep'
<1> SUFFICES ASSUME ~broken' PROVE \E s, at, h, n, p : Parses(s, at, h, n, p)'
  BY DEF InStep
<1>1. /\ UNCHANGED <<id, value, len, wire, hostSent, due, broken>>
      /\ stage \in {"payload", "spinning"} /\ rx' = SubSeq(rx, Available + 1, Len(rx))
  BY DEF RecvPayload, Progresses
<1>2. PICK s, at, h, n, p : Parses(s, at, h, n, p)
  BY <1>1 DEF InStep
<1>3. PICK m : m = hostSent[n]
  OBVIOUS
<1>4. /\ n \in 1 .. Len(hostSent) /\ id = m.id /\ value = m.value
      /\ len = Len(m.payload) /\ Len(buf) <= len /\ p = at[n] + 3 + Len(buf)
      /\ \A j \in 1 .. Len(buf) : buf[j] = m.payload[j]
  <2>1. n \in 1 .. Len(hostSent) + 1 /\ n <= Len(hostSent)
    BY <1>1, <1>2 DEF Parses, Reading
  <2>2. n \in 1 .. Len(hostSent)
    BY <2>1, HostSentAt
  <2> QED  BY <1>1, <1>2, <1>3, <2>2 DEF Parses, Reading
<1>5. m \in Message /\ m.payload \in Seq(Nat) /\ len \in Nat /\ Len(buf) \in Nat /\ Len(rx) \in Nat
  BY <1>3, <1>4, HostSentAt
<1>6. /\ at \in [Nat -> Nat] /\ h \in [Nat -> Nat] /\ LiesIn(m, s, at[n])
      /\ at[n + 1] = at[n] + 3 + len
      /\ HasListener(m) => h[n + 1] = h[n] + 1 /\ h[n] < Len(due) /\ due[h[n] + 1] = m
      /\ ~HasListener(m) => h[n + 1] = h[n]
  BY <1>2, <1>3, <1>4 DEF Parses, Laid
<1>7. PICK k : k = Available
  OBVIOUS
<1>8. k \in 0 .. Len(rx) /\ k <= len - Len(buf) /\ k \in Nat /\ Missing = len - Len(buf)
  <2>1. len - Len(buf) \in Nat
    BY <1>4, <1>5
  <2> QED  BY <1>5, <1>7, <2>1 DEF Available, Missing
<1>9. Len(rx') = Len(rx) - k /\ \A j \in 1 .. Len(rx') : rx'[j] = rx[k + j]
  <2>1. /\ Len(rx') = IF k + 1 <= Len(rx) THEN Len(rx) - (k + 1) + 1 ELSE 0
        /\ \A j \in 1 .. Len(rx') : rx'[j] = rx[(k + 1) + j - 1]
    <3>1. rx \in Seq(Nat) /\ k + 1 \in Nat /\ k + 1 >= 1 /\ Len(rx) <= Len(rx)
      BY <1>5, <1>8 DEF InTypes
    <3>2. rx' = SubSeq(rx, k + 1, Len(rx))
      BY <1>1, <1>7
    <3> QED  BY <1>5, <3>1, <3>2, PartAt
  <2>2. Len(rx') = Len(rx) - k /\ \A j \in 1 .. Len(rx') : (k + 1) + j - 1 = k + j
    BY <1>5, <1>8, <2>1
  <2> QED  BY <2>1, <2>2
<1>10. Left(s, at[Len(hostSent) + 1], p + k)'
  <2>1. PICK e : e = at[Len(hostSent) + 1]
    OBVIOUS
  <2>2. Left(s, e, p)
    BY <1>2, <2>1 DEF Parses
  <2>3. Left(s, e, p + k)'
    BY <1>1, <1>8, <1>9, <2>2, LeftAfter
  <2>4. (at[Len(hostSent) + 1])' = e
    BY <1>1, <2>1
  <2> QED  BY <2>3, <2>4
<1>11. Laid(s, at, h)'
  BY <1>1, <1>2 DEF Parses, Laid
<1>12. PICK part : part = SubSeq(rx, 1, k)
  OBVIOUS
<1>13. PICK read : read = buf \o part
  OBVIOUS
<1>14. /\ part \in Seq(Nat) /\ Len(part) = k /\ \A i \in 1 .. k : part[i] = rx[i]
  <2>1. /\ part \in Seq(Nat) /\ Len(part) = IF 1 <= k THEN k - 1 + 1 ELSE 0
        /\ \A i \in 1 .. Len(part) : part[i] = rx[1 + i - 1]
    <3>1. rx \in Seq(Nat) /\ 1 \in Nat /\ 1 >= 1 /\ k <= Len(rx)
      BY <1>8 DEF InTypes
    <3> QED  BY <1>8, <1>12, <3>1, PartAt
  <2>2. Len(part) = k /\ \A i \in 1 .. k : 1 + i - 1 = i
    BY <1>8, <2>1
  <2> QED  BY <2>1, <2>2
<1>15. /\ read \in Seq(Nat) /\ Len(read) = Len(buf) + k
       /\ \A j \in 1 .. Len(read) : read[j] = m.payload[j]
  <2>1. /\ read \in Seq(Nat) /\ Len(read) = Len(buf) + Len(part)
        /\ \A i \in 1 .. Len(buf) : read[i] = buf[i]
        /\ \A i \in 1 .. Len(part) : read[Len(buf) + i] = part[i]
    <3>1. buf \in Seq(Nat)
      BY DEF InTypes
    <3> QED  BY <1>13, <1>14, <3>1, ConcatOfNat, Zenon
  <2>2. ASSUME NEW j \in 1 .. Len(read) PROVE read[j] = m.payload[j]
    <3>0. Len(read) = Len(buf) + k
      BY <1>14, <2>1
    <3>1. CASE j \in 1 .. Len(buf)
      BY <1>4, <2>1, <3>1
    <3>2. CASE j \notin 1 .. Len(buf)
      <4>1. PICK i \in 1 .. k : j = Len(buf) + i
        <5>1. j - Len(buf) \in 1 .. k /\ j = Len(buf) + (j - Len(buf))
          BY <1>5, <1>8, <3>0, <3>2
        <5> QED  BY <5>1
      <4>2. read[j] = rx[i] /\ i \in 1 .. Len(rx)
        BY <1>5, <1>8, <1>14, <2>1, <4>1, SMTT(30)
      <4>3. rx[i] = s[p + i]
        BY <1>2, <4>2 DEF Parses, Left
      <4>4. at[n] \in Nat /\ n \in Nat
        BY <1>4, <1>6, HostSentAt
      <4>5. p + i = at[n] + 3 + j
        BY <1>4, <1>5, <4>1, <4>4
      <4>6. j \in 1 .. Len(m.payload)
        BY <1>4, <1>5, <1>8, <3>0
      <4> QED  BY <1>6, <4>2, <4>3, <4>5, <4>6 DEF LiesIn
    <3> QED  BY <3>1, <3>2
  <2> QED  BY <1>14, <2>1, <2>2
<1>16. CASE k # len - Len(buf)
  <2>1. buf' = read /\ stage' = "spinning" /\ got' = got
    <3>1. Available # Missing
      BY <1>7, <1>8, <1>16
    <3> QED  BY <1>7, <1>12, <1>13, <3>1 DEF RecvPayload
  <2>2. Served(h, n)'
    BY <1>1, <1>2, <2>1 DEF Parses, Served
  <2>3. at[n] \in Nat /\ p + k = at[n] + 3 + Len(read) /\ Len(read) <= len
    <3>1. n \in Nat
      BY <1>4, HostSentAt
    <3>2. at[n] \in Nat
      BY <1>6, <3>1
    <3> QED  BY <1>4, <1>5, <1>8, <1>15, <3>2
  <2>4. n \in 1 .. Len(hostSent) + 1 /\ n <= Len(hostSent)
    BY <1>4, HostSentAt
  <2>5. Reading(at, n, p + k)'
    BY <1>1, <1>3, <1>4, <1>15, <2>1, <2>3, <2>4 DEF Reading
  <2> QED  BY <1>10, <1>11, <2>2, <2>5 DEF Parses
<1>17. CASE k = len - Len(buf)
  <2>1. Deliver(read)
    <3>1. Available = Missing
      BY <1>7, <1>8, <1>17
    <3> QED  BY <1>7, <1>12, <1>13, <3>1 DEF RecvPayload
  <2>2. read = m.payload
    <3>1. Len(read) = Len(m.payload)
      BY <1>4, <1>5, <1>15, <1>17
    <3> QED  BY <1>5, <1>15, <3>1, SeqEqual
  <2>3. m = [id |-> id, value |-> value, payload |-> read]
    <3>1. m = [id |-> m.id, value |-> m.value, payload |-> m.payload]
      BY <1>5 DEF Message
    <3> QED  BY <1>4, <2>2, <3>1
  <2>4. got' = IF HasListener(m) THEN Append(got, m) ELSE got
    BY <1>4, <2>1, <2>3 DEF Deliver, CallListeners, HasListener
  <2>5. stage' = "first" /\ buf' = <<>>
    BY <2>1 DEF Deliver
  <2>6. n \in Nat /\ n + 1 \in 1 .. Len(hostSent) + 1 /\ at[n] \in Nat /\ h[n] \in Nat
    <3>1. n \in Nat /\ n + 1 \in 1 .. Len(hostSent) + 1
      BY <1>4, HostSentAt
    <3> QED  BY <1>6, <3>1
  <2>7. p + k = at[n + 1]
    <3>1. \A x, l, r \in Nat : x + 3 + r + (l - r) = x + 3 + l
      OBVIOUS
    <3>2. p + k = at[n] + 3 + Len(buf) + (len - Len(buf))
      BY <1>4, <1>17
    <3>4. at[n] \in Nat /\ len \in Nat /\ Len(buf) \in Nat
      BY <1>5, <2>6
    <3>3. at[n] + 3 + Len(buf) + (len - Len(buf)) = at[n] + 3 + len
      BY <3>1, <3>4, Zenon
    <3> QED  BY <1>6, <3>2, <3>3, Zenon
  <2>8. Reading(at, n + 1, p + k)'
    BY <1>1, <2>5, <2>6, <2>7 DEF Reading
  <2>9. Len(got) = h[n] /\ h[n] <= Len(due) /\ Len(due) \in Nat
        /\ \A j \in 1 .. Len(got) : got[j] = due[j]
    BY <1>2, HostSentAt DEF Parses, Served
  <2>10. CASE HasListener(m)
    <3>1. /\ Len(got') = Len(got) + 1 /\ got'[Len(got) + 1] = m
          /\ \A j \in 1 .. Len(got) : got'[j] = got[j]
      <4>1. m \in [id : Nat, value : Nat, payload : Seq(Nat \cup {Garbage})]
        <5>1. m.id \in Nat /\ m.value \in Nat /\ m.payload \in Seq(Nat \cup {Garbage})
          BY <1>5, SeqMonotonic DEF Message
        <5>2. m = [id |-> m.id, value |-> m.value, payload |-> m.payload]
          BY <1>5 DEF Message
        <5> QED  BY <5>1, <5>2
      <4> QED  BY <2>4, <2>10, <4>1, AppendAt DEF InTypes
    <3>2. h[n + 1] = h[n] + 1 /\ h[n] < Len(due) /\ due[h[n] + 1] = m
      BY <1>6, <2>10
    <3>3. Len(got') = h[n + 1] /\ h[n + 1] <= Len(due)
      BY <2>6, <2>9, <3>1, <3>2
    <3>4. ASSUME NEW j \in 1 .. Len(got') PROVE got'[j] = due[j]
      <4>1. CASE j \in 1 .. Len(got)
        BY <2>9, <3>1, <4>1
      <4>2. CASE j \notin 1 .. Len(got)
        <5>1. j = Len(got) + 1
          BY <2>6, <2>9, <3>1, <4>2
        <5> QED  BY <2>9, <3>1, <3>2, <5>1
      <4> QED  BY <4>1, <4>2
    <3> QED  BY <1>1, <1>10, <1>11, <2>8, <3>3, <3>4 DEF Parses, Served
  <2>11. CASE ~HasListener(m)
    <3>1. got' = got /\ h[n + 1] = h[n]
      BY <1>6, <2>4, <2>11
    <3> QED  BY <1>1, <1>10, <1>11, <2>8, <2>9, <3>1 DEF Parses, Served
  <2> QED  BY <2>10, <2>11
<1> QED  BY <1>16, <1>17

LEMMA NextInStep == ASSUME InTypes, InStep, [Next]_vars PROVE InStep'
<1>1. CASE (\E m \in OutMessage : Send(m)) \/ SendStep \/ UNCHANGED vars
  <2>1. UNCHANGED inVars
    BY <1>1 DEF Send, SendStep, SendToSerial, SendToSerialInUse, SendReturns, vars
  <2> QED  BY <2>1, InStepKept
<1>2. CASE \E m \in InMessage : HostWrites(m)
  BY <1>2, WritesInStep
<1>3. CASE ByteArrives
  BY <1>3, ArrivesInStep
<1>4. CASE RecvStep
  <2>1. CASE RecvPayloadWakes
    <3>1. stage = "asleep" /\ broken' = broken
      BY <2>1 DEF RecvPayloadWakes
    <3> QED  BY <3>1 DEF InStep, Parses, Reading
  <2> QED  BY <1>4, <2>1, FieldInStep, PayloadInStep DEF RecvStep
<1>5. CASE RecvPayloadNoData
  <2>1. broken' = TRUE
    BY <1>5 DEF RecvPayloadNoData
  <2> QED  BY <2>1 DEF InStep
<1> QED  BY <1>1, <1>2, <1>3, <1>4, <1>5 DEF Next

\* Equal as far as the shorter goes: the shorter is the beginning of the longer.
LEMMA BeginningOf ==
  ASSUME NEW S, NEW T, NEW l \in Seq(S), NEW t \in Seq(T), Len(l) <= Len(t),
         \A j \in 1 .. Len(l) : l[j] = t[j]
  PROVE  l = SubSeq(t, 1, Len(l))
<1>1. Len(l) \in Nat /\ Len(t) \in Nat
  BY LenProperties
<1>2. PICK p : p = SubSeq(t, 1, Len(l))
  OBVIOUS
<1>3. p \in Seq(T) /\ Len(p) = Len(l) /\ \A i \in 1 .. Len(p) : p[i] = t[1 + i - 1]
  BY <1>1, <1>2, PartAt
<1>4. \A i \in 1 .. Len(l) : p[i] = l[i]
  BY <1>1, <1>3
<1> QED  BY <1>2, <1>3, <1>4, SeqEqual

\* Until a byte is lost or a read finds nothing, the listeners are called with
\* the messages the host sent, whole, in order and each once, in whatever parts
\* they arrive (recv_first_byte, recv_second_byte, recv_length, recv_payload).
THEOREM MessagesReceived == Spec => []ReceivesWhole
<1>1. InTypes /\ InStep => ReceivesWhole
  <2> SUFFICES ASSUME InTypes, InStep, ~broken
               PROVE  Len(got) <= Len(due) /\ got = SubSeq(due, 1, Len(got))
    BY DEF ReceivesWhole
  <2>1. PICK s, at, h, n, p : Served(h, n)
    BY DEF InStep, Parses
  <2>2. Len(got) <= Len(due) /\ \A j \in 1 .. Len(got) : got[j] = due[j]
    BY <2>1 DEF Served
  <2>3. /\ got \in Seq([id : Nat, value : Nat, payload : Seq(Nat \cup {Garbage})])
        /\ due \in Seq(InMessage)
    BY DEF InTypes
  <2> QED  BY <2>2, <2>3, BeginningOf
<1>2. IInv => InTypes
  BY TypeParts DEF IInv
<1> QED  BY <1>1, <1>2, Invariance, InitInStep, NextInStep, PTL DEF Spec
=============================================================================
