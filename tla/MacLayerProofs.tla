--------------------------- MODULE MacLayerProofs ---------------------------
(***************************************************************************)
(* Theorems about MacLayer, for every value of its constants.              *)
(***************************************************************************)
EXTENDS MacLayer, TLAPS, SequenceTheorems, FiniteSetTheorems

-----------------------------------------------------------------------------
(* The inductive invariant: QueuedOnce says that the packets of waiting are  *)
(* unicast data, which the types of disconnected_destination need, and that  *)
(* a packet sent again was marked queued, which AttemptsBounded needs.       *)

IInv == TypeOK /\ NoLostWakeup /\ QueuedOnce /\ AttemptsBounded

-----------------------------------------------------------------------------
(* Lemmas about queues and maps.                                           *)

\* The positions of a concatenation.
LEMMA ConcatElements ==
  ASSUME NEW S, NEW q \in Seq(S), NEW r \in Seq(S)
  PROVE  /\ q \o r \in Seq(S)
         /\ Len(q \o r) = Len(q) + Len(r)
         /\ \A i \in DOMAIN (q \o r) :
              \/ i \in DOMAIN q /\ (q \o r)[i] = q[i]
              \/ i - Len(q) \in DOMAIN r /\ (q \o r)[i] = r[i - Len(q)]
         /\ \A i \in DOMAIN q : i \in DOMAIN (q \o r) /\ (q \o r)[i] = q[i]
         /\ \A i \in DOMAIN r : /\ i + Len(q) \in DOMAIN (q \o r)
                                /\ (q \o r)[i + Len(q)] = r[i]
  BY ConcatProperties, LenProperties

\* Appending packets that share no hash with the queue or with one another.
LEMMA ConcatAtMostOnce ==
  ASSUME NEW q \in Seq(Packet), NEW r \in Seq(Packet),
         AtMostOnce(q), AtMostOnce(r),
         \A i \in DOMAIN q, j \in DOMAIN r :
           IsUnicastData(q[i]) /\ IsUnicastData(r[j]) => getHash(q[i]) # getHash(r[j])
  PROVE  AtMostOnce(q \o r)
<1> DEFINE s == q \o r
<1> SUFFICES ASSUME NEW i \in DOMAIN s, NEW j \in DOMAIN s,
                    IsUnicastData(s[i]), IsUnicastData(s[j]),
                    getHash(s[i]) = getHash(s[j])
             PROVE  i = j
  BY DEF AtMostOnce
<1>0. i \in Int /\ j \in Int /\ Len(q) \in Nat
  BY ConcatElements, LenProperties
<1>1. \/ i \in DOMAIN q /\ s[i] = q[i]
      \/ i - Len(q) \in DOMAIN r /\ s[i] = r[i - Len(q)]
  BY ConcatElements
<1>2. \/ j \in DOMAIN q /\ s[j] = q[j]
      \/ j - Len(q) \in DOMAIN r /\ s[j] = r[j - Len(q)]
  BY ConcatElements
<1> HIDE DEF s
<1> QED  BY <1>0, <1>1, <1>2 DEF AtMostOnce

\* Appending packets none of which is the one of an entry, nor of its hash.
LEMMA ConcatEntry ==
  ASSUME NEW q \in Seq(Packet), NEW r \in Seq(Packet), NEW h, NEW e,
         EntryMatches(q, h, e),
         \A j \in DOMAIN r : IsUnicastData(r[j]) => getHash(r[j]) # h
  PROVE  EntryMatches(q \o r, h, e)
<1> DEFINE s == q \o r
<1>1. \A i \in DOMAIN s : \/ i \in DOMAIN q /\ s[i] = q[i]
                          \/ i - Len(q) \in DOMAIN r /\ s[i] = r[i - Len(q)]
  BY ConcatElements
<1>2. \A i \in DOMAIN q : i \in DOMAIN s /\ s[i] = q[i]
  BY ConcatElements
<1> HIDE DEF s
<1>3. EntryMatches(s, h, e)
  BY <1>1, <1>2 DEF EntryMatches
<1> QED  BY <1>3 DEF s

\* Sending the head of the queue.
LEMMA TailAtMostOnce ==
  ASSUME NEW q \in Seq(Packet), q # <<>>, AtMostOnce(q)
  PROVE  /\ Tail(q) \in Seq(Packet)
         /\ AtMostOnce(Tail(q))
         /\ \A i \in DOMAIN Tail(q) :
              IsUnicastData(Tail(q)[i]) /\ IsUnicastData(Head(q)) =>
                getHash(Tail(q)[i]) # getHash(Head(q))
<1> DEFINE t == Tail(q)
<1>1. /\ t \in Seq(Packet)
      /\ \A i \in DOMAIN t : i \in Nat /\ i + 1 \in DOMAIN q /\ t[i] = q[i + 1] /\ i + 1 # 1
      /\ 1 \in DOMAIN q /\ Head(q) = q[1]
  BY HeadTailProperties, LenProperties
<1> HIDE DEF t
<1>2. AtMostOnce(t)
  BY <1>1 DEF AtMostOnce
<1>3. \A i \in DOMAIN t : IsUnicastData(t[i]) /\ IsUnicastData(Head(q)) =>
                            getHash(t[i]) # getHash(Head(q))
  BY <1>1 DEF AtMostOnce
<1> QED  BY <1>1, <1>2, <1>3 DEF t

\* Sending the head of the queue keeps the queue consistent with every entry of
\* waiting that is not about that packet.
LEMMA TailEntry ==
  ASSUME NEW q \in Seq(Packet), q # <<>>, NEW h, NEW e, EntryMatches(q, h, e),
         Head(q) # e.pkt
  PROVE  EntryMatches(Tail(q), h, e)
<1> DEFINE t == Tail(q)
<1>1. /\ \A i \in DOMAIN t : i \in Nat /\ i + 1 \in DOMAIN q /\ t[i] = q[i + 1]
      /\ \A i \in DOMAIN q : i # 1 => i - 1 \in DOMAIN t /\ t[i - 1] = q[i]
      /\ Head(q) = q[1]
  BY HeadTailProperties, LenProperties
<1> HIDE DEF t
<1>2. EntryMatches(t, h, e)
  <2>1. ASSUME NEW i \in DOMAIN q, q[i] = e.pkt PROVE \E j \in DOMAIN t : t[j] = e.pkt
    BY <1>1, <2>1
  <2>2. ASSUME NEW j \in DOMAIN t, t[j] = e.pkt PROVE \E i \in DOMAIN q : q[i] = e.pkt
    BY <1>1, <2>2
  <2> QED  BY <1>1, <2>1, <2>2 DEF EntryMatches
<1> QED  BY <1>2 DEF t

\* s is q without its element at c.
OneRemoved(s, q, c) ==
  /\ \A i \in DOMAIN s :
       \/ i < c /\ i \in DOMAIN q /\ s[i] = q[i]
       \/ i >= c /\ i + 1 \in DOMAIN q /\ s[i] = q[i + 1]
  /\ \A i \in DOMAIN q :
       /\ i < c => i \in DOMAIN s /\ s[i] = q[i]
       /\ i > c => i - 1 \in DOMAIN s /\ s[i - 1] = q[i]

\* Erasing one packet from the queue.
LEMMA WithoutElements ==
  ASSUME NEW q \in Seq(Packet), NEW p, NEW k \in DOMAIN q, q[k] = p
  PROVE  \E c \in DOMAIN q : /\ q[c] = p
                             /\ Without(q, p) \in Seq(Packet)
                             /\ OneRemoved(Without(q, p), q, c)
<1> DEFINE c == CHOOSE i \in DOMAIN q : q[i] = p
<1>1. c \in DOMAIN q /\ q[c] = p
  OBVIOUS
<1> HIDE DEF c
<1> DEFINE l == SubSeq(q, 1, c - 1)
           r == SubSeq(q, c + 1, Len(q))
<1>2. Without(q, p) = l \o r
  BY DEF Without, RemoveAt, c
<1>3. c \in 1 .. Len(q) /\ Len(q) \in Nat /\ DOMAIN q = 1 .. Len(q)
  BY <1>1, LenProperties
<1>4. /\ l \in Seq(Packet) /\ Len(l) = c - 1
      /\ \A i \in 1 .. c - 1 : l[i] = q[i]
  <2>1. \A i \in 1 .. c - 1 : q[i] \in Packet
    BY <1>3, ElementOfSeq
  <2>2. 1 \in Int /\ c - 1 \in Int /\ (IF 1 <= c - 1 THEN c - 1 - 1 + 1 ELSE 0) = c - 1
    BY <1>3
  <2> QED  BY <2>1, <2>2, SubSeqProperties
<1>5. /\ r \in Seq(Packet) /\ Len(r) = Len(q) - c
      /\ \A i \in 1 .. Len(q) - c : r[i] = q[c + i]
  <2>1. \A i \in c + 1 .. Len(q) : q[i] \in Packet
    BY <1>3, ElementOfSeq
  <2>2. c + 1 \in Int /\ Len(q) \in Int /\ c \in Int /\ c <= Len(q)
    BY <1>3
  <2>3. /\ r \in Seq(Packet)
        /\ Len(r) = IF c + 1 <= Len(q) THEN Len(q) - (c + 1) + 1 ELSE 0
        /\ \A i \in 1 .. Len(q) - (c + 1) + 1 : r[i] = q[(c + 1) + i - 1]
    BY <2>1, <2>2, SubSeqProperties
  <2> HIDE DEF r
  <2>4. Len(q) - (c + 1) + 1 = Len(q) - c
    BY <2>2
  <2>5. Len(r) = Len(q) - c
    BY <2>2, <2>3
  <2>6. \A i \in 1 .. Len(q) - c : (c + 1) + i - 1 = c + i
    BY <2>2
  <2> QED  BY <2>3, <2>4, <2>5, <2>6
<1> HIDE DEF l, r
<1> DEFINE s == l \o r
<1>6. /\ s \in Seq(Packet) /\ Len(s) = Len(q) - 1 /\ DOMAIN s = 1 .. Len(q) - 1
      /\ \A i \in 1 .. Len(q) - 1 :
           s[i] = IF i <= c - 1 THEN l[i] ELSE r[i - (c - 1)]
  <2>1. /\ s \in Seq(Packet) /\ Len(s) = Len(l) + Len(r)
        /\ \A i \in 1 .. Len(l) + Len(r) :
             s[i] = IF i <= Len(l) THEN l[i] ELSE r[i - Len(l)]
    BY <1>4, <1>5, ConcatProperties
  <2>2. Len(l) + Len(r) = Len(q) - 1
    BY <1>3, <1>4, <1>5
  <2> HIDE DEF s
  <2>3. DOMAIN s = 1 .. Len(s)
    BY <2>1, LenProperties
  <2> QED  BY <2>1, <2>2, <2>3, <1>4
<1> HIDE DEF s
<1>7. ASSUME NEW i \in DOMAIN s
      PROVE  \/ i < c /\ i \in DOMAIN q /\ s[i] = q[i]
             \/ i >= c /\ i + 1 \in DOMAIN q /\ s[i] = q[i + 1]
  <2>1. i \in 1 .. Len(q) - 1 /\ i \in Int
    BY <1>3, <1>6
  <2>2. CASE i < c
    <3>1. i \in 1 .. c - 1 /\ i <= c - 1
      BY <2>1, <2>2, <1>3
    <3>2. s[i] = q[i]
      BY <3>1, <2>1, <1>6, <1>4
    <3> QED  BY <3>1, <3>2, <2>2, <1>3
  <2>3. CASE i >= c
    <3>1. i - (c - 1) \in 1 .. Len(q) - c /\ ~(i <= c - 1) /\ c + (i - (c - 1)) = i + 1
      BY <2>1, <2>3, <1>3
    <3>2. s[i] = q[i + 1]
      BY <3>1, <2>1, <1>6, <1>5
    <3> QED  BY <3>1, <3>2, <2>1, <2>3, <1>3
  <2> QED  BY <2>1, <2>2, <2>3, <1>3
<1>8. ASSUME NEW i \in DOMAIN q
      PROVE  /\ i < c => i \in DOMAIN s /\ s[i] = q[i]
             /\ i > c => i - 1 \in DOMAIN s /\ s[i - 1] = q[i]
  <2>1. i \in 1 .. Len(q) /\ i \in Int
    BY <1>3
  <2>2. CASE i < c
    <3>1. i \in 1 .. c - 1 /\ i \in 1 .. Len(q) - 1 /\ i <= c - 1
      BY <2>1, <2>2, <1>3
    <3> QED  BY <3>1, <2>2, <1>3, <1>4, <1>6
  <2>3. CASE i > c
    <3>1. /\ (i - 1) - (c - 1) \in 1 .. Len(q) - c /\ i - 1 \in 1 .. Len(q) - 1
          /\ ~(i - 1 <= c - 1) /\ c + ((i - 1) - (c - 1)) = i
      <4>1. i \in Int /\ c \in Int /\ Len(q) \in Int /\ c < i /\ i <= Len(q) /\ 1 <= c
        BY <2>1, <2>3, <1>3
      <4>2. PICK len \in Int : len = Len(q)
        BY <4>1
      <4>3. (i - 1) - (c - 1) \in 1 .. len - c /\ i - 1 \in 1 .. len - 1
        BY <4>1, <4>2
      <4>4. ~(i - 1 <= c - 1) /\ c + ((i - 1) - (c - 1)) = i
        BY <4>1
      <4> QED  BY <4>2, <4>3, <4>4
    <3>2. s[i - 1] = q[i]
      BY <3>1, <1>5, <1>6
    <3> QED  BY <3>1, <3>2, <2>3, <1>3, <1>6
  <2>4. CASE i = c
    BY <2>4, <1>3
  <2> QED  BY <2>1, <2>2, <2>3, <2>4, <1>3
<1>10. OneRemoved(s, q, c)
  BY <1>7, <1>8 DEF OneRemoved
<1>9. Without(q, p) = s
  BY <1>2 DEF s
<1> QED  BY <1>1, <1>6, <1>10, <1>9

\* Erasing a packet, as accomplishAck does, repeats none of those that are left.
LEMMA WithoutAtMostOnce ==
  ASSUME NEW q \in Seq(Packet), NEW p, AtMostOnce(q)
  PROVE  Without(q, p) \in Seq(Packet) /\ AtMostOnce(Without(q, p))
<1> DEFINE s == Without(q, p)
<1>1. CASE ~ \E k \in DOMAIN q : q[k] = p
  BY <1>1 DEF Without
<1>2. ASSUME NEW k \in DOMAIN q, q[k] = p
      PROVE  s \in Seq(Packet) /\ AtMostOnce(s)
  <2>1. PICK c \in DOMAIN q : s \in Seq(Packet) /\ OneRemoved(s, q, c)
    BY <1>2, WithoutElements
  <2>2. c \in Nat /\ \A i \in DOMAIN s : i \in Nat
    BY <2>1, LenProperties
  <2> HIDE DEF s
  <2>3. ASSUME NEW i \in DOMAIN s, NEW j \in DOMAIN s,
               IsUnicastData(s[i]), IsUnicastData(s[j]), getHash(s[i]) = getHash(s[j])
        PROVE  i = j
    <3>1. PICK a \in DOMAIN q : s[i] = q[a] /\ ((i < c /\ a = i) \/ (i >= c /\ a = i + 1))
      <4>1. \/ i < c /\ i \in DOMAIN q /\ s[i] = q[i]
            \/ i >= c /\ i + 1 \in DOMAIN q /\ s[i] = q[i + 1]
        BY <2>1 DEF OneRemoved
      <4> QED  BY <4>1
    <3>2. PICK b \in DOMAIN q : s[j] = q[b] /\ ((j < c /\ b = j) \/ (j >= c /\ b = j + 1))
      <4>1. \/ j < c /\ j \in DOMAIN q /\ s[j] = q[j]
            \/ j >= c /\ j + 1 \in DOMAIN q /\ s[j] = q[j + 1]
        BY <2>1 DEF OneRemoved
      <4> QED  BY <4>1
    <3>3. a = b
      BY <2>3, <3>1, <3>2 DEF AtMostOnce
    <3> QED  BY <2>2, <3>1, <3>2, <3>3
  <2> QED  BY <2>1, <2>3 DEF AtMostOnce
<1> QED  BY <1>1, <1>2

\* Erasing the packet of one entry leaves the other entries with theirs.
LEMMA WithoutEntry ==
  ASSUME NEW q \in Seq(Packet), NEW p, NEW h, NEW e, EntryMatches(q, h, e), p # e.pkt
  PROVE  EntryMatches(Without(q, p), h, e)
<1> DEFINE s == Without(q, p)
<1>1. CASE ~ \E k \in DOMAIN q : q[k] = p
  BY <1>1 DEF Without
<1>2. ASSUME NEW k \in DOMAIN q, q[k] = p
      PROVE  EntryMatches(s, h, e)
  <2>1. PICK c \in DOMAIN q : q[c] = p /\ OneRemoved(s, q, c)
    BY <1>2, WithoutElements
  <2>2. \A i \in DOMAIN q : i \in Nat
    BY LenProperties
  <2> HIDE DEF s
  <2>3. ASSUME NEW i \in DOMAIN q, q[i] = e.pkt PROVE \E j \in DOMAIN s : s[j] = e.pkt
    <3>1. i < c \/ i > c
      BY <2>1, <2>2, <2>3
    <3> QED  BY <3>1, <2>1, <2>3 DEF OneRemoved
  <2>4. ASSUME NEW j \in DOMAIN s PROVE \E i \in DOMAIN q : s[j] = q[i]
    BY <2>1 DEF OneRemoved
  <2> QED  BY <2>3, <2>4 DEF EntryMatches
<1> QED  BY <1>1, <1>2

\* A map's entries after Put and Erase.
LEMMA PutPartial ==
  ASSUME NEW S, NEW T, NEW f, IsPartial(f, S, T), NEW k \in S, NEW v \in T
  PROVE  IsPartial(Put(f, k, v), S, T)
  BY DEF IsPartial, Put

\* Erasing keys of a map leaves a map.
LEMMA ErasePartial ==
  ASSUME NEW S, NEW T, NEW f, IsPartial(f, S, T), NEW K
  PROVE  IsPartial(Erase(f, K), S, T)
  BY DEF IsPartial, Erase

\* There are finitely many hashes, so that idleTick visits finitely many entries.
LEMMA HashFinite == IsFiniteSet(Hash)
<1>1. IsFiniteSet(Frag)
  BY BoundAssumption, FS_Interval DEF Frag
<1>2. IsFiniteSet(SeqNumber)
  BY SeqAssumption, FS_Interval DEF SeqNumber
<1> QED  BY <1>1, <1>2, FS_Product DEF Hash

\* The enumeration of a set of hashes is a sequence without repetition.
LEMMA OrderedProperties ==
  ASSUME NEW S \in SUBSET Hash, NEW s \in Ordered(S)
  PROVE  /\ s \in Seq(S) /\ DOMAIN s = 1 .. Len(s) /\ Len(s) \in Nat
         /\ \A h \in S : \E i \in DOMAIN s : s[i] = h
         /\ \A i, j \in DOMAIN s : s[i] = s[j] => i = j
<1>1. IsFiniteSet(S) /\ Cardinality(S) \in Nat
  BY HashFinite, FS_Subset, FS_CardinalityType
<1>2. /\ s \in [1 .. Cardinality(S) -> S] /\ ToSet(s) = S
      /\ \A i, j \in DOMAIN s : i < j => HashLess(s[i], s[j])
  BY DEF Ordered
<1>3. s \in Seq(S)
  BY <1>1, <1>2, SeqDef
<1>4. \A h \in S : \E i \in DOMAIN s : s[i] = h
  BY <1>2 DEF ToSet
<1>5. ASSUME NEW h \in Hash PROVE ~HashLess(h, h)
  BY BoundAssumption, SeqAssumption DEF HashLess, Hash, Frag, SeqNumber
<1>6. ASSUME NEW i \in DOMAIN s, NEW j \in DOMAIN s, s[i] = s[j] PROVE i = j
  <2>1. i \in Nat /\ j \in Nat /\ s[i] \in Hash
    BY <1>1, <1>2
  <2>2. ~(i < j) /\ ~(j < i)
    BY <1>2, <1>5, <1>6, <2>1
  <2> QED  BY <2>1, <2>2
<1> QED  BY <1>3, <1>4, <1>6, LenProperties

-----------------------------------------------------------------------------
(* What the helpers of the handlers return.                                *)

\* prepareFragment: the packets that send enqueues are packets of the message, each
\* with a hash of its own.
LEMMA FragmentsProperties ==
  ASSUME TypeOK, NEW n \in Node, NEW dest \in Node \cup {Broadcast},
         NEW total \in 1 .. MaxFrag, NEW msg \in Nat
  PROVE  LET r == PrepareFragments(n, dest, total, msg)
         IN /\ r \in Seq(Packet)
            /\ AtMostOnce(r)
            /\ \A i \in DOMAIN r : r[i].seq_number = seq_number[n]
<1> DEFINE r == PrepareFragments(n, dest, total, msg)
<1>0. total \in Nat /\ total >= 1 /\ total <= MaxFrag /\ MaxFrag \in Nat
  BY BoundAssumption
<1>1. /\ DOMAIN r = 1 .. total
      /\ \A i \in 1 .. total :
           r[i] = [type |-> "data", destination |-> dest, source |-> n,
                   frag |-> IF total = 1 THEN 0 ELSE i, seq_number |-> seq_number[n],
                   control |-> IF i = total THEN "last" ELSE "more", msg |-> msg]
  BY DEF PrepareFragments
<1>2. seq_number[n] \in SeqNumber
  BY DEF TypeOK, SenderTypeOK
<1>3. ASSUME NEW i \in 1 .. total PROVE r[i] \in Packet
  <2>1. (IF total = 1 THEN 0 ELSE i) \in Frag
    BY <1>0 DEF Frag
  <2> QED  BY <2>1, <1>1, <1>2 DEF Packet
<1>4. r \in Seq(Packet)
  <2>1. r = [i \in 1 .. total |-> r[i]]
    BY DEF PrepareFragments
  <2>2. r \in [1 .. total -> Packet]
    BY <1>3, <2>1
  <2> QED  BY <2>2, <1>0, SeqDef
<1>5. ASSUME NEW i \in DOMAIN r, NEW j \in DOMAIN r, getHash(r[i]) = getHash(r[j])
      PROVE  i = j
  <2>1. r[i].frag = r[j].frag
    BY <1>5 DEF getHash
  <2>2. i \in 1 .. total /\ j \in 1 .. total
    BY <1>1
  <2>3. r[i].frag = (IF total = 1 THEN 0 ELSE i) /\ r[j].frag = (IF total = 1 THEN 0 ELSE j)
    BY <1>1, <2>2
  <2>4. CASE total = 1
    BY <2>2, <2>4
  <2>5. CASE total # 1
    BY <2>1, <2>3, <2>5
  <2> QED  BY <2>4, <2>5
<1>6. \A i \in DOMAIN r : r[i].seq_number = seq_number[n]
  BY <1>1
<1> HIDE DEF r
<1>7. AtMostOnce(r)
  BY <1>5 DEF AtMostOnce
<1> QED  BY <1>4, <1>6, <1>7 DEF r

\* sendAck: an acknowledgement is a packet that is not unicast data.
LEMMA AckProperties ==
  ASSUME NEW n \in Node, NEW p \in Packet
  PROVE  AckOf(p, n) \in Packet /\ ~IsUnicastData(AckOf(p, n))
  BY DEF AckOf, Packet, IsUnicastData

\* A sequence over its own elements stays one when it grows or shrinks.
LEMMA OwnElements ==
  ASSUME NEW s, s \in Seq(ToSet(s)), NEW e
  PROVE  /\ Append(s, e) \in Seq(ToSet(Append(s, e)))
         /\ ToSet(Append(s, e)) \subseteq ToSet(s) \cup {e}
         /\ s # <<>> => /\ Tail(s) \in Seq(ToSet(Tail(s)))
                        /\ ToSet(Tail(s)) \subseteq ToSet(s)
<1> DEFINE S == ToSet(s) \cup {e}
<1>1. s \in Seq(S) /\ e \in S
  BY SeqMonotonic
<1>2. ASSUME NEW t \in Seq(S) PROVE t \in Seq(ToSet(t)) /\ ToSet(t) \subseteq S
  <2>1. Len(t) \in Nat /\ t \in [1 .. Len(t) -> S]
    BY LenProperties
  <2>2. t \in [1 .. Len(t) -> ToSet(t)] /\ ToSet(t) \subseteq S
    BY <2>1 DEF ToSet
  <2> QED  BY <2>1, <2>2, SeqDef
<1>3. Append(s, e) \in Seq(S)
  BY <1>1, AppendProperties
<1>4. s # <<>> => Tail(s) \in Seq(ToSet(s))
  BY HeadTailProperties
<1>5. ASSUME NEW t \in Seq(ToSet(s)) PROVE ToSet(t) \subseteq ToSet(s) /\ t \in Seq(S)
  <2>1. t \in [1 .. Len(t) -> ToSet(s)]
    BY LenProperties
  <2> QED  BY <2>1, SeqMonotonic DEF ToSet
<1> QED  BY <1>2, <1>3, <1>4, <1>5

\* addToFragmented: a record with one more fragment is a record.
LEMMA FragmentRecord ==
  ASSUME TypeOK, NEW n \in Node, NEW p \in Packet
  PROVE  IsRecord(WithFragment(n, p))
<1> DEFINE k == <<p.source, p.seq_number>>
           old == IF k \in DOMAIN receive_buffer[n] THEN receive_buffer[n][k] ELSE NewRecord
<1>1. p.frag \in Frag /\ p.msg \in Nat
  BY DEF Packet
<1>2. IsRecord(old)
  <2>1. IsRecord(NewRecord)
    <3>1. 0 \in Frag
      BY BoundAssumption DEF Frag
    <3> QED  BY <3>1 DEF IsRecord, NewRecord, IsParts, IsPartial
  <2>2. k \in DOMAIN receive_buffer[n] => IsRecord(receive_buffer[n][k])
    BY DEF TypeOK, ReceiverTypeOK
  <2> QED  BY <2>1, <2>2
<1> HIDE DEF old
<1>3. IsParts(Put(old.packets, p.frag, p.msg))
  <2>1. IsPartial(old.packets, Frag, Nat \cup {NULL})
    BY <1>2 DEF IsRecord, IsParts
  <2> QED  BY <2>1, <1>1, PutPartial DEF IsParts
<1>4. WithFragment(n, p) =
        [lastReceived |-> old.lastReceived \/ p.control = "last",
         packet_number |-> IF p.control = "last" THEN p.frag ELSE old.packet_number,
         packets |-> Put(old.packets, p.frag, p.msg)]
  BY DEF WithFragment, old
<1> QED  BY <1>1, <1>2, <1>3, <1>4 DEF IsRecord

\* addToDataReady: a record whose buffers were handed over is a record.
LEMMA EmptiedRecord ==
  ASSUME NEW r, r = [lastReceived |-> r.lastReceived, packet_number |-> r.packet_number,
                     packets |-> r.packets], IsRecord(r)
  PROVE  IsRecord(Emptied(r))
<1>1. Emptied(r) = [lastReceived |-> r.lastReceived, packet_number |-> r.packet_number,
                    packets |-> [f \in DOMAIN r.packets |-> NULL]]
  BY DEF Emptied
<1>2. IsParts([f \in DOMAIN r.packets |-> NULL])
  BY DEF IsRecord, IsParts, IsPartial
<1> QED  BY <1>1, <1>2 DEF IsRecord

\* checkRepetition, addToFragmented and addToDataReady keep the types of the
\* receiving side.
LEMMA AcceptTypes ==
  ASSUME TypeOK, NEW n \in Node, NEW p \in Packet, Accept(n, p)
  PROVE  ReceiverTypeOK'
<1> DEFINE k == <<p.source, p.seq_number>>
           m == <<p.source, p.msg>>
           r == WithFragment(n, p)
<1>1. ReceiverTypeOK
  BY DEF TypeOK
<1>2. k \in Node \X SeqNumber /\ m \in Node \X Nat
  BY DEF Packet
<1>3. IsRecord(r) /\ IsRecord(Emptied(r))
  <2>1. IsRecord(r)
    BY FragmentRecord
  <2>2. r = [lastReceived |-> r.lastReceived, packet_number |-> r.packet_number,
             packets |-> r.packets]
    BY DEF WithFragment
  <2> HIDE DEF r
  <2> QED  BY <2>1, <2>2, EmptiedRecord
<1>4. ASSUME NEW v, IsRecord(v),
             receive_buffer' = [receive_buffer EXCEPT ![n] = Put(@, k, v)]
      PROVE  /\ DOMAIN receive_buffer' = Node
             /\ \A l \in Node :
                  /\ DOMAIN receive_buffer'[l] \subseteq Node \X SeqNumber
                  /\ \A h \in DOMAIN receive_buffer'[l] : IsRecord(receive_buffer'[l][h])
  <2> HIDE DEF k
  <2>1. \A l \in Node : receive_buffer'[l] =
                          IF l = n THEN Put(receive_buffer[n], k, v) ELSE receive_buffer[l]
    BY <1>1, <1>4 DEF ReceiverTypeOK
  <2>2. DOMAIN Put(receive_buffer[n], k, v) = DOMAIN receive_buffer[n] \cup {k}
    BY DEF Put
  <2>3. \A h \in DOMAIN receive_buffer[n] \cup {k} :
          Put(receive_buffer[n], k, v)[h] = IF h = k THEN v ELSE receive_buffer[n][h]
    BY DEF Put
  <2> QED  BY <1>1, <1>2, <1>4, <2>1, <2>2, <2>3 DEF ReceiverTypeOK
<1>5. CASE checkRepetition(n, p)
  <2>1. UNCHANGED recvVars
    BY <1>5 DEF Accept
  <2> QED  BY <2>1, <1>1 DEF recvVars, ReceiverTypeOK
<1>6. CASE ~checkRepetition(n, p) /\ ~Assembles(r)
  <2>1. /\ receive_buffer' = [receive_buffer EXCEPT ![n] = Put(@, k, r)]
        /\ UNCHANGED <<inBuffer, got, expired>>
    BY <1>6 DEF Accept
  <2> HIDE DEF r, k
  <2> QED  BY <1>1, <1>3, <1>4, <2>1 DEF ReceiverTypeOK
<1>7. CASE ~checkRepetition(n, p) /\ Assembles(r)
  <2> DEFINE e == [source |-> p.source, parts |-> r.packets]
  <2>1. /\ receive_buffer' = [receive_buffer EXCEPT ![n] = Put(@, k, Emptied(r))]
        /\ inBuffer' = [inBuffer EXCEPT ![n] = Append(@, e)]
        /\ got' = [got EXCEPT ![n] = @ \cup {m}]
        /\ expired' = [expired EXCEPT ![n] = @ \ {m}]
    BY <1>7 DEF Accept
  <2>2. IsMessage(e)
    <3>1. p.source \in Node
      BY DEF Packet
    <3> QED  BY <3>1, <1>3 DEF IsMessage, IsRecord
  <2>3. /\ got' \in [Node -> SUBSET (Node \X Nat)]
        /\ expired' \in [Node -> SUBSET (Node \X Nat)]
    <3> HIDE DEF m, e, r, k
    <3> QED  BY <1>1, <1>2, <2>1 DEF ReceiverTypeOK
  <2> HIDE DEF r, k, e, m
  <2>4. \A l \in Node : inBuffer'[l] = IF l = n THEN Append(inBuffer[n], e) ELSE inBuffer[l]
    BY <1>1, <2>1 DEF ReceiverTypeOK
  <2>5. ASSUME NEW l \in Node
        PROVE  /\ inBuffer'[l] \in Seq(ToSet(inBuffer'[l]))
               /\ \A x \in ToSet(inBuffer'[l]) : IsMessage(x)
    <3>1. /\ inBuffer[l] \in Seq(ToSet(inBuffer[l]))
          /\ \A x \in ToSet(inBuffer[l]) : IsMessage(x)
      BY <1>1 DEF ReceiverTypeOK
    <3>2. CASE l = n
      <4>1. /\ Append(inBuffer[n], e) \in Seq(ToSet(Append(inBuffer[n], e)))
            /\ ToSet(Append(inBuffer[n], e)) \subseteq ToSet(inBuffer[n]) \cup {e}
        BY <3>1, <3>2, OwnElements
      <4>2. inBuffer'[l] = Append(inBuffer[n], e)
        BY <2>4, <3>2
      <4> QED  BY <3>1, <3>2, <4>1, <4>2, <2>2
    <3>3. CASE l # n
      BY <3>1, <3>3, <2>4
    <3> QED  BY <3>2, <3>3
  <2>6. DOMAIN inBuffer' = Node
    BY <1>1, <2>1 DEF ReceiverTypeOK
  <2> QED  BY <1>3, <1>4, <2>1, <2>3, <2>5, <2>6 DEF ReceiverTypeOK
<1> QED  BY <1>5, <1>6, <1>7

-----------------------------------------------------------------------------
(* Each action preserves the inductive invariant.                          *)

\* A queue that is appended to keeps its wake-up.
LEMMA EnqueueWakes ==
  ASSUME NEW n \in Node, NEW q \in Seq(Packet),
         outBuffer \in [Node -> Seq(Packet)], ready \in [Node -> Nat],
         radioErrors \in [Node -> Nat],
         NoLostWakeup, Enqueue(n, q), UNCHANGED radioErrors
  PROVE  /\ outBuffer' \in [Node -> Seq(Packet)]
         /\ ready' \in [Node -> Nat]
         /\ NoLostWakeup'
<1>1. outBuffer' \in [Node -> Seq(Packet)]
  <2>1. outBuffer[n] \o q \in Seq(Packet)
    BY ConcatProperties
  <2> QED  BY <2>1 DEF Enqueue
<1>2. ready' \in [Node -> Nat]
  BY DEF Enqueue
<1>3. ASSUME NEW m \in Node, outBuffer'[m] # <<>>
      PROVE  ready'[m] > 0 \/ radioErrors'[m] > 0
  <2>1. CASE m # n
    BY <2>1, <1>3 DEF Enqueue, NoLostWakeup
  <2>2. CASE m = n /\ outBuffer[n] = <<>> /\ q # <<>>
    BY <2>2 DEF Enqueue, Wakes
  <2>3. CASE m = n /\ outBuffer[n] # <<>>
    BY <2>3 DEF Enqueue, Wakes, NoLostWakeup
  <2>4. CASE m = n /\ outBuffer[n] = <<>> /\ q = <<>>
    <3>1. outBuffer'[m] = outBuffer[n] \o q
      BY <2>4 DEF Enqueue
    <3> QED  BY <3>1, <2>4, <1>3
  <2> QED  BY <2>1, <2>2, <2>3, <2>4
<1> QED  BY <1>1, <1>2, <1>3 DEF NoLostWakeup

\* The receiving side is untouched.
LEMMA ReceiverUnchanged ==
  ASSUME TypeOK, UNCHANGED recvVars
  PROVE  ReceiverTypeOK'
  BY DEF TypeOK, ReceiverTypeOK, recvVars

\* send: the new packets have a sequence number that no queued or waiting packet
\* has, and the event is fired when the queue was empty.
LEMMA SendPreserves ==
  ASSUME IInv, NEW n \in Node, Send(n)
  PROVE  IInv'
<1>0. TypeOK /\ SenderTypeOK /\ NoLostWakeup /\ QueuedOnce /\ AttemptsBounded
  BY DEF IInv, TypeOK
<1>1. PICK dest \in (Node \ {n}) \cup {Broadcast}, total \in 1 .. MaxFrag :
        /\ Enqueue(n, PrepareFragments(n, dest, total, Len(log[n]) + 1))
        /\ waiting_for_ack' = [waiting_for_ack EXCEPT ![n] =
             IF dest = Broadcast THEN @
             ELSE Put(@, seq_number[n], [total |-> total, received |-> 0,
                                         msg |-> Len(log[n]) + 1])]
        /\ log' = [log EXCEPT ![n] = Append(@,
             [dest |-> dest, total |-> total, seq |-> seq_number[n],
              sent |-> 0, timeouts |-> 0])]
  BY DEF Send
<1>2. /\ SeqRetired(n)
      /\ seq_number' = [seq_number EXCEPT ![n] = NextSeq(@)]
      /\ UNCHANGED <<waiting, recvVars, failVars, disconnected_destination, rx>>
  BY DEF Send
<1> DEFINE r == PrepareFragments(n, dest, total, Len(log[n]) + 1)
<1>3. /\ log[n] \in Seq(LogEntry) /\ Len(log[n]) + 1 \in Nat
      /\ total \in Nat /\ seq_number[n] \in SeqNumber
      /\ dest \in Node \cup {Broadcast}
  BY <1>0, BoundAssumption, LenProperties DEF SenderTypeOK
<1>4. /\ r \in Seq(Packet) /\ AtMostOnce(r)
      /\ \A i \in DOMAIN r : r[i].seq_number = seq_number[n]
  <2> HIDE DEF r
  <2>1. LET s == PrepareFragments(n, dest, total, Len(log[n]) + 1)
        IN /\ s \in Seq(Packet)
           /\ AtMostOnce(s)
           /\ \A i \in DOMAIN s : s[i].seq_number = seq_number[n]
    BY <1>0, <1>3, FragmentsProperties
  <2> QED  BY <2>1 DEF r
<1>5. Enqueue(n, r)
  BY <1>1
<1> HIDE DEF r
<1>6. outBuffer \in [Node -> Seq(Packet)] /\ outBuffer' = [outBuffer EXCEPT ![n] = @ \o r]
  BY <1>0, <1>5 DEF SenderTypeOK, Enqueue
<1>7. /\ outBuffer' \in [Node -> Seq(Packet)]
      /\ ready' \in [Node -> Nat]
      /\ NoLostWakeup'
  <2>1. ready \in [Node -> Nat] /\ radioErrors \in [Node -> Nat] /\ UNCHANGED radioErrors
    BY <1>0, <1>2 DEF TypeOK, SenderTypeOK, failVars
  <2> QED  BY <1>0, <1>4, <1>5, <1>6, <2>1, EnqueueWakes
<1>8. seq_number' \in [Node -> SeqNumber]
  <2>1. NextSeq(seq_number[n]) \in SeqNumber
    BY <1>3, SeqAssumption DEF NextSeq, SeqNumber
  <2> QED  BY <1>0, <1>2, <2>1 DEF SenderTypeOK
<1>9. log' \in [Node -> Seq(LogEntry)]
  <2> DEFINE e == [dest |-> dest, total |-> total, seq |-> seq_number[n],
                   sent |-> 0, timeouts |-> 0]
  <2>1. e \in LogEntry
    BY <1>3 DEF LogEntry
  <2>2. log' = [log EXCEPT ![n] = Append(@, e)]
    BY <1>1
  <2> HIDE DEF e
  <2>3. Append(log[n], e) \in Seq(LogEntry)
    BY <1>3, <2>1, AppendProperties
  <2> QED  BY <1>0, <2>2, <2>3 DEF SenderTypeOK
<1>10. /\ DOMAIN waiting_for_ack' = Node
       /\ \A l \in Node : IsPartial(waiting_for_ack'[l], SeqNumber, Count)
  <2> DEFINE c == [total |-> total, received |-> 0, msg |-> Len(log[n]) + 1]
             f == IF dest = Broadcast THEN waiting_for_ack[n]
                  ELSE Put(waiting_for_ack[n], seq_number[n], c)
  <2>1. c \in Count
    BY <1>3 DEF Count
  <2>2. waiting_for_ack' = [waiting_for_ack EXCEPT ![n] = f]
    BY <1>1
  <2> HIDE DEF c
  <2>3. IsPartial(f, SeqNumber, Count)
    BY <1>0, <1>3, <2>1, PutPartial DEF SenderTypeOK
  <2> HIDE DEF f
  <2> QED  BY <1>0, <2>2, <2>3 DEF SenderTypeOK
<1>11. SenderTypeOK'
  BY <1>0, <1>2, <1>7, <1>8, <1>9, <1>10 DEF SenderTypeOK
<1>12. QueuedOnce'
  <2>1. QueueMatches(outBuffer[n], waiting[n]) /\ outBuffer[n] \in Seq(Packet)
    BY <1>0, <1>6 DEF QueuedOnce
  <2>2. AtMostOnce(outBuffer[n] \o r)
    <3>1. \A i \in DOMAIN outBuffer[n], j \in DOMAIN r :
            IsUnicastData(outBuffer[n][i]) /\ IsUnicastData(r[j])
              => getHash(outBuffer[n][i]) # getHash(r[j])
      BY <1>2, <1>4 DEF SeqRetired, getHash
    <3> QED  BY <2>1, <3>1, <1>4, ConcatAtMostOnce DEF QueueMatches
  <2>3. ASSUME NEW h \in DOMAIN waiting[n], waiting[n][h] # NULL
        PROVE  EntryMatches(outBuffer[n] \o r, h, waiting[n][h])
    <3>1. EntryMatches(outBuffer[n], h, waiting[n][h])
      BY <2>1, <2>3 DEF QueueMatches
    <3>2. h[2] # seq_number[n]
      BY <1>2, <2>3 DEF SeqRetired
    <3>3. \A j \in DOMAIN r : getHash(r[j]) # h
      BY <1>4, <3>2 DEF getHash
    <3> QED  BY <1>4, <2>1, <3>1, <3>3, ConcatEntry
  <2>4. QueueMatches(outBuffer[n] \o r, waiting[n])
    BY <2>2, <2>3 DEF QueueMatches
  <2> QED  BY <1>0, <1>2, <1>6, <2>4 DEF QueuedOnce
<1>13. AttemptsBounded'
  BY <1>0, <1>2 DEF AttemptsBounded
<1>14. ReceiverTypeOK'
  BY <1>0, <1>2, ReceiverUnchanged
<1>15. TypeOK'
  BY <1>0, <1>2, <1>11, <1>14 DEF TypeOK, failVars
<1> QED  BY <1>7, <1>12, <1>13, <1>15 DEF IInv

\* What goes on the air keeps the types of the queues of the radio drivers.
LEMMA TransmitTypes ==
  ASSUME NEW n \in Node, NEW p \in Packet, rx \in [Node -> Seq(Packet)], Transmit(n, p)
  PROVE  rx' \in [Node -> Seq(Packet)]
<1>1. PICK heard : rx' = [m \in Node |-> IF m \in heard THEN Append(rx[m], p) ELSE rx[m]]
  BY DEF Transmit
<1>2. \A m \in Node : Append(rx[m], p) \in Seq(Packet)
  BY AppendProperties
<1> QED  BY <1>1, <1>2

\* send_to_radio: the head of the queue moves to waiting, marked as not queued, and
\* the event is fired again while packets are left.
LEMMA SendToRadioPreserves ==
  ASSUME IInv, NEW n \in Node, SendToRadio(n)
  PROVE  IInv'
<1> DEFINE q == outBuffer[n]
           w == waiting[n]
           p == Head(q)
           h == getHash(p)
           again == h \in DOMAIN w /\ w[h] # NULL /\ w[h].pkt = p
           e == [pkt |-> p, queued |-> FALSE,
                 attempt |-> IF again THEN w[h].attempt + 1 ELSE 0]
           v == IF ~IsUnicastData(p) THEN w ELSE Put(w, h, e)
<1>0. /\ TypeOK /\ SenderTypeOK /\ NoLostWakeup /\ QueuedOnce /\ AttemptsBounded
      /\ outBuffer \in [Node -> Seq(Packet)] /\ ready \in [Node -> Nat]
      /\ q \in Seq(Packet) /\ q # <<>> /\ ready[n] > 0
  BY DEF IInv, TypeOK, SenderTypeOK, SendToRadio
<1>1. /\ Transmit(n, p)
      /\ waiting' = [waiting EXCEPT ![n] = v]
      /\ outBuffer' = [outBuffer EXCEPT ![n] = Tail(@)]
      /\ ready' = [ready EXCEPT ![n] = IF Len(outBuffer[n]) > 1 THEN @ ELSE @ - 1]
      /\ UNCHANGED <<seq_number, waiting_for_ack, recvVars, failVars,
                     disconnected_destination, log>>
  BY DEF SendToRadio
<1>2. p \in Packet /\ Len(q) \in Nat /\ Len(Tail(q)) = Len(q) - 1 /\ Tail(q) \in Seq(Packet)
  BY <1>0, HeadTailProperties, LenProperties
<1>3. /\ QueueMatches(q, w) /\ AtMostOnce(Tail(q))
      /\ \A i \in DOMAIN Tail(q) : IsUnicastData(Tail(q)[i]) /\ IsUnicastData(p)
                                     => getHash(Tail(q)[i]) # h
  BY <1>0, TailAtMostOnce DEF QueuedOnce, QueueMatches
<1>4. IsPartial(w, Hash, Entry) /\ h \in Hash
  BY <1>0, <1>2 DEF SenderTypeOK, getHash, Packet, Hash
<1>5. again => /\ w[h].attempt \in Nat /\ w[h].attempt < MaxAttempt
  <2>1. ASSUME again
        PROVE  w[h].attempt \in Nat /\ w[h].attempt < MaxAttempt
    <3>1. EntryMatches(q, h, w[h])
      BY <2>1, <1>3 DEF QueueMatches
    <3>2. 1 \in DOMAIN q /\ q[1] = p
      BY <1>0, <1>2, LenProperties
    <3>3. w[h].queued
      BY <2>1, <3>1, <3>2 DEF EntryMatches
    <3>4. w[h] \in [pkt : Packet, attempt : Nat, queued : BOOLEAN]
      BY <1>4, <2>1 DEF IsPartial, Entry
    <3> QED  BY <1>0, <2>1, <3>3, <3>4 DEF AttemptsBounded
  <2> QED  BY <2>1
<1>6. e \in [pkt : Packet, attempt : Nat, queued : BOOLEAN] /\ e \in Entry
  <2>1. (IF again THEN w[h].attempt + 1 ELSE 0) \in Nat
    BY <1>5
  <2> HIDE DEF again
  <2> QED  BY <1>2, <2>1 DEF Entry
<1>7. /\ e.pkt = p /\ ~e.queued /\ e.attempt <= MaxAttempt
  <2>1. (IF again THEN w[h].attempt + 1 ELSE 0) <= MaxAttempt
    BY <1>5, BoundAssumption
  <2> HIDE DEF again
  <2> QED  BY <2>1
<1>8. IsPartial(v, Hash, Entry)
  BY <1>4, <1>6, PutPartial
<1>9. QueueMatches(Tail(q), v)
  <2>1. ASSUME NEW g \in DOMAIN v, v[g] # NULL
        PROVE  EntryMatches(Tail(q), g, v[g])
    <3>1. CASE IsUnicastData(p) /\ g = h
      <4>1. v[g] = e
        BY <3>1, <2>1 DEF Put
      <4>2. \A i \in DOMAIN Tail(q) : ~(IsUnicastData(Tail(q)[i]) /\ getHash(Tail(q)[i]) = h)
        BY <1>3, <3>1
      <4>3. \A i \in DOMAIN Tail(q) : Tail(q)[i] # p
        BY <4>2, <3>1
      <4> HIDE DEF e, v
      <4>4. EntryMatches(Tail(q), h, e)
        BY <1>2, <1>7, <3>1, <4>2, <4>3 DEF EntryMatches
      <4> QED  BY <4>1, <4>4, <3>1
    <3>2. CASE ~(IsUnicastData(p) /\ g = h)
      <4>1. g \in DOMAIN w /\ v[g] = w[g]
        BY <3>2, <2>1 DEF Put
      <4>2. EntryMatches(q, g, w[g])
        BY <4>1, <2>1, <1>3 DEF QueueMatches
      <4>3. p # w[g].pkt
        BY <4>2, <3>2 DEF EntryMatches
      <4>4. EntryMatches(Tail(q), g, w[g])
        BY <1>0, <4>2, <4>3, TailEntry
      <4> QED  BY <4>1, <4>4
    <3> QED  BY <3>1, <3>2
  <2> HIDE DEF v
  <2> QED  BY <1>3, <2>1 DEF QueueMatches
<1>10. \A g \in DOMAIN v : v[g] # NULL => /\ v[g].attempt <= MaxAttempt
                                          /\ v[g].queued => v[g].attempt < MaxAttempt
  <2>1. \A g \in DOMAIN w : w[g] # NULL => /\ w[g].attempt <= MaxAttempt
                                           /\ w[g].queued => w[g].attempt < MaxAttempt
    BY <1>0 DEF AttemptsBounded
  <2>2. \A g \in DOMAIN v : v[g] = e \/ (g \in DOMAIN w /\ v[g] = w[g])
    BY DEF Put
  <2> HIDE DEF e, v, w
  <2> QED  BY <1>7, <2>1, <2>2
<1> HIDE DEF v
<1>11. /\ DOMAIN waiting' = Node
       /\ \A l \in Node : waiting'[l] = IF l = n THEN v ELSE waiting[l]
  BY <1>0, <1>1 DEF SenderTypeOK
<1>12. outBuffer' \in [Node -> Seq(Packet)]
  BY <1>0, <1>1, <1>2
<1>13. ready' \in [Node -> Nat]
  BY <1>0, <1>1
<1>14. SenderTypeOK'
  <2>1. \A l \in Node : IsPartial(waiting'[l], Hash, Entry)
    BY <1>0, <1>8, <1>11 DEF SenderTypeOK
  <2> QED  BY <1>0, <1>1, <1>11, <1>12, <1>13, <2>1 DEF SenderTypeOK
<1>15. rx' \in [Node -> Seq(Packet)]
  BY <1>0, <1>1, <1>2, TransmitTypes DEF TypeOK
<1>16. TypeOK'
  <2>1. ReceiverTypeOK'
    BY <1>0, <1>1, ReceiverUnchanged
  <2> QED  BY <1>0, <1>1, <1>14, <1>15, <2>1 DEF TypeOK, failVars
<1>17. NoLostWakeup'
  <2>1. Tail(q) # <<>> => Len(q) > 1
    <3>1. Len(Tail(q)) = 0 => Tail(q) = <<>>
      BY <1>2, EmptySeq
    <3>2. Len(Tail(q)) \in Nat
      BY <1>2, LenProperties
    <3> QED  BY <1>2, <3>1, <3>2
  <2>2. ASSUME NEW l \in Node, outBuffer'[l] # <<>>
        PROVE  ready'[l] > 0 \/ radioErrors'[l] > 0
    <3>1. CASE l = n
      BY <1>0, <1>1, <2>1, <2>2, <3>1
    <3>2. CASE l # n
      BY <1>0, <1>1, <2>2, <3>2 DEF NoLostWakeup, failVars
    <3> QED  BY <3>1, <3>2
  <2> QED  BY <2>2 DEF NoLostWakeup
<1>18. QueuedOnce'
  BY <1>0, <1>1, <1>9, <1>11 DEF QueuedOnce
<1>19. AttemptsBounded'
  BY <1>0, <1>10, <1>11 DEF AttemptsBounded
<1> QED  BY <1>16, <1>17, <1>18, <1>19 DEF IInv

\* send_to_radio when the radio refuses the packet: the bound on radio errors is
\* what NoLostWakeup allows for.
LEMMA SendToRadioFailsPreserves ==
  ASSUME IInv, NEW n \in Node, SendToRadioFails(n)
  PROVE  IInv'
<1>0. TypeOK /\ SenderTypeOK /\ NoLostWakeup /\ QueuedOnce /\ AttemptsBounded
  BY DEF IInv, TypeOK
<1>1. /\ ready' = [ready EXCEPT ![n] = @ - 1] /\ ready[n] > 0
      /\ radioErrors' = [radioErrors EXCEPT ![n] = @ + 1]
      /\ UNCHANGED <<seq_number, outBuffer, waiting, waiting_for_ack, recvVars,
                     restarts, disconnected_destination, rx, log>>
  BY DEF SendToRadioFails
<1>2. ready' \in [Node -> Nat] /\ radioErrors' \in [Node -> Nat]
  BY <1>0, <1>1 DEF TypeOK, SenderTypeOK
<1>3. TypeOK'
  <2>1. ReceiverTypeOK'
    BY <1>0, <1>1, ReceiverUnchanged
  <2>2. SenderTypeOK'
    BY <1>0, <1>1, <1>2 DEF SenderTypeOK
  <2> QED  BY <1>0, <1>1, <1>2, <2>1, <2>2 DEF TypeOK
<1>4. NoLostWakeup'
  <2>1. radioErrors'[n] > 0
    BY <1>0, <1>1 DEF TypeOK
  <2>2. \A l \in Node : l # n => ready'[l] = ready[l] /\ radioErrors'[l] = radioErrors[l]
    BY <1>0, <1>1 DEF TypeOK, SenderTypeOK
  <2> QED  BY <1>0, <1>1, <2>1, <2>2 DEF NoLostWakeup
<1>5. QueuedOnce' /\ AttemptsBounded'
  BY <1>0, <1>1 DEF QueuedOnce, AttemptsBounded
<1> QED  BY <1>3, <1>4, <1>5 DEF IInv

\* send_to_radio when the queue is empty: an event too many does no harm.
LEMMA SendToRadioIdlePreserves ==
  ASSUME IInv, NEW n \in Node, SendToRadioIdle(n)
  PROVE  IInv'
<1>0. TypeOK /\ SenderTypeOK /\ NoLostWakeup /\ QueuedOnce /\ AttemptsBounded
  BY DEF IInv, TypeOK
<1>1. /\ ready' = [ready EXCEPT ![n] = @ - 1] /\ ready[n] > 0 /\ outBuffer[n] = <<>>
      /\ UNCHANGED <<seq_number, outBuffer, waiting, waiting_for_ack, recvVars,
                     failVars, disconnected_destination, rx, log>>
  BY DEF SendToRadioIdle
<1>2. ready' \in [Node -> Nat]
  BY <1>0, <1>1 DEF SenderTypeOK
<1>3. TypeOK'
  <2>1. ReceiverTypeOK'
    BY <1>0, <1>1, ReceiverUnchanged
  <2>2. SenderTypeOK'
    BY <1>0, <1>1, <1>2 DEF SenderTypeOK
  <2> QED  BY <1>0, <1>1, <2>1, <2>2 DEF TypeOK, failVars
<1>4. NoLostWakeup'
  BY <1>0, <1>1 DEF NoLostWakeup, SenderTypeOK, failVars
<1>5. QueuedOnce' /\ AttemptsBounded'
  BY <1>0, <1>1 DEF QueuedOnce, AttemptsBounded
<1> QED  BY <1>3, <1>4, <1>5 DEF IInv

\* Taking a datagram from the driver's queue.
LEMMA TakeTypes ==
  ASSUME TypeOK, NEW n \in Node, rx[n] # <<>>, Take(n)
  PROVE  Head(rx[n]) \in Packet /\ rx' \in [Node -> Seq(Packet)]
<1>1. rx \in [Node -> Seq(Packet)] /\ rx[n] \in Seq(Packet)
  BY DEF TypeOK
<1>2. Head(rx[n]) \in Packet /\ Tail(rx[n]) \in Seq(Packet)
  BY <1>1, HeadTailProperties
<1> QED  BY <1>1, <1>2 DEF Take

\* recv_from_radio of unicast data: the acknowledgement wakes send_to_radio.
LEMMA RecvDataPreserves ==
  ASSUME IInv, NEW n \in Node, RecvData(n)
  PROVE  IInv'
<1> DEFINE p == Head(rx[n])
           r == <<AckOf(p, n)>>
<1>0. /\ TypeOK /\ SenderTypeOK /\ NoLostWakeup /\ QueuedOnce /\ AttemptsBounded
      /\ outBuffer \in [Node -> Seq(Packet)]
  BY DEF IInv, TypeOK, SenderTypeOK
<1>1. /\ Enqueue(n, r) /\ Accept(n, p) /\ Take(n) /\ rx[n] # <<>>
      /\ UNCHANGED <<seq_number, waiting, waiting_for_ack, failVars,
                     disconnected_destination, log>>
  BY DEF RecvData
<1>2. p \in Packet /\ rx' \in [Node -> Seq(Packet)]
  BY <1>0, <1>1, TakeTypes
<1>3. /\ r \in Seq(Packet) /\ DOMAIN r = 1 .. 1
      /\ \A i \in DOMAIN r : ~IsUnicastData(r[i])
  <2>1. AckOf(p, n) \in Packet /\ ~IsUnicastData(AckOf(p, n))
    BY <1>2, AckProperties
  <2> QED  BY <2>1
<1> HIDE DEF r, p
<1>4. /\ outBuffer' \in [Node -> Seq(Packet)]
      /\ ready' \in [Node -> Nat]
      /\ NoLostWakeup'
  <2>1. ready \in [Node -> Nat] /\ radioErrors \in [Node -> Nat] /\ UNCHANGED radioErrors
    BY <1>0, <1>1 DEF TypeOK, SenderTypeOK, failVars
  <2> QED  BY <1>0, <1>1, <1>3, <2>1, EnqueueWakes
<1>5. TypeOK'
  <2>1. ReceiverTypeOK'
    BY <1>0, <1>1, <1>2, AcceptTypes
  <2>2. SenderTypeOK'
    BY <1>0, <1>1, <1>4 DEF SenderTypeOK
  <2> QED  BY <1>0, <1>1, <1>2, <2>1, <2>2 DEF TypeOK, failVars
<1>6. QueuedOnce'
  <2>1. QueueMatches(outBuffer[n], waiting[n]) /\ outBuffer[n] \in Seq(Packet)
    BY <1>0 DEF QueuedOnce
  <2>2. AtMostOnce(outBuffer[n] \o r)
    <3>1. AtMostOnce(r)
      BY <1>3 DEF AtMostOnce
    <3> QED  BY <2>1, <3>1, <1>3, ConcatAtMostOnce DEF QueueMatches
  <2>3. ASSUME NEW h \in DOMAIN waiting[n], waiting[n][h] # NULL
        PROVE  EntryMatches(outBuffer[n] \o r, h, waiting[n][h])
    BY <1>3, <2>1, <2>3, ConcatEntry DEF QueueMatches
  <2>4. QueueMatches(outBuffer[n] \o r, waiting[n])
    BY <2>2, <2>3 DEF QueueMatches
  <2>5. outBuffer' = [outBuffer EXCEPT ![n] = @ \o r]
    BY <1>1 DEF Enqueue
  <2> QED  BY <1>0, <1>1, <2>4, <2>5 DEF QueuedOnce
<1>7. AttemptsBounded'
  BY <1>0, <1>1 DEF AttemptsBounded
<1> QED  BY <1>4, <1>5, <1>6, <1>7 DEF IInv

\* recv_from_radio of a broadcast: nothing is sent.
LEMMA RecvBroadcastPreserves ==
  ASSUME IInv, NEW n \in Node, RecvBroadcast(n)
  PROVE  IInv'
<1>0. TypeOK /\ SenderTypeOK /\ NoLostWakeup /\ QueuedOnce /\ AttemptsBounded
  BY DEF IInv, TypeOK
<1>1. /\ Accept(n, Head(rx[n])) /\ Take(n) /\ rx[n] # <<>>
      /\ UNCHANGED <<bufferVars, failVars, disconnected_destination, log>>
  BY DEF RecvBroadcast
<1>2. Head(rx[n]) \in Packet /\ rx' \in [Node -> Seq(Packet)]
  BY <1>0, <1>1, TakeTypes
<1>3. ReceiverTypeOK'
  BY <1>0, <1>1, <1>2, AcceptTypes
<1>4. SenderTypeOK'
  BY <1>0, <1>1 DEF SenderTypeOK, bufferVars
<1>5. TypeOK'
  BY <1>0, <1>1, <1>2, <1>3, <1>4 DEF TypeOK, failVars
<1>6. NoLostWakeup' /\ QueuedOnce' /\ AttemptsBounded'
  BY <1>0, <1>1 DEF NoLostWakeup, QueuedOnce, AttemptsBounded, bufferVars, failVars
<1> QED  BY <1>5, <1>6 DEF IInv

\* recv_from_radio of another node's datagram: nothing changes.
LEMMA RecvOtherPreserves ==
  ASSUME IInv, NEW n \in Node, RecvOther(n)
  PROVE  IInv'
<1>0. TypeOK /\ SenderTypeOK /\ NoLostWakeup /\ QueuedOnce /\ AttemptsBounded
  BY DEF IInv, TypeOK
<1>1. /\ Take(n) /\ rx[n] # <<>>
      /\ UNCHANGED <<bufferVars, recvVars, failVars, disconnected_destination, log>>
  BY DEF RecvOther
<1>2. rx' \in [Node -> Seq(Packet)]
  BY <1>0, <1>1, TakeTypes
<1>3. ReceiverTypeOK'
  BY <1>0, <1>1, ReceiverUnchanged
<1>4. SenderTypeOK'
  BY <1>0, <1>1 DEF SenderTypeOK, bufferVars
<1>5. TypeOK'
  BY <1>0, <1>1, <1>2, <1>3, <1>4 DEF TypeOK, failVars
<1>6. NoLostWakeup' /\ QueuedOnce' /\ AttemptsBounded'
  BY <1>0, <1>1 DEF NoLostWakeup, QueuedOnce, AttemptsBounded, bufferVars, failVars
<1> QED  BY <1>5, <1>6 DEF IInv

\* accomplishAck: the packet leaves the queue together with its entry, so that none
\* is left that waiting does not know of.
LEMMA RecvAckPreserves ==
  ASSUME IInv, NEW n \in Node, RecvAck(n)
  PROVE  IInv'
<1> DEFINE p == Head(rx[n])
           q == outBuffer[n]
           w == waiting[n]
           c == waiting_for_ack[n]
           h == getHash(p)
           known == h \in DOMAIN w /\ w[h] # NULL
           counted == p.seq_number \in DOMAIN c
           s == c[p.seq_number]
           done == counted /\ s.received + 1 = s.total
           q1 == IF known /\ w[h].queued THEN Without(q, w[h].pkt) ELSE q
           w1 == IF known THEN Erase(w, {h}) ELSE Put(w, h, NULL)
           c1 == IF done THEN Erase(c, {p.seq_number})
                 ELSE IF counted THEN CountedIn(c, p.seq_number) ELSE c
           l1 == IF done THEN SentIn(log[n], s.msg) ELSE log[n]
<1>0. /\ TypeOK /\ SenderTypeOK /\ NoLostWakeup /\ QueuedOnce /\ AttemptsBounded
      /\ outBuffer \in [Node -> Seq(Packet)] /\ q \in Seq(Packet)
  BY DEF IInv, TypeOK, SenderTypeOK
<1>1. /\ outBuffer' = [outBuffer EXCEPT ![n] = q1]
      /\ waiting' = [waiting EXCEPT ![n] = w1]
      /\ waiting_for_ack' = [waiting_for_ack EXCEPT ![n] = c1]
      /\ log' = [log EXCEPT ![n] = l1]
      /\ Take(n) /\ rx[n] # <<>>
      /\ UNCHANGED <<seq_number, ready, recvVars, failVars, disconnected_destination>>
  <2>1. outBuffer' = [outBuffer EXCEPT ![n] = q1]
    BY DEF RecvAck
  <2>2. waiting' = [waiting EXCEPT ![n] = w1]
    BY DEF RecvAck
  <2>3. waiting_for_ack' = [waiting_for_ack EXCEPT ![n] = c1]
    BY DEF RecvAck
  <2>4. log' = [log EXCEPT ![n] = l1]
    BY DEF RecvAck
  <2>5. /\ Take(n) /\ rx[n] # <<>>
        /\ UNCHANGED <<seq_number, ready, recvVars, failVars, disconnected_destination>>
    BY DEF RecvAck
  <2> QED  BY <2>1, <2>2, <2>3, <2>4, <2>5
<1>2. p \in Packet /\ rx' \in [Node -> Seq(Packet)]
  BY <1>0, <1>1, TakeTypes
<1>3. p.seq_number \in SeqNumber /\ h \in Hash
  BY <1>2 DEF Packet, getHash, Hash
<1> HIDE DEF p
<1>4. IsPartial(w, Hash, Entry) /\ QueueMatches(q, w)
  BY <1>0 DEF SenderTypeOK, QueuedOnce
<1>5. IsPartial(w1, Hash, Entry)
  <2>1. NULL \in Entry
    BY DEF Entry
  <2> QED  BY <1>3, <1>4, <2>1, PutPartial, ErasePartial
<1>6. IsPartial(c1, SeqNumber, Count)
  <2>1. IsPartial(c, SeqNumber, Count)
    BY <1>0 DEF SenderTypeOK
  <2>2. CASE done
    BY <2>1, <2>2, ErasePartial
  <2>3. CASE ~done /\ counted
    <3>1. s \in Count
      BY <2>1, <2>3 DEF IsPartial
    <3>2. [s EXCEPT !.received = @ + 1] \in Count
      BY <3>1 DEF Count
    <3>3. c1 = [c EXCEPT ![p.seq_number] = [s EXCEPT !.received = @ + 1]]
      BY <2>3 DEF CountedIn
    <3> HIDE DEF c, s
    <3> QED  BY <2>1, <3>2, <3>3 DEF IsPartial
  <2>4. CASE ~counted
    BY <2>1, <2>4
  <2> QED  BY <2>2, <2>3, <2>4
<1>7. l1 \in Seq(LogEntry)
  <2>1. /\ log[n] \in Seq(LogEntry) /\ Len(log[n]) \in Nat
        /\ DOMAIN log[n] = 1 .. Len(log[n]) /\ log[n] \in [1 .. Len(log[n]) -> LogEntry]
    BY <1>0, LenProperties DEF SenderTypeOK
  <2>2. ASSUME NEW k
        PROVE  [log[n] EXCEPT ![k].sent = @ + 1] \in Seq(LogEntry)
    <3> DEFINE f == [log[n] EXCEPT ![k].sent = @ + 1]
    <3>1. ASSUME NEW x \in LogEntry PROVE [x EXCEPT !.sent = @ + 1] \in LogEntry
      BY DEF LogEntry
    <3>2. f = [i \in 1 .. Len(log[n]) |->
                 IF i = k THEN [log[n][i] EXCEPT !.sent = @ + 1] ELSE log[n][i]]
      BY <2>1
    <3> HIDE DEF f
    <3>3. f \in [1 .. Len(log[n]) -> LogEntry]
      BY <2>1, <3>1, <3>2
    <3>4. f \in Seq(LogEntry)
      BY <2>1, <3>3, SeqDef
    <3> QED  BY <3>4 DEF f
  <2> QED  BY <2>1, <2>2 DEF SentIn
<1>8. q1 \in Seq(Packet) /\ QueueMatches(q1, w1)
  <2>1. q1 \in Seq(Packet) /\ AtMostOnce(q1)
    BY <1>0, <1>4, WithoutAtMostOnce DEF QueueMatches
  <2>2. ASSUME NEW g \in DOMAIN w1, w1[g] # NULL
        PROVE  EntryMatches(q1, g, w1[g])
    <3>1. g \in DOMAIN w /\ g # h /\ w1[g] = w[g]
      BY <2>2 DEF Put, Erase
    <3>2. EntryMatches(q, g, w[g])
      BY <1>4, <2>2, <3>1 DEF QueueMatches
    <3>3. known => w[h].pkt # w[g].pkt
      <4>1. known => EntryMatches(q, h, w[h])
        BY <1>4 DEF QueueMatches
      <4> HIDE DEF known, h, w
      <4> QED  BY <4>1, <3>1, <3>2 DEF EntryMatches
    <3>4. EntryMatches(q1, g, w[g])
      BY <1>0, <3>2, <3>3, WithoutEntry
    <3> QED  BY <3>1, <3>4
  <2> HIDE DEF q1, w1
  <2> QED  BY <2>1, <2>2 DEF QueueMatches
<1>9. q1 # <<>> => q # <<>>
  <2>1. Without(<<>>, w[h].pkt) = <<>>
    BY DEF Without
  <2> QED  BY <2>1
<1>10. \A g \in DOMAIN w1 : w1[g] # NULL => g \in DOMAIN w /\ w1[g] = w[g]
  BY DEF Put, Erase
<1> HIDE DEF q1, w1, c1, l1
<1>11. /\ \A l \in Node : outBuffer'[l] = IF l = n THEN q1 ELSE outBuffer[l]
       /\ \A l \in Node : waiting'[l] = IF l = n THEN w1 ELSE waiting[l]
       /\ DOMAIN waiting' = Node
       /\ outBuffer' \in [Node -> Seq(Packet)]
  BY <1>0, <1>1, <1>8 DEF SenderTypeOK
<1>12. SenderTypeOK'
  <2>1. \A l \in Node : IsPartial(waiting'[l], Hash, Entry)
    BY <1>0, <1>5, <1>11 DEF SenderTypeOK
  <2>2. /\ DOMAIN waiting_for_ack' = Node
        /\ \A l \in Node : IsPartial(waiting_for_ack'[l], SeqNumber, Count)
    BY <1>0, <1>1, <1>6 DEF SenderTypeOK
  <2>3. log' \in [Node -> Seq(LogEntry)]
    BY <1>0, <1>1, <1>7 DEF SenderTypeOK
  <2> QED  BY <1>0, <1>1, <1>11, <2>1, <2>2, <2>3 DEF SenderTypeOK
<1>13. TypeOK'
  <2>1. ReceiverTypeOK'
    BY <1>0, <1>1, ReceiverUnchanged
  <2> QED  BY <1>0, <1>1, <1>2, <1>12, <2>1 DEF TypeOK, failVars
<1>14. NoLostWakeup'
  BY <1>0, <1>1, <1>9, <1>11 DEF NoLostWakeup, failVars
<1>15. QueuedOnce'
  BY <1>0, <1>8, <1>11 DEF QueuedOnce
<1>16. AttemptsBounded'
  <2>1. ASSUME NEW l \in Node, NEW g \in DOMAIN waiting'[l], waiting'[l][g] # NULL
        PROVE  g \in DOMAIN waiting[l] /\ waiting'[l][g] = waiting[l][g]
    <3>1. CASE l = n
      BY <1>10, <1>11, <2>1, <3>1
    <3>2. CASE l # n
      BY <1>11, <2>1, <3>2
    <3> QED  BY <3>1, <3>2
  <2>2. AttemptsBounded
    BY DEF IInv
  <2> HIDE DEF IInv, w
  <2> QED  BY <2>1, <2>2 DEF AttemptsBounded
<1> QED  BY <1>13, <1>14, <1>15, <1>16 DEF IInv

\* What idleTick finds of a packet that is due.
LEMMA DueEntries ==
  ASSUME TypeOK, QueuedOnce, NEW n \in Node, NEW due \in SUBSET Sent(n), NEW h \in due
  PROVE  /\ h \in DOMAIN waiting[n] /\ h \in Hash /\ waiting[n][h] # NULL
         /\ waiting[n][h] \in [pkt : Packet, attempt : Nat, queued : BOOLEAN]
         /\ ~waiting[n][h].queued
         /\ EntryMatches(outBuffer[n], h, waiting[n][h])
<1>1. h \in DOMAIN waiting[n] /\ waiting[n][h] # NULL /\ ~waiting[n][h].queued
  BY DEF Sent
<1>2. IsPartial(waiting[n], Hash, Entry)
  BY DEF TypeOK, SenderTypeOK
<1>3. waiting[n][h] \in Entry /\ h \in Hash
  BY <1>1, <1>2 DEF IsPartial
<1>4. EntryMatches(outBuffer[n], h, waiting[n][h])
  BY <1>1 DEF QueuedOnce, QueueMatches
<1> QED  BY <1>1, <1>3, <1>4 DEF Entry

\* Queueing again the packets that are due and not given up, and dropping the
\* others from waiting, keeps the queue and the map consistent.
LEMMA RequeueMatches ==
  ASSUME TypeOK, QueuedOnce, NEW n \in Node, NEW due \in SUBSET Sent(n),
         NEW lost \in SUBSET due, NEW again \in Ordered(due \ lost)
  PROVE  LET r == [i \in DOMAIN again |-> waiting[n][again[i]].pkt]
         IN r \in Seq(Packet) /\ QueueMatches(outBuffer[n] \o r, Requeued(n, due, lost))
<1> DEFINE q == outBuffer[n]
           w == waiting[n]
           r == [i \in DOMAIN again |-> w[again[i]].pkt]
           v == Requeued(n, due, lost)
<1>1. \A h \in due : /\ h \in DOMAIN w /\ h \in Hash /\ w[h] # NULL
                     /\ w[h] \in [pkt : Packet, attempt : Nat, queued : BOOLEAN]
                     /\ ~w[h].queued /\ EntryMatches(q, h, w[h])
  BY DueEntries
<1>2. due \ lost \in SUBSET Hash
  BY <1>1
<1>3. /\ again \in Seq(due \ lost) /\ DOMAIN again = 1 .. Len(again) /\ Len(again) \in Nat
      /\ \A h \in due \ lost : \E i \in DOMAIN again : again[i] = h
      /\ \A i, j \in DOMAIN again : again[i] = again[j] => i = j
  BY <1>2, OrderedProperties
<1>4. \A i \in DOMAIN again : again[i] \in due /\ again[i] \notin lost
  BY <1>3, ElementOfSeq
<1>5. q \in Seq(Packet) /\ QueueMatches(q, w)
  BY DEF TypeOK, SenderTypeOK, QueuedOnce
<1>6. /\ DOMAIN r = DOMAIN again
      /\ \A i \in DOMAIN r : r[i] = w[again[i]].pkt
  OBVIOUS
<1>7. r \in Seq(Packet)
  <2>1. \A i \in 1 .. Len(again) : w[again[i]].pkt \in Packet
    BY <1>1, <1>3, <1>4
  <2>2. r \in [1 .. Len(again) -> Packet]
    BY <1>3, <2>1
  <2> QED  BY <1>3, <2>2, SeqDef
<1> HIDE DEF r
<1>8. \A i \in DOMAIN r : IsUnicastData(r[i]) /\ getHash(r[i]) = again[i]
  BY <1>1, <1>4, <1>6 DEF EntryMatches
<1>9. AtMostOnce(r)
  BY <1>3, <1>6, <1>8 DEF AtMostOnce
<1>10. ASSUME NEW i \in DOMAIN q, NEW j \in DOMAIN r, IsUnicastData(q[i])
       PROVE  getHash(q[i]) # getHash(r[j])
  <2>1. SUFFICES ASSUME getHash(q[i]) = getHash(r[j]) PROVE FALSE
    OBVIOUS
  <2>2. EntryMatches(q, again[j], w[again[j]]) /\ ~w[again[j]].queued
    BY <1>1, <1>4, <1>6
  <2>3. q[i] = w[again[j]].pkt
    BY <1>8, <1>10, <2>1, <2>2 DEF EntryMatches
  <2> QED  BY <2>2, <2>3 DEF EntryMatches
<1>11. AtMostOnce(q \o r)
  BY <1>5, <1>7, <1>9, <1>10, ConcatAtMostOnce DEF QueueMatches
<1>12. ASSUME NEW g \in DOMAIN v, v[g] # NULL
       PROVE  EntryMatches(q \o r, g, v[g])
  <2>1. /\ g \in DOMAIN w /\ g \notin lost
        /\ v[g] = IF g \in due THEN [w[g] EXCEPT !.queued = TRUE] ELSE w[g]
    BY DEF Requeued
  <2>2. CASE g \in due
    <3> DEFINE e == [w[g] EXCEPT !.queued = TRUE]
               s == q \o r
    <3>1. e.pkt = w[g].pkt /\ e.queued
      BY <1>1, <2>2
    <3>2. EntryMatches(q, g, w[g])
      BY <1>1, <2>2
    <3>3. /\ \A i \in DOMAIN s : \/ i \in DOMAIN q /\ s[i] = q[i]
                                 \/ i - Len(q) \in DOMAIN r /\ s[i] = r[i - Len(q)]
          /\ \A i \in DOMAIN r : i + Len(q) \in DOMAIN s /\ s[i + Len(q)] = r[i]
      BY <1>5, <1>7, ConcatElements
    <3>4. PICK j \in DOMAIN r : r[j] = w[g].pkt
      BY <1>3, <1>6, <2>1, <2>2
    <3>5. \A i \in DOMAIN r : getHash(r[i]) = g => r[i] = w[g].pkt
      BY <1>6, <1>8
    <3> HIDE DEF e, s
    <3>6. \E i \in DOMAIN s : s[i] = e.pkt
      BY <3>1, <3>3, <3>4
    <3>7. \A i \in DOMAIN s : IsUnicastData(s[i]) /\ getHash(s[i]) = g => s[i] = e.pkt
      BY <3>1, <3>2, <3>3, <3>5 DEF EntryMatches
    <3>8. EntryMatches(s, g, e)
      BY <3>1, <3>2, <3>6, <3>7 DEF EntryMatches
    <3> QED  BY <3>8, <2>1, <2>2 DEF s, e
  <2>3. CASE g \notin due
    <3>1. EntryMatches(q, g, w[g])
      BY <1>5, <1>12, <2>1, <2>3 DEF QueueMatches
    <3>2. \A j \in DOMAIN r : getHash(r[j]) # g
      BY <1>4, <1>6, <1>8, <2>3
    <3>3. EntryMatches(q \o r, g, w[g])
      BY <1>5, <1>7, <3>1, <3>2, ConcatEntry
    <3> QED  BY <3>3, <2>1, <2>3
  <2> QED  BY <2>2, <2>3
<1>13. QueueMatches(q \o r, v)
  BY <1>11, <1>12 DEF QueueMatches
<1> QED  BY <1>7, <1>13 DEF r

\* The destinations reported for the packets that are given up.
LEMMA GoneDestinations ==
  ASSUME TypeOK, QueuedOnce, NEW n \in Node, NEW due \in SUBSET Sent(n),
         NEW lost \in SUBSET due, NEW gone \in Ordered(lost), NEW cap \in Int
  PROVE  SubSeq([i \in DOMAIN gone |-> waiting[n][gone[i]].pkt.destination],
                1, Min({Len(gone), cap})) \in Seq(Node)
<1> DEFINE d == [i \in DOMAIN gone |-> waiting[n][gone[i]].pkt.destination]
           k == Min({Len(gone), cap})
<1>1. \A h \in due : /\ h \in Hash
                     /\ waiting[n][h].pkt \in Packet /\ IsUnicastData(waiting[n][h].pkt)
  BY DueEntries DEF EntryMatches
<1>2. lost \in SUBSET Hash
  BY <1>1
<1>3. gone \in Seq(lost) /\ DOMAIN gone = 1 .. Len(gone) /\ Len(gone) \in Nat
  BY <1>2, OrderedProperties
<1>4. \A i \in 1 .. Len(gone) : d[i] \in Node
  <2>1. ASSUME NEW i \in 1 .. Len(gone) PROVE gone[i] \in due
    BY <1>3, ElementOfSeq
  <2> QED  BY <1>1, <1>3, <2>1 DEF Packet, IsUnicastData
<1>5. k \in Int /\ k <= Len(gone)
  <2>1. \E x \in {Len(gone), cap} : \A y \in {Len(gone), cap} : x <= y
    <3>1. Len(gone) <= cap \/ cap <= Len(gone)
      BY <1>3
    <3> QED  BY <3>1, <1>3
  <2>2. k \in {Len(gone), cap} /\ \A y \in {Len(gone), cap} : k <= y
    BY <2>1 DEF Min
  <2> QED  BY <2>2, <1>3
<1> HIDE DEF d, k
<1>6. \A i \in 1 .. k : d[i] \in Node
  BY <1>3, <1>4, <1>5
<1>7. SubSeq(d, 1, k) \in Seq(Node)
  BY <1>5, <1>6, SubSeqProperties
<1> QED  BY <1>7 DEF d, k

\* Dropping receive records keeps the receiver's types.
LEMMA ForgetTypes ==
  ASSUME TypeOK, NEW n \in Node, NEW old,
         receive_buffer' = [receive_buffer EXCEPT ![n] = Erase(@, old)],
         NEW x \in SUBSET got[n], expired' = [expired EXCEPT ![n] = @ \cup x],
         UNCHANGED <<inBuffer, got>>
  PROVE  ReceiverTypeOK'
<1> DEFINE b == Erase(receive_buffer[n], old)
<1>1. /\ DOMAIN b \subseteq DOMAIN receive_buffer[n]
      /\ \A k \in DOMAIN b : b[k] = receive_buffer[n][k]
  BY DEF Erase
<1> HIDE DEF b
<1>2. receive_buffer' = [receive_buffer EXCEPT ![n] = b]
  BY DEF b
<1>3. DOMAIN receive_buffer' = Node
  BY <1>2 DEF TypeOK, ReceiverTypeOK
<1>4. \A l \in Node : /\ DOMAIN receive_buffer'[l] \subseteq Node \X SeqNumber
                      /\ \A k \in DOMAIN receive_buffer'[l] : IsRecord(receive_buffer'[l][k])
  <2>1. \A l \in Node : receive_buffer'[l] = IF l = n THEN b ELSE receive_buffer[l]
    BY <1>2 DEF TypeOK, ReceiverTypeOK
  <2> QED  BY <1>1, <2>1 DEF TypeOK, ReceiverTypeOK
<1>5. expired' \in [Node -> SUBSET (Node \X Nat)]
  BY DEF TypeOK, ReceiverTypeOK
<1> QED  BY <1>3, <1>4, <1>5 DEF TypeOK, ReceiverTypeOK

\* The history counts one event for each packet that is given up.
LEMMA TimedOutTypes ==
  ASSUME TypeOK, NEW n \in Node, NEW lost \in SUBSET Hash
  PROVE  TimedOutIn(n, lost) \in Seq(LogEntry)
<1>1. /\ log[n] \in Seq(LogEntry) /\ Len(log[n]) \in Nat
      /\ DOMAIN log[n] = 1 .. Len(log[n])
  BY LenProperties DEF TypeOK, SenderTypeOK
<1>2. ASSUME NEW i \in 1 .. Len(log[n])
      PROVE  [log[n][i] EXCEPT !.timeouts =
                @ + Cardinality({h \in lost : waiting[n][h].pkt.msg = i})] \in LogEntry
  <2> DEFINE C == {h \in lost : waiting[n][h].pkt.msg = i}
  <2>1. Cardinality(C) \in Nat
    BY HashFinite, FS_Subset, FS_CardinalityType
  <2>2. log[n][i] \in LogEntry
    BY <1>1, ElementOfSeq
  <2> HIDE DEF C
  <2>3. [log[n][i] EXCEPT !.timeouts = @ + Cardinality(C)] \in LogEntry
    BY <2>1, <2>2 DEF LogEntry
  <2> QED  BY <2>3 DEF C
<1>3. TimedOutIn(n, lost) \in [1 .. Len(log[n]) -> LogEntry]
  BY <1>1, <1>2 DEF TimedOutIn
<1> QED  BY <1>1, <1>3, SeqDef

\* idleTick: packets that are due are queued once more or given up, never both, and
\* not beyond MaxAttempt.
LEMMA IdleTickPreserves ==
  ASSUME IInv, NEW n \in Node, IdleTick(n)
  PROVE  IInv'
<1> DEFINE w == waiting[n]
<1>0. /\ TypeOK /\ SenderTypeOK /\ NoLostWakeup /\ QueuedOnce /\ AttemptsBounded
      /\ outBuffer \in [Node -> Seq(Packet)]
  BY DEF IInv, TypeOK, SenderTypeOK
<1>1. PICK due \in SUBSET Sent(n), old \in SUBSET DOMAIN receive_buffer[n] :
        LET lost == {h \in due : Exhausted(n, h)}
        IN /\ due \cup old # {}
           /\ \E again \in Ordered(due \ lost), gone \in Ordered(lost) :
                /\ Enqueue(n, [i \in DOMAIN again |-> waiting[n][again[i]].pkt])
                /\ disconnected_destination' = [disconnected_destination EXCEPT ![n] =
                     @ \o SubSeq([i \in DOMAIN gone |-> waiting[n][gone[i]].pkt.destination],
                                 1, Min({Len(gone), DisconnectedCap - Len(@)}))]
           /\ waiting' = [waiting EXCEPT ![n] = Requeued(n, due, lost)]
           /\ waiting_for_ack' = [waiting_for_ack EXCEPT ![n] = Erase(@, GivenUp(lost))]
           /\ log' = [log EXCEPT ![n] = TimedOutIn(n, lost)]
           /\ receive_buffer' = [receive_buffer EXCEPT ![n] = Erase(@, old)]
           /\ expired' = [expired EXCEPT ![n] = @ \cup
                {m \in got[n] : <<m[1], log[m[1]][m[2]].seq>> \in old}]
           /\ UNCHANGED <<seq_number, failVars, rx, inBuffer, got>>
  BY DEF IdleTick
<1> DEFINE lost == {h \in due : Exhausted(n, h)}
<1>2. lost \in SUBSET due
  OBVIOUS
<1>3. /\ waiting' = [waiting EXCEPT ![n] = Requeued(n, due, lost)]
      /\ waiting_for_ack' = [waiting_for_ack EXCEPT ![n] = Erase(@, GivenUp(lost))]
      /\ log' = [log EXCEPT ![n] = TimedOutIn(n, lost)]
      /\ receive_buffer' = [receive_buffer EXCEPT ![n] = Erase(@, old)]
      /\ expired' = [expired EXCEPT ![n] = @ \cup
           {m \in got[n] : <<m[1], log[m[1]][m[2]].seq>> \in old}]
      /\ UNCHANGED <<seq_number, failVars, rx, inBuffer, got>>
  BY <1>1
<1>4. PICK again \in Ordered(due \ lost), gone \in Ordered(lost) :
        /\ Enqueue(n, [i \in DOMAIN again |-> waiting[n][again[i]].pkt])
        /\ disconnected_destination' = [disconnected_destination EXCEPT ![n] =
             @ \o SubSeq([i \in DOMAIN gone |-> waiting[n][gone[i]].pkt.destination],
                         1, Min({Len(gone), DisconnectedCap - Len(@)}))]
  BY <1>1
<1>5. \A h \in lost : Exhausted(n, h)
  OBVIOUS
<1>6. \A h \in due : h \notin lost => ~Exhausted(n, h)
  OBVIOUS
<1> HIDE DEF lost
<1> DEFINE r == [i \in DOMAIN again |-> waiting[n][again[i]].pkt]
           v == Requeued(n, due, lost)
<1>7. r \in Seq(Packet) /\ QueueMatches(outBuffer[n] \o r, v)
  BY <1>0, <1>2, RequeueMatches
<1>8. Enqueue(n, r)
  BY <1>4
<1> HIDE DEF r
<1>9. /\ outBuffer' \in [Node -> Seq(Packet)]
      /\ ready' \in [Node -> Nat]
      /\ NoLostWakeup'
  <2>1. ready \in [Node -> Nat] /\ radioErrors \in [Node -> Nat] /\ UNCHANGED radioErrors
    BY <1>0, <1>3 DEF TypeOK, SenderTypeOK, failVars
  <2> QED  BY <1>0, <1>7, <1>8, <2>1, EnqueueWakes
<1>10. IsPartial(v, Hash, Entry) /\ DOMAIN v \subseteq DOMAIN w
  <2>1. IsPartial(w, Hash, Entry)
    BY <1>0 DEF SenderTypeOK
  <2>2. \A h \in due : [w[h] EXCEPT !.queued = TRUE] \in Entry
    <3>1. \A h \in due : w[h] \in [pkt : Packet, attempt : Nat, queued : BOOLEAN]
      BY <1>0, DueEntries
    <3> QED  BY <3>1 DEF Entry
  <2> QED  BY <2>1, <2>2 DEF IsPartial, Requeued
<1>11. \A h \in DOMAIN v : v[h] # NULL => /\ v[h].attempt <= MaxAttempt
                                          /\ v[h].queued => v[h].attempt < MaxAttempt
  <2>1. ASSUME NEW h \in DOMAIN v, v[h] # NULL
        PROVE  /\ v[h].attempt <= MaxAttempt
               /\ v[h].queued => v[h].attempt < MaxAttempt
    <3>1. /\ h \in DOMAIN w /\ h \notin lost
          /\ v[h] = IF h \in due THEN [w[h] EXCEPT !.queued = TRUE] ELSE w[h]
      BY DEF Requeued
    <3>2. CASE h \notin due
      BY <1>0, <2>1, <3>1, <3>2 DEF AttemptsBounded
    <3>3. CASE h \in due
      <4>1. w[h] \in [pkt : Packet, attempt : Nat, queued : BOOLEAN] /\ w[h] # NULL
        BY <1>0, <3>3, DueEntries
      <4>2. v[h].attempt = w[h].attempt
        BY <3>1, <3>3, <4>1
      <4>3. ~(w[h].attempt >= MaxAttempt)
        BY <1>6, <3>1, <3>3 DEF Exhausted
      <4> QED  BY <4>1, <4>2, <4>3, BoundAssumption
    <3> QED  BY <3>2, <3>3
  <2> QED  BY <2>1
<1> HIDE DEF v
<1>12. /\ DOMAIN waiting' = Node
       /\ \A l \in Node : waiting'[l] = IF l = n THEN v ELSE waiting[l]
       /\ \A l \in Node : outBuffer'[l] = IF l = n THEN outBuffer[n] \o r ELSE outBuffer[l]
  BY <1>0, <1>3, <1>8 DEF SenderTypeOK, Enqueue, v
<1>13. disconnected_destination' \in [Node -> Seq(Node)]
  <2> DEFINE k == DisconnectedCap - Len(disconnected_destination[n])
             d == SubSeq([i \in DOMAIN gone |-> waiting[n][gone[i]].pkt.destination],
                         1, Min({Len(gone), k}))
  <2>1. disconnected_destination[n] \in Seq(Node)
    BY <1>0 DEF SenderTypeOK
  <2>2. k \in Int
    BY <2>1, BoundAssumption, LenProperties
  <2> HIDE DEF k
  <2>3. d \in Seq(Node)
    BY <1>0, <1>2, <2>2, GoneDestinations
  <2>4. disconnected_destination' = [disconnected_destination EXCEPT ![n] = @ \o d]
    BY <1>4 DEF k
  <2> HIDE DEF d
  <2>5. disconnected_destination[n] \o d \in Seq(Node)
    BY <2>1, <2>3, ConcatProperties
  <2> QED  BY <1>0, <2>4, <2>5 DEF SenderTypeOK
<1>14. log' \in [Node -> Seq(LogEntry)]
  <2>1. \A h \in due : h \in Hash
    BY <1>0, DueEntries
  <2>2. TimedOutIn(n, lost) \in Seq(LogEntry)
    BY <1>0, <1>2, <2>1, TimedOutTypes
  <2> QED  BY <1>0, <1>3, <2>2 DEF SenderTypeOK
<1>15. /\ DOMAIN waiting_for_ack' = Node
       /\ \A l \in Node : IsPartial(waiting_for_ack'[l], SeqNumber, Count)
  <2>1. IsPartial(Erase(waiting_for_ack[n], GivenUp(lost)), SeqNumber, Count)
    BY <1>0, ErasePartial DEF SenderTypeOK
  <2> QED  BY <1>0, <1>3, <2>1 DEF SenderTypeOK
<1>16. SenderTypeOK'
  BY <1>0, <1>3, <1>9, <1>10, <1>12, <1>13, <1>14, <1>15 DEF SenderTypeOK
<1>17. ReceiverTypeOK'
  <2> DEFINE x == {m \in got[n] : <<m[1], log[m[1]][m[2]].seq>> \in old}
  <2>1. x \in SUBSET got[n] /\ expired' = [expired EXCEPT ![n] = @ \cup x]
    BY <1>3
  <2> HIDE DEF x
  <2> QED  BY <1>0, <1>3, <2>1, ForgetTypes
<1>18. TypeOK'
  BY <1>0, <1>3, <1>16, <1>17 DEF TypeOK, failVars
<1>19. QueuedOnce'
  BY <1>0, <1>7, <1>12 DEF QueuedOnce
<1>20. AttemptsBounded'
  BY <1>0, <1>11, <1>12 DEF AttemptsBounded
<1> QED  BY <1>9, <1>18, <1>19, <1>20 DEF IInv

\* recv takes a message from inBuffer only.
LEMMA RecvPreserves ==
  ASSUME IInv, NEW n \in Node, Recv(n)
  PROVE  IInv'
<1>0. TypeOK /\ SenderTypeOK /\ ReceiverTypeOK
      /\ NoLostWakeup /\ QueuedOnce /\ AttemptsBounded
  BY DEF IInv, TypeOK
<1>1. /\ inBuffer[n] # <<>> /\ inBuffer' = [inBuffer EXCEPT ![n] = Tail(@)]
      /\ UNCHANGED <<bufferVars, receive_buffer, got, expired, failVars,
                     disconnected_destination, rx, log>>
  BY DEF Recv
<1>2. ASSUME NEW l \in Node
      PROVE  /\ inBuffer'[l] \in Seq(ToSet(inBuffer'[l]))
             /\ \A m \in ToSet(inBuffer'[l]) : IsMessage(m)
  <2>1. /\ inBuffer[l] \in Seq(ToSet(inBuffer[l]))
        /\ \A m \in ToSet(inBuffer[l]) : IsMessage(m)
    BY <1>0 DEF ReceiverTypeOK
  <2>2. CASE l = n
    <3>1. inBuffer'[l] = Tail(inBuffer[l])
      BY <1>0, <1>1, <2>2 DEF ReceiverTypeOK
    <3>2. /\ Tail(inBuffer[l]) \in Seq(ToSet(Tail(inBuffer[l])))
          /\ ToSet(Tail(inBuffer[l])) \subseteq ToSet(inBuffer[l])
      BY <1>1, <2>1, <2>2, OwnElements
    <3> QED  BY <2>1, <3>1, <3>2
  <2>3. CASE l # n
    <3>1. inBuffer'[l] = inBuffer[l]
      BY <1>0, <1>1, <2>3 DEF ReceiverTypeOK
    <3> QED  BY <2>1, <3>1
  <2> QED  BY <2>2, <2>3
<1>3. ReceiverTypeOK'
  BY <1>0, <1>1, <1>2 DEF ReceiverTypeOK
<1>4. SenderTypeOK'
  BY <1>0, <1>1 DEF SenderTypeOK, bufferVars
<1>5. TypeOK'
  BY <1>0, <1>1, <1>3, <1>4 DEF TypeOK, failVars
<1>6. NoLostWakeup' /\ QueuedOnce' /\ AttemptsBounded'
  BY <1>0, <1>1 DEF NoLostWakeup, QueuedOnce, AttemptsBounded, bufferVars, failVars
<1> QED  BY <1>5, <1>6 DEF IInv

\* get_disconnected_destination takes a destination from its queue only.
LEMMA GetDisconnectedDestinationPreserves ==
  ASSUME IInv, NEW n \in Node, GetDisconnectedDestination(n)
  PROVE  IInv'
<1>0. TypeOK /\ SenderTypeOK /\ NoLostWakeup /\ QueuedOnce /\ AttemptsBounded
  BY DEF IInv, TypeOK
<1>1. /\ disconnected_destination[n] # <<>>
      /\ disconnected_destination' = [disconnected_destination EXCEPT ![n] = Tail(@)]
      /\ UNCHANGED <<bufferVars, recvVars, failVars, rx, log>>
  BY DEF GetDisconnectedDestination
<1>2. disconnected_destination' \in [Node -> Seq(Node)]
  <2>1. Tail(disconnected_destination[n]) \in Seq(Node)
    BY <1>0, <1>1, HeadTailProperties DEF SenderTypeOK
  <2> QED  BY <1>0, <1>1, <2>1 DEF SenderTypeOK
<1>3. ReceiverTypeOK'
  BY <1>0, <1>1, ReceiverUnchanged
<1>4. SenderTypeOK'
  BY <1>0, <1>1, <1>2 DEF SenderTypeOK, bufferVars
<1>5. TypeOK'
  BY <1>0, <1>1, <1>3, <1>4 DEF TypeOK, failVars
<1>6. NoLostWakeup' /\ QueuedOnce' /\ AttemptsBounded'
  BY <1>0, <1>1 DEF NoLostWakeup, QueuedOnce, AttemptsBounded, bufferVars, failVars
<1> QED  BY <1>5, <1>6 DEF IInv

\* A restart empties everything but the air.
LEMMA RestartPreserves ==
  ASSUME IInv, NEW n \in Node, Restart(n)
  PROVE  IInv'
<1>0. TypeOK /\ SenderTypeOK /\ ReceiverTypeOK
      /\ NoLostWakeup /\ QueuedOnce /\ AttemptsBounded
  BY DEF IInv, TypeOK
<1>1. /\ restarts' = [restarts EXCEPT ![n] = @ + 1]
      /\ seq_number' = [seq_number EXCEPT ![n] = InitSeq]
      /\ outBuffer' = [outBuffer EXCEPT ![n] = <<>>]
      /\ waiting' = [waiting EXCEPT ![n] = <<>>]
      /\ waiting_for_ack' = [waiting_for_ack EXCEPT ![n] = <<>>]
      /\ ready' = [ready EXCEPT ![n] = 0]
      /\ receive_buffer' = [receive_buffer EXCEPT ![n] = <<>>]
      /\ inBuffer' = [inBuffer EXCEPT ![n] = <<>>]
      /\ expired' = [expired EXCEPT ![n] = got[n]]
      /\ disconnected_destination' = [disconnected_destination EXCEPT ![n] = <<>>]
      /\ rx' = [rx EXCEPT ![n] = <<>>]
      /\ UNCHANGED <<radioErrors, log, got>>
  BY DEF Restart
<1>2. SenderTypeOK'
  <2>1. InitSeq \in SeqNumber
    BY SeqAssumption DEF SeqNumber
  <2>2. IsPartial(<<>>, Hash, Entry) /\ IsPartial(<<>>, SeqNumber, Count)
    BY DEF IsPartial
  <2>3. <<>> \in Seq(Packet) /\ <<>> \in Seq(Node)
    BY EmptySeq
  <2> QED  BY <1>0, <1>1, <2>1, <2>2, <2>3 DEF SenderTypeOK
<1>3. ReceiverTypeOK'
  <2>1. <<>> \in Seq(ToSet(<<>>)) /\ ToSet(<<>>) = {} /\ DOMAIN <<>> = {}
    BY EmptySeq DEF ToSet
  <2> QED  BY <1>0, <1>1, <2>1 DEF ReceiverTypeOK
<1>4. rx' \in [Node -> Seq(Packet)] /\ restarts' \in [Node -> Nat]
  <2>1. <<>> \in Seq(Packet)
    BY EmptySeq
  <2> QED  BY <1>0, <1>1, <2>1 DEF TypeOK
<1>5. TypeOK'
  BY <1>0, <1>1, <1>2, <1>3, <1>4 DEF TypeOK
<1>6. NoLostWakeup'
  BY <1>0, <1>1 DEF NoLostWakeup, SenderTypeOK
<1>7. QueuedOnce'
  <2>1. QueueMatches(<<>>, <<>>)
    BY DEF QueueMatches, AtMostOnce
  <2> QED  BY <1>0, <1>1, <2>1 DEF QueuedOnce, SenderTypeOK
<1>8. AttemptsBounded'
  BY <1>0, <1>1 DEF AttemptsBounded, SenderTypeOK
<1> QED  BY <1>5, <1>6, <1>7, <1>8 DEF IInv

-----------------------------------------------------------------------------
(* The theorems.                                                           *)

\* A node that boots has empty queues and maps.
LEMMA InitIInv == Init => IInv
<1> SUFFICES ASSUME Init PROVE IInv
  OBVIOUS
<1>1. SenderTypeOK
  <2>1. InitSeq \in SeqNumber
    BY SeqAssumption DEF SeqNumber
  <2>2. IsPartial(<<>>, Hash, Entry) /\ IsPartial(<<>>, SeqNumber, Count)
    BY DEF IsPartial
  <2>3. <<>> \in Seq(Packet) /\ <<>> \in Seq(Node) /\ <<>> \in Seq(LogEntry)
    BY EmptySeq
  <2> QED  BY <2>1, <2>2, <2>3 DEF Init, SenderTypeOK
<1>2. ReceiverTypeOK
  <2>1. <<>> \in Seq(ToSet(<<>>)) /\ ToSet(<<>>) = {} /\ DOMAIN <<>> = {}
    BY EmptySeq DEF ToSet
  <2> QED  BY <2>1 DEF Init, ReceiverTypeOK
<1>3. TypeOK
  <2>1. <<>> \in Seq(Packet)
    BY EmptySeq
  <2> QED  BY <1>1, <1>2, <2>1 DEF Init, TypeOK
<1>4. NoLostWakeup /\ AttemptsBounded
  BY DEF Init, NoLostWakeup, AttemptsBounded
<1>5. QueuedOnce
  <2>1. QueueMatches(<<>>, <<>>)
    BY DEF QueueMatches, AtMostOnce
  <2> QED  BY <2>1 DEF QueuedOnce, Init
<1> QED  BY <1>3, <1>4, <1>5 DEF IInv

\* One step per action, and the stuttering step.
LEMMA NextIInv == IInv /\ [Next]_vars => IInv'
<1> SUFFICES ASSUME IInv, [Next]_vars PROVE IInv'
  OBVIOUS
<1>1. CASE UNCHANGED vars
  <2>1. UNCHANGED <<bufferVars, recvVars, failVars, disconnected_destination, rx, log>>
    BY <1>1 DEF vars
  <2>2. SenderTypeOK'
    BY <2>1 DEF IInv, TypeOK, SenderTypeOK, bufferVars
  <2>3. ReceiverTypeOK'
    BY <2>1, ReceiverUnchanged DEF IInv
  <2>4. TypeOK'
    BY <2>1, <2>2, <2>3 DEF IInv, TypeOK, failVars
  <2>5. NoLostWakeup' /\ QueuedOnce' /\ AttemptsBounded'
    BY <2>1 DEF IInv, NoLostWakeup, QueuedOnce, AttemptsBounded, bufferVars, failVars
  <2> QED  BY <2>4, <2>5 DEF IInv
<1>2. ASSUME NEW n \in Node, Send(n) PROVE IInv'
  BY <1>2, SendPreserves
<1>3. ASSUME NEW n \in Node, SendToRadio(n) PROVE IInv'
  BY <1>3, SendToRadioPreserves
<1>4. ASSUME NEW n \in Node, SendToRadioFails(n) PROVE IInv'
  BY <1>4, SendToRadioFailsPreserves
<1>5. ASSUME NEW n \in Node, SendToRadioIdle(n) PROVE IInv'
  BY <1>5, SendToRadioIdlePreserves
<1>6. ASSUME NEW n \in Node, RecvFromRadio(n) PROVE IInv'
  BY <1>6, RecvDataPreserves, RecvBroadcastPreserves, RecvAckPreserves, RecvOtherPreserves
     DEF RecvFromRadio
<1>7. ASSUME NEW n \in Node, IdleTick(n) PROVE IInv'
  BY <1>7, IdleTickPreserves
<1>8. ASSUME NEW n \in Node, Recv(n) PROVE IInv'
  BY <1>8, RecvPreserves
<1>9. ASSUME NEW n \in Node, GetDisconnectedDestination(n) PROVE IInv'
  BY <1>9, GetDisconnectedDestinationPreserves
<1>10. ASSUME NEW n \in Node, Restart(n) PROVE IInv'
  BY <1>10, RestartPreserves
<1> QED
  BY <1>1, <1>2, <1>3, <1>4, <1>5, <1>6, <1>7, <1>8, <1>9, <1>10 DEF Next, SystemStep

\* The inductive invariant holds in every state.
LEMMA InvariantHolds == Spec => []IInv
  BY InitIInv, NextIInv, PTL DEF Spec

\* The variables of the layer keep their types, whatever the radio loses.
THEOREM TypeCorrect == Spec => []TypeOK
<1>1. IInv => TypeOK
  BY DEF IInv
<1> QED  BY <1>1, InvariantHolds, PTL

\* While packets are queued a READY_TO_SEND event is on the bus, unless the
\* radio refused a datagram: send, sendAck, idleTick, send_to_radio and
\* accomplishAck together never leave the queue asleep.
THEOREM WakeupKept == Spec => []NoLostWakeup
<1>1. IInv => NoLostWakeup
  BY DEF IInv
<1> QED  BY <1>1, InvariantHolds, PTL

\* outBuffer and waiting agree: a packet is queued again exactly while its
\* entry says so, and no unicast packet is in the queue twice, so neither
\* accomplishAck nor idleTick deletes a packet that send_to_radio will read.
THEOREM QueueConsistent == Spec => []QueuedOnce
<1>1. IInv => QueuedOnce
  BY DEF IInv
<1> QED  BY <1>1, InvariantHolds, PTL

\* A packet is retransmitted MaxAttempt times at most.
THEOREM AttemptsKept == Spec => []AttemptsBounded
<1>1. IInv => AttemptsBounded
  BY DEF IInv
<1> QED  BY <1>1, InvariantHolds, PTL
=============================================================================
