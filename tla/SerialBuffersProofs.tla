------------------------ MODULE SerialBuffersProofs -------------------------
(***************************************************************************)
(* Theorems about SerialBuffers, for every value of its constants: the     *)
(* heap counts the handles that the queue, a sleeping handler, the slot    *)
(* and the fibers have, and a handle refers to the bytes it was taken for. *)
(***************************************************************************)
EXTENDS SerialBuffers, SerialComProofs, FiniteSetTheorems

Byte == Nat \cup {Garbage}
Block == [refs : Nat \ {0}, bytes : Seq(Byte)]
Address == Nat \ {0}

HeapOK(h) ==
  /\ IsFiniteSet(DOMAIN h) /\ DOMAIN h \subseteq Address
  /\ h \in [DOMAIN h -> Block]

\* How many handles block x counts; a block that is free counts none.
Refs(h, x) == IF x \in DOMAIN h THEN h[x].refs ELSE 0

One(b) == IF b THEN 1 ELSE 0

\* g is h with one handle of a more, or one less. No other block is touched, and
\* a block that stays keeps its bytes.
Grown(h, g, a) ==
  /\ HeapOK(g)
  /\ \A x : Refs(g, x) = Refs(h, x) + One(x = a)
  /\ \A x \in DOMAIN h : x \in DOMAIN g /\ g[x].bytes = h[x].bytes

Shrunk(h, g, a) ==
  /\ HeapOK(g)
  /\ \A x : Refs(g, x) + One(x = a) = Refs(h, x)
  /\ \A x \in DOMAIN g : x \in DOMAIN h /\ g[x].bytes = h[x].bytes

-----------------------------------------------------------------------------
(* The heap.                                                               *)

\* A block is in use exactly while it counts a handle.
LEMMA InUse ==
  ASSUME NEW h, HeapOK(h)
  PROVE  \A x : Refs(h, x) \in Nat /\ (x \in DOMAIN h <=> Refs(h, x) > 0)
<1> SUFFICES ASSUME NEW x PROVE Refs(h, x) \in Nat /\ (x \in DOMAIN h <=> Refs(h, x) > 0)
  OBVIOUS
<1>1. CASE x \in DOMAIN h
  <2>1. h[x] \in Block
    BY <1>1 DEF HeapOK
  <2> QED  BY <1>1, <2>1 DEF Refs, Block
<1>2. CASE x \notin DOMAIN h
  BY <1>2 DEF Refs
<1> QED  BY <1>1, <1>2

\* malloc gives a block that is free (NewBlock).
LEMMA NewBlockIsFree ==
  ASSUME NEW h, HeapOK(h)
  PROVE  NewBlock(h) \in Address /\ NewBlock(h) \notin DOMAIN h
<1>1. PICK n : n = Cardinality(DOMAIN h)
  OBVIOUS
<1>2. n \in Nat
  BY <1>1, FS_CardinalityType DEF HeapOK
<1>3. \E a \in 1 .. n + 1 : a \notin DOMAIN h
  <2>1. SUFFICES ASSUME 1 .. n + 1 \subseteq DOMAIN h PROVE FALSE
    OBVIOUS
  <2>2. Cardinality(1 .. n + 1) <= n
    BY <1>1, <2>1, FS_Subset DEF HeapOK
  <2>3. Cardinality(1 .. n + 1) = n + 1
    <3>1. 1 \in Int /\ n + 1 \in Int /\ ~(1 > n + 1) /\ (n + 1) - 1 + 1 = n + 1
      BY <1>2
    <3> QED  BY <3>1, FS_Interval
  <2> QED  BY <2>2, <2>3, <1>2
<1>4. NewBlock(h) \in 1 .. n + 1 /\ NewBlock(h) \notin DOMAIN h
  BY <1>1, <1>3 DEF NewBlock
<1> QED  BY <1>2, <1>4 DEF Address

\* The constructor of ManagedBuffer.
LEMMA ConstructGrows ==
  ASSUME NEW h, HeapOK(h), NEW a \in Address, a \notin DOMAIN h, NEW bytes \in Seq(Byte)
  PROVE  Grown(h, Construct(h, a, bytes), a) /\ Construct(h, a, bytes)[a].bytes = bytes
<1>1. PICK e : e = [refs |-> 1, bytes |-> bytes]
  OBVIOUS
<1>2. PICK g : g = Construct(h, a, bytes)
  OBVIOUS
<1>3. e \in Block /\ e.refs = 1 /\ e.bytes = bytes
  BY <1>1 DEF Block
<1>4. g = [x \in DOMAIN h \cup {a} |-> IF x = a THEN e ELSE h[x]]
  BY <1>1, <1>2 DEF Construct, Allocated
<1>5. DOMAIN g = DOMAIN h \cup {a} /\ g[a] = e /\ \A x \in DOMAIN h : g[x] = h[x]
  BY <1>4
<1>6. HeapOK(g)
  <2>1. IsFiniteSet(DOMAIN h \cup {a})
    BY FS_AddElement DEF HeapOK
  <2>2. g \in [DOMAIN g -> Block]
    BY <1>3, <1>4, <1>5 DEF HeapOK
  <2> QED  BY <2>1, <2>2, <1>5 DEF HeapOK
<1>7. ASSUME NEW x PROVE Refs(g, x) = Refs(h, x) + One(x = a)
  <2>1. CASE x = a
    BY <2>1, <1>3, <1>5 DEF Refs, One
  <2>2. CASE x # a
    BY <2>2, <1>5, InUse DEF Refs, One
  <2> QED  BY <2>1, <2>2
<1> QED  BY <1>2, <1>3, <1>5, <1>6, <1>7 DEF Grown

\* One handle less or more of a block that stays.
Counted(h, g, a, k) == a \in DOMAIN h /\ k \in Nat \ {0} /\ g = [h EXCEPT ![a].refs = k]

LEMMA CountChanges ==
  ASSUME NEW h, HeapOK(h), NEW a, NEW k, NEW g, Counted(h, g, a, k)
  PROVE  /\ HeapOK(g) /\ DOMAIN g = DOMAIN h /\ Refs(g, a) = k
         /\ \A x : x # a => Refs(g, x) = Refs(h, x)
         /\ \A x \in DOMAIN h : g[x].bytes = h[x].bytes
<1> USE DEF Counted
<1>1. \A x \in DOMAIN h : h[x] \in Block
  BY DEF HeapOK
<1>2. DOMAIN g = DOMAIN h /\ \A x \in DOMAIN h : x # a => g[x] = h[x]
  BY DEF HeapOK
<1>3. g[a] = [h[a] EXCEPT !.refs = k]
  BY DEF HeapOK
<1>4. g[a] \in Block /\ g[a].refs = k /\ g[a].bytes = h[a].bytes
  BY <1>1, <1>3 DEF Block
<1>5. g \in [DOMAIN g -> Block]
  <2>1. g = [x \in DOMAIN h |-> g[x]]
    BY DEF HeapOK
  <2> QED  BY <1>1, <1>2, <1>4, <2>1
<1>6. HeapOK(g)
  BY <1>2, <1>5 DEF HeapOK
<1> QED  BY <1>2, <1>4, <1>6 DEF Refs

LEMMA CopyGrows ==
  ASSUME NEW h, HeapOK(h), NEW a \in DOMAIN h
  PROVE  Grown(h, Copy(h, a), a)
<1>1. PICK k : k = h[a].refs + 1
  OBVIOUS
<1>2. h[a].refs \in Nat \ {0} /\ k \in Nat \ {0}
  BY <1>1 DEF HeapOK, Block
<1>3. PICK g : g = Copy(h, a)
  OBVIOUS
<1>4. Counted(h, g, a, k)
  BY <1>1, <1>2, <1>3 DEF Copy, Counted
<1>5. /\ HeapOK(g) /\ DOMAIN g = DOMAIN h /\ Refs(g, a) = k
      /\ \A x : x # a => Refs(g, x) = Refs(h, x)
      /\ \A x \in DOMAIN h : g[x].bytes = h[x].bytes
  BY <1>4, CountChanges
<1>6. Refs(h, a) + 1 = k
  BY <1>1 DEF Refs
<1>7. ASSUME NEW x PROVE Refs(g, x) = Refs(h, x) + One(x = a)
  BY <1>5, <1>6, InUse DEF One
<1> QED  BY <1>3, <1>5, <1>7 DEF Grown

\* The destructor: the block is freed with its last handle.
LEMMA DestroyShrinks ==
  ASSUME NEW h, HeapOK(h), NEW a \in DOMAIN h
  PROVE  Shrunk(h, Destroy(h, a), a)
<1>1. PICK k : k = h[a].refs - 1
  OBVIOUS
<1>2. h[a].refs \in Nat \ {0}
  BY DEF HeapOK, Block
<1>3. PICK g : g = Destroy(h, a)
  OBVIOUS
<1>4. CASE h[a].refs = 1
  <2>1. g = [b \in DOMAIN h \ {a} |-> h[b]]
    BY <1>3, <1>4 DEF Destroy
  <2>2. HeapOK(g)
    <3>1. IsFiniteSet(DOMAIN h \ {a})
      BY FS_RemoveElement DEF HeapOK
    <3> QED  BY <2>1, <3>1 DEF HeapOK
  <2>3. ASSUME NEW x PROVE Refs(g, x) + One(x = a) = Refs(h, x)
    BY <2>1, <1>4, InUse DEF Refs, One
  <2> QED  BY <1>3, <2>1, <2>2, <2>3 DEF Shrunk
<1>5. CASE h[a].refs # 1
  <2>1. Counted(h, g, a, k)
    <3>1. k \in Nat \ {0}
      BY <1>1, <1>2, <1>5
    <3> QED  BY <3>1, <1>1, <1>3, <1>5 DEF Destroy, Counted
  <2>2. /\ HeapOK(g) /\ DOMAIN g = DOMAIN h /\ Refs(g, a) = k
        /\ \A x : x # a => Refs(g, x) = Refs(h, x)
        /\ \A x \in DOMAIN h : g[x].bytes = h[x].bytes
    BY <2>1, CountChanges
  <2>3. Refs(h, a) = k + 1
    BY <1>1, <1>2 DEF Refs
  <2>4. ASSUME NEW x PROVE Refs(g, x) + One(x = a) = Refs(h, x)
    BY <2>2, <2>3, InUse DEF One
  <2> QED  BY <1>3, <2>2, <2>4 DEF Shrunk
<1> QED  BY <1>4, <1>5

-----------------------------------------------------------------------------
(* What the actions do to the heap: a function that is called copies a     *)
(* handle and destroys the copy, and what stays is one handle more or less.*)

\* One handle more and one less of the same block is as before.
LEMMA GrownShrunk ==
  ASSUME NEW h, HeapOK(h), NEW g, NEW k, NEW f, NEW a, NEW b,
         Grown(h, g, a), Grown(g, k, b), Shrunk(k, f, b)
  PROVE  Grown(h, f, a)
<1>1. HeapOK(g) /\ HeapOK(k) /\ HeapOK(f)
  BY DEF Grown, Shrunk
<1>2. ASSUME NEW x PROVE Refs(f, x) = Refs(g, x)
  <2>1. Refs(f, x) \in Nat /\ Refs(g, x) \in Nat
    BY <1>1, InUse
  <2>2. Refs(f, x) + One(x = b) = Refs(g, x) + One(x = b)
    BY DEF Grown, Shrunk
  <2> QED  BY <2>1, <2>2 DEF One
<1>3. DOMAIN f = DOMAIN g
  <2>1. \A x : x \in DOMAIN f <=> Refs(f, x) > 0
    BY <1>1, InUse
  <2>2. \A x : x \in DOMAIN g <=> Refs(g, x) > 0
    BY <1>1, InUse
  <2> QED  BY <2>1, <2>2, <1>2
<1>4. \A x : Refs(f, x) = Refs(h, x) + One(x = a)
  BY <1>2 DEF Grown
<1>5. \A x \in DOMAIN h : x \in DOMAIN f /\ f[x].bytes = h[x].bytes
  BY <1>3 DEF Grown, Shrunk
<1> QED  BY <1>1, <1>4, <1>5 DEF Grown

\* What a block is after: in use, and with which bytes.
LEMMA GrownUse ==
  ASSUME NEW h, HeapOK(h), NEW g, NEW a, Grown(h, g, a)
  PROVE  HeapOK(g) /\ a \in DOMAIN g /\ DOMAIN g = DOMAIN h \cup {a}
<1>1. HeapOK(g)
  BY DEF Grown
<1>2. ASSUME NEW x PROVE x \in DOMAIN g <=> x \in DOMAIN h \/ x = a
  <2>1. Refs(g, x) = Refs(h, x) + One(x = a) /\ Refs(h, x) \in Nat
    BY InUse DEF Grown
  <2> QED  BY <2>1, <1>1, InUse DEF One
<1> QED  BY <1>1, <1>2

\* send: a block is constructed, the queue keeps a copy of its handle.
LEMMA SendBuffers ==
  ASSUME NEW h, HeapOK(h), NEW a \in Address, a \notin DOMAIN h, NEW bytes \in Seq(Byte), NEW g,
         g = Destroy(Destroy(Copy(Copy(Construct(h, a, bytes), a), a), a), a)
  PROVE  Grown(h, g, a) /\ g[a].bytes = bytes
<1>1. PICK h1 : h1 = Construct(h, a, bytes)
  OBVIOUS
<1>2. Grown(h, h1, a) /\ h1[a].bytes = bytes /\ HeapOK(h1) /\ a \in DOMAIN h1
  <2>1. Grown(h, h1, a) /\ h1[a].bytes = bytes
    BY <1>1, ConstructGrows
  <2> QED  BY <2>1, GrownUse
<1>3. PICK h2 : h2 = Copy(h1, a)
  OBVIOUS
<1>4. Grown(h1, h2, a) /\ HeapOK(h2) /\ a \in DOMAIN h2
  <2>1. Grown(h1, h2, a)
    BY <1>2, <1>3, CopyGrows
  <2> QED  BY <2>1, <1>2, <1>3, GrownUse
<1>5. PICK h3 : h3 = Copy(h2, a)
  OBVIOUS
<1>6. Grown(h2, h3, a) /\ HeapOK(h3) /\ a \in DOMAIN h3
  <2>1. Grown(h2, h3, a)
    BY <1>4, <1>5, CopyGrows
  <2> QED  BY <2>1, <1>4, <1>5, GrownUse
<1>7. PICK h4 : h4 = Destroy(h3, a)
  OBVIOUS
<1>8. Shrunk(h3, h4, a) /\ HeapOK(h4)
  BY <1>6, <1>7, DestroyShrinks DEF Shrunk
<1>9. Grown(h1, h4, a) /\ a \in DOMAIN h4
  <2>1. Grown(h1, h4, a)
    BY <1>2, <1>4, <1>6, <1>8, GrownShrunk
  <2> QED  BY <2>1, <1>2, <1>4, <1>6, <1>8, GrownUse
<1>10. g = Destroy(h4, a)
  BY <1>1, <1>3, <1>5, <1>7
<1>11. Shrunk(h4, g, a)
  BY <1>8, <1>9, <1>10, DestroyShrinks
<1>12. Grown(h, g, a)
  BY <1>2, <1>9, <1>11, GrownShrunk
<1>13. a \in DOMAIN g
  BY <1>12, GrownUse
<1>14. g[a].bytes = h4[a].bytes /\ h4[a].bytes = h1[a].bytes
  BY <1>2, <1>9, <1>11, <1>13 DEF Grown, Shrunk
<1> QED  BY <1>2, <1>12, <1>14

\* What a listener keeps: the heap h before the block b was constructed and g
\* after it, x the block whose handle was given up for it, if any.
Moved(h, g, b, s) ==
  /\ HeapOK(g)
  /\ \A x : Refs(g, x) + One(x = s) = Refs(h, x) + One(x = b)
  /\ \A x \in DOMAIN h : x \in DOMAIN g => g[x].bytes = h[x].bytes

\* recv_payload whose listener assigns: the block s loses a handle, b has one.
LEMMA SlotBuffers ==
  ASSUME NEW h, HeapOK(h), NEW b \in Address, b \notin DOMAIN h, NEW bytes \in Seq(Byte),
         NEW s \in DOMAIN h, NEW g,
         g = Destroy(Destroy(Copy(Destroy(Copy(Construct(h, b, bytes), b), s), b), b), b)
  PROVE  Moved(h, g, b, s) /\ g[b].bytes = bytes
<1>0. s # b
  OBVIOUS
<1>1. PICK h1 : h1 = Construct(h, b, bytes)
  OBVIOUS
<1>2. Grown(h, h1, b) /\ h1[b].bytes = bytes /\ HeapOK(h1) /\ b \in DOMAIN h1
  <2>1. Grown(h, h1, b) /\ h1[b].bytes = bytes
    BY <1>1, ConstructGrows
  <2> QED  BY <2>1, GrownUse
<1>3. PICK h2 : h2 = Copy(h1, b)
  OBVIOUS
<1>4. Grown(h1, h2, b) /\ HeapOK(h2) /\ s \in DOMAIN h2
  <2>1. Grown(h1, h2, b)
    BY <1>2, <1>3, CopyGrows
  <2>2. s \in DOMAIN h1 /\ s \in DOMAIN h2
    BY <2>1, <1>2 DEF Grown
  <2> QED  BY <2>1, <2>2 DEF Grown
<1>5. PICK h3 : h3 = Destroy(h2, s)
  OBVIOUS
<1>6. Shrunk(h2, h3, s) /\ HeapOK(h3)
  BY <1>4, <1>5, DestroyShrinks DEF Shrunk
<1>7. \A x : Refs(h3, x) + One(x = s) = Refs(h, x) + One(x = b) + One(x = b)
  BY <1>2, <1>4, <1>6 DEF Grown, Shrunk
<1>8. b \in DOMAIN h3
  <2>1. Refs(h3, b) + One(b = s) = Refs(h, b) + One(b = b) + One(b = b)
    BY <1>7
  <2>2. Refs(h3, b) > 0
    BY <2>1, <1>0, <1>6, InUse DEF One
  <2> QED  BY <2>2, <1>6, InUse
<1>9. PICK h4 : h4 = Copy(h3, b)
  OBVIOUS
<1>10. Grown(h3, h4, b) /\ HeapOK(h4) /\ b \in DOMAIN h4
  <2>1. Grown(h3, h4, b)
    BY <1>6, <1>8, <1>9, CopyGrows
  <2> QED  BY <2>1, <1>6, <1>8, <1>9, GrownUse
<1>11. PICK h5 : h5 = Destroy(h4, b)
  OBVIOUS
<1>12. Shrunk(h4, h5, b) /\ HeapOK(h5)
  BY <1>10, <1>11, DestroyShrinks DEF Shrunk
<1>13. \A x : Refs(h5, x) = Refs(h3, x)
  <2>1. \A x : Refs(h5, x) \in Nat /\ Refs(h3, x) \in Nat
    BY <1>6, <1>12, InUse
  <2>2. ASSUME NEW x PROVE Refs(h5, x) = Refs(h3, x)
    <3>1. Refs(h4, x) = Refs(h3, x) + One(x = b) /\ Refs(h5, x) + One(x = b) = Refs(h4, x)
      BY <1>10, <1>12 DEF Grown, Shrunk
    <3>2. Refs(h5, x) \in Nat /\ Refs(h3, x) \in Nat
      BY <2>1
    <3> QED  BY <3>1, <3>2 DEF One
  <2> QED  BY <2>2
<1>14. DOMAIN h5 = DOMAIN h3
  <2>1. \A x : x \in DOMAIN h5 <=> Refs(h5, x) > 0
    BY <1>12, InUse
  <2>2. \A x : x \in DOMAIN h3 <=> Refs(h3, x) > 0
    BY <1>6, InUse
  <2>3. \A x : x \in DOMAIN h5 <=> x \in DOMAIN h3
    BY <1>13, <2>1, <2>2
  <2> QED  BY <2>3, Zenon
<1>15. \A x \in DOMAIN h3 : h5[x].bytes = h3[x].bytes
  BY <1>10, <1>12, <1>14 DEF Grown, Shrunk
<1>16. g = Destroy(h5, b)
  BY <1>1, <1>3, <1>5, <1>9, <1>11
<1>17. Shrunk(h5, g, b) /\ HeapOK(g)
  BY <1>8, <1>12, <1>14, <1>16, DestroyShrinks DEF Shrunk
<1>18. ASSUME NEW x PROVE Refs(g, x) + One(x = s) = Refs(h, x) + One(x = b)
  <2>1. Refs(g, x) + One(x = b) = Refs(h5, x)
    BY <1>17 DEF Shrunk
  <2>2. Refs(h5, x) + One(x = s) = Refs(h, x) + One(x = b) + One(x = b)
    BY <1>7, <1>13
  <2>3. Refs(g, x) \in Nat /\ Refs(h, x) \in Nat /\ Refs(h5, x) \in Nat
    BY <1>12, <1>17, InUse
  <2> QED  BY <2>1, <2>2, <2>3 DEF One
<1>19. b \in DOMAIN g
  <2>1. Refs(g, b) + One(b = s) = Refs(h, b) + One(b = b)
    BY <1>18
  <2>2. Refs(g, b) > 0
    BY <2>1, <1>0, <1>17, InUse DEF One
  <2> QED  BY <2>2, <1>17, InUse
<1>20. \A x \in DOMAIN g : x \in DOMAIN h1 => g[x].bytes = h1[x].bytes
  BY <1>4, <1>6, <1>14, <1>15, <1>17 DEF Grown, Shrunk
<1>21. \A x \in DOMAIN h : x \in DOMAIN g => g[x].bytes = h[x].bytes
  BY <1>2, <1>20 DEF Grown
<1> QED  BY <1>2, <1>17, <1>18, <1>19, <1>20, <1>21 DEF Moved

\* recv_payload whose listener gives the buffer to a fiber, in a new request
\* whose handle is first one of an empty block c.
LEMMA TaskBuffers ==
  ASSUME NEW h, HeapOK(h), NEW b \in Address, b \notin DOMAIN h, NEW bytes \in Seq(Byte),
         NEW h2, h2 = Copy(Construct(h, b, bytes), b),
         NEW c, c = NewBlock(h2), NEW g,
         g = Destroy(Destroy(Copy(Destroy(Construct(h2, c, <<>>), c), b), b), b)
  PROVE  c # b /\ Grown(h, g, b) /\ g[b].bytes = bytes
<1>1. PICK h1 : h1 = Construct(h, b, bytes)
  OBVIOUS
<1>2. Grown(h, h1, b) /\ h1[b].bytes = bytes /\ HeapOK(h1) /\ b \in DOMAIN h1
  <2>1. Grown(h, h1, b) /\ h1[b].bytes = bytes
    BY <1>1, ConstructGrows
  <2> QED  BY <2>1, GrownUse
<1>3. h2 = Copy(h1, b)
  BY <1>1
<1>4. Grown(h1, h2, b) /\ HeapOK(h2) /\ b \in DOMAIN h2
  <2>1. Grown(h1, h2, b)
    BY <1>2, <1>3, CopyGrows
  <2> QED  BY <2>1, <1>2, <1>3, GrownUse
<1>5. c \in Address /\ c \notin DOMAIN h2
  BY <1>4, NewBlockIsFree
<1>6. <<>> \in Seq(Byte)
  OBVIOUS
<1>7. PICK h3 : h3 = Construct(h2, c, <<>>)
  OBVIOUS
<1>8. Grown(h2, h3, c) /\ HeapOK(h3) /\ c \in DOMAIN h3
  <2>1. Grown(h2, h3, c)
    BY <1>4, <1>5, <1>6, <1>7, ConstructGrows
  <2> QED  BY <2>1, <1>4, <1>5, <1>6, <1>7, GrownUse
<1>9. PICK h4 : h4 = Destroy(h3, c)
  OBVIOUS
<1>10. Shrunk(h3, h4, c) /\ HeapOK(h4)
  BY <1>8, <1>9, DestroyShrinks DEF Shrunk
<1>11. Grown(h1, h4, b) /\ b \in DOMAIN h4
  <2>1. Grown(h1, h4, b)
    BY <1>2, <1>4, <1>8, <1>10, GrownShrunk
  <2> QED  BY <2>1, <1>2, <1>4, <1>8, <1>10, GrownUse
<1>12. PICK h5 : h5 = Copy(h4, b)
  OBVIOUS
<1>13. Grown(h4, h5, b) /\ HeapOK(h5) /\ b \in DOMAIN h5
  <2>1. Grown(h4, h5, b)
    BY <1>10, <1>11, <1>12, CopyGrows
  <2> QED  BY <2>1, <1>10, <1>11, <1>12, GrownUse
<1>14. PICK h6 : h6 = Destroy(h5, b)
  OBVIOUS
<1>15. Shrunk(h5, h6, b) /\ HeapOK(h6)
  BY <1>13, <1>14, DestroyShrinks DEF Shrunk
<1>16. Grown(h1, h6, b) /\ b \in DOMAIN h6
  <2>1. Grown(h1, h6, b)
    BY <1>2, <1>10, <1>11, <1>13, <1>15, GrownShrunk
  <2> QED  BY <2>1, <1>2, <1>10, <1>11, <1>13, <1>15, GrownUse
<1>17. g = Destroy(h6, b)
  BY <1>7, <1>9, <1>12, <1>14
<1>18. Shrunk(h6, g, b)
  BY <1>15, <1>16, <1>17, DestroyShrinks
<1>19. Grown(h, g, b)
  BY <1>2, <1>16, <1>18, GrownShrunk
<1>20. b \in DOMAIN g
  BY <1>19, GrownUse
<1>21. g[b].bytes = h6[b].bytes /\ h6[b].bytes = h1[b].bytes
  BY <1>2, <1>16, <1>18, <1>20 DEF Grown, Shrunk
<1> QED  BY <1>2, <1>4, <1>5, <1>19, <1>21

\* A buffer that no listener keeps.
LEMMA PassedBuffers ==
  ASSUME NEW h, HeapOK(h), NEW b \in Address, b \notin DOMAIN h, NEW p \in Seq(Byte),
         NEW g, g = Destroy(Destroy(Copy(Construct(h, b, p), b), b), b)
  PROVE  /\ HeapOK(g) /\ \A x : Refs(g, x) = Refs(h, x)
         /\ \A x \in DOMAIN h : x \in DOMAIN g /\ g[x].bytes = h[x].bytes
<1>1. PICK h1 : h1 = Construct(h, b, p)
  OBVIOUS
<1>2. Grown(h, h1, b) /\ HeapOK(h1) /\ b \in DOMAIN h1
  <2>1. Grown(h, h1, b)
    BY <1>1, ConstructGrows
  <2> QED  BY <2>1, GrownUse
<1>3. PICK h2 : h2 = Copy(h1, b)
  OBVIOUS
<1>4. Grown(h1, h2, b) /\ HeapOK(h2) /\ b \in DOMAIN h2
  <2>1. Grown(h1, h2, b)
    BY <1>2, <1>3, CopyGrows
  <2> QED  BY <2>1, <1>2, GrownUse
<1>5. PICK h3 : h3 = Destroy(h2, b)
  OBVIOUS
<1>6. Shrunk(h2, h3, b) /\ HeapOK(h3)
  BY <1>4, <1>5, DestroyShrinks DEF Shrunk
<1>7. Grown(h, h3, b) /\ b \in DOMAIN h3
  <2>1. Grown(h, h3, b)
    BY <1>2, <1>4, <1>6, GrownShrunk
  <2> QED  BY <2>1, GrownUse
<1>8. g = Destroy(h3, b)
  BY <1>1, <1>3, <1>5
<1>9. Shrunk(h3, g, b) /\ HeapOK(g)
  BY <1>6, <1>7, <1>8, DestroyShrinks DEF Shrunk
<1>10. ASSUME NEW x PROVE Refs(g, x) = Refs(h, x)
  <2>1. Refs(h, x) \in Nat /\ Refs(g, x) \in Nat
    BY <1>9, InUse
  <2> QED  BY <2>1, <1>7, <1>9 DEF Grown, Shrunk, One
<1>11. DOMAIN g = DOMAIN h
  <2>1. \A x : x \in DOMAIN g <=> Refs(g, x) > 0
    BY <1>9, InUse
  <2>2. \A x : x \in DOMAIN h <=> Refs(h, x) > 0
    BY InUse
  <2> QED  BY <2>1, <2>2, <1>10
<1>12. \A x \in DOMAIN h : x \in DOMAIN g /\ g[x].bytes = h[x].bytes
  BY <1>7, <1>9, <1>11 DEF Grown, Shrunk
<1> QED  BY <1>9, <1>10, <1>12

-----------------------------------------------------------------------------
(* Counting the handles in a sequence.                                     *)

\* The elements of a sequence that stay when the i-th is removed.
Shift(k, i) == IF k < i THEN k ELSE k + 1

\* Of a set of places all but i stay, each perhaps one place further.
LEMMA PlacesLeft ==
  ASSUME NEW n \in Nat, NEW i \in 1 .. n, NEW X \in SUBSET (1 .. n), NEW Y,
         Y = {k \in 1 .. n - 1 : Shift(k, i) \in X}
  PROVE  /\ IsFiniteSet(X) /\ IsFiniteSet(Y)
         /\ Cardinality(X) = Cardinality(Y) + One(i \in X)
         /\ Cardinality(X) \in Nat /\ Cardinality(Y) \in Nat
<1>1. PICK f : f = [k \in Y |-> Shift(k, i)]
  OBVIOUS
<1>2. IsFiniteSet(1 .. n) /\ IsFiniteSet(1 .. n - 1)
  <2>1. n \in Int /\ n - 1 \in Int /\ 1 \in Int
    OBVIOUS
  <2> QED  BY <2>1, FS_Interval
<1>3. IsFiniteSet(X) /\ IsFiniteSet(Y)
  <2>1. X \in SUBSET (1 .. n) /\ Y \in SUBSET (1 .. n - 1)
    OBVIOUS
  <2> QED  BY <2>1, <1>2, FS_Subset
<1>4. f \in Bijection(Y, X \ {i})
  <2>1. \A k \in Y : f[k] = Shift(k, i) /\ k \in Nat /\ k \in 1 .. n - 1
    BY <1>1
  <2>2. f \in [Y -> X \ {i}]
    <3>1. \A k \in Y : Shift(k, i) \in X \ {i}
      BY DEF Shift
    <3> QED  BY <3>1, <1>1
  <2>3. \A k, l \in Y : f[k] = f[l] => k = l
    BY <2>1 DEF Shift
  <2>4. ASSUME NEW x \in X \ {i} PROVE \E k \in Y : f[k] = x
    <3>1. x \in 1 .. n /\ x # i
      OBVIOUS
    <3>2. CASE x < i
      <4>1. Shift(x, i) = x /\ x \in 1 .. n - 1
        BY <3>1, <3>2 DEF Shift
      <4> QED  BY <4>1, <2>1
    <3>3. CASE x > i
      <4>1. x - 1 \in 1 .. n - 1 /\ Shift(x - 1, i) = x
        BY <3>1, <3>3 DEF Shift
      <4> QED  BY <4>1, <2>1
    <3> QED  BY <3>1, <3>2, <3>3
  <2>5. f \in Injection(Y, X \ {i})
    BY <2>2, <2>3 DEF Injection, IsInjective
  <2>6. f \in Surjection(Y, X \ {i})
    BY <2>2, <2>4 DEF Surjection
  <2> QED  BY <2>5, <2>6 DEF Bijection
<1>5. Cardinality(X \ {i}) = Cardinality(Y)
  <2>1. ExistsBijection(Y, X \ {i})
    BY <1>4 DEF ExistsBijection
  <2> QED  BY <2>1, <1>3, FS_Bijection
<1>6. Cardinality(X \ {i}) = IF i \in X THEN Cardinality(X) - 1 ELSE Cardinality(X)
  BY <1>3, FS_RemoveElement
<1>7. Cardinality(X) \in Nat /\ Cardinality(Y) \in Nat
  BY <1>3, FS_CardinalityType
<1> QED  BY <1>3, <1>5, <1>6, <1>7 DEF One

\* The places of an appended element.
LEMMA PlacesMore ==
  ASSUME NEW n \in Nat, NEW X \in SUBSET (1 .. n), NEW Y, NEW b \in BOOLEAN,
         Y = IF b THEN X \cup {n + 1} ELSE X
  PROVE  Cardinality(Y) = Cardinality(X) + One(b)
<1>1. IsFiniteSet(X)
  <2>1. n \in Int /\ 1 \in Int
    OBVIOUS
  <2>2. IsFiniteSet(1 .. n)
    BY <2>1, FS_Interval
  <2> QED  BY <2>2, FS_Subset
<1>2. n + 1 \notin X
  OBVIOUS
<1>3. Cardinality(X \cup {n + 1}) = Cardinality(X) + 1
  BY <1>1, <1>2, FS_AddElement
<1>4. Cardinality(X) \in Nat
  BY <1>1, FS_CardinalityType
<1> QED  BY <1>3, <1>4 DEF One

\* A sequence of handles, or of requests, less one.
LEMMA RemoveAtAt ==
  ASSUME NEW S, NEW q \in Seq(S), NEW i \in 1 .. Len(q)
  PROVE  /\ RemoveAt(q, i) \in Seq(S) /\ Len(RemoveAt(q, i)) = Len(q) - 1
         /\ \A k \in 1 .. Len(q) - 1 : RemoveAt(q, i)[k] = q[Shift(k, i)]
<1>1. Len(q) \in Nat
  BY LenProperties
<1>2. PICK l : l = SubSeq(q, 1, i - 1)
  OBVIOUS
<1>3. PICK r : r = SubSeq(q, i + 1, Len(q))
  OBVIOUS
<1>4. /\ l \in Seq(S) /\ Len(l) = i - 1
      /\ \A k \in 1 .. Len(l) : l[k] = q[1 + k - 1]
  <2>1. i - 1 \in Nat /\ i - 1 <= Len(q) /\ 1 \in Nat /\ 1 >= 1
        /\ (IF 1 <= i - 1 THEN (i - 1) - 1 + 1 ELSE 0) = i - 1
    BY <1>1
  <2> QED  BY <1>2, <2>1, PartAt
<1>5. /\ r \in Seq(S) /\ Len(r) = Len(q) - i
      /\ \A k \in 1 .. Len(r) : r[k] = q[(i + 1) + k - 1]
  <2>1. i + 1 \in Nat /\ Len(q) \in Nat /\ i + 1 >= 1 /\ Len(q) <= Len(q)
        /\ (IF i + 1 <= Len(q) THEN Len(q) - (i + 1) + 1 ELSE 0) = Len(q) - i
    BY <1>1
  <2> QED  BY <1>3, <2>1, PartAt
<1>6. RemoveAt(q, i) = l \o r
  BY <1>2, <1>3 DEF RemoveAt
<1>7. /\ l \o r \in Seq(S) /\ Len(l \o r) = Len(l) + Len(r)
      /\ \A k \in 1 .. Len(l) : (l \o r)[k] = l[k]
      /\ \A k \in 1 .. Len(r) : (l \o r)[Len(l) + k] = r[k]
  <2>1. l \in Seq(S) /\ r \in Seq(S)
    BY <1>4, <1>5
  <2>2. /\ l \o r \in Seq(S) /\ Len(l \o r) = Len(l) + Len(r)
        /\ Len(l) \in Nat /\ Len(r) \in Nat
        /\ \A k \in 1 .. Len(l) : (l \o r)[k] = l[k]
        /\ \A k \in 1 .. Len(r) : (l \o r)[Len(l) + k] = r[k]
    BY <2>1, ConcatProperties, LenProperties
  <2> QED  BY <2>2
<1>8. ASSUME NEW k \in 1 .. Len(q) - 1 PROVE (l \o r)[k] = q[Shift(k, i)]
  <2>1. CASE k < i
    <3>1. k \in 1 .. Len(l) /\ 1 + k - 1 = k
      BY <2>1, <1>4
    <3> QED  BY <3>1, <2>1, <1>4, <1>7 DEF Shift
  <2>2. CASE k >= i
    <3>1. PICK m : m = k - Len(l)
      OBVIOUS
    <3>2. m \in 1 .. Len(r) /\ Len(l) + m = k /\ (i + 1) + m - 1 = k + 1
      BY <3>1, <2>2, <1>1, <1>4, <1>5
    <3>3. (l \o r)[Len(l) + m] = r[m] /\ r[m] = q[(i + 1) + m - 1]
      BY <3>2, <1>5, <1>7
    <3> QED  BY <3>2, <3>3, <2>2 DEF Shift
  <2>3. k \in Nat /\ i \in Nat
    BY <1>1
  <2>4. k < i \/ k >= i
    BY <2>3
  <2> QED  BY <2>1, <2>2, <2>4, Zenon
<1>9. Len(l \o r) = Len(q) - 1
  BY <1>1, <1>4, <1>5, <1>7
<1> QED  BY <1>6, <1>7, <1>8, <1>9, Zenon

\* Where the elements of E are in a sequence, and how many there are.
At(q, E) == {i \in 1 .. Len(q) : q[i] \in E}
Count(q, E) == Cardinality(At(q, E))

LEMMA CountType ==
  ASSUME NEW S, NEW q \in Seq(S), NEW E
  PROVE  /\ IsFiniteSet(At(q, E)) /\ Count(q, E) \in Nat
         /\ \A i \in 1 .. Len(q) : q[i] \in E => Count(q, E) > 0
<1>1. Len(q) \in Int /\ 1 \in Int
  BY LenProperties
<1>2. IsFiniteSet(1 .. Len(q))
  BY <1>1, FS_Interval
<1>3. At(q, E) \in SUBSET (1 .. Len(q))
  BY DEF At
<1>4. IsFiniteSet(At(q, E))
  BY <1>2, <1>3, FS_Subset
<1>5. Count(q, E) \in Nat
  BY <1>4, FS_CardinalityType DEF Count
<1>6. ASSUME NEW i \in 1 .. Len(q), q[i] \in E PROVE Count(q, E) > 0
  <2>1. At(q, E) # {}
    BY <1>6 DEF At
  <2>2. Count(q, E) # 0
    BY <2>1, <1>4, FS_EmptySet DEF Count
  <2> QED  BY <2>2, <1>5
<1> QED  BY <1>4, <1>5, <1>6

LEMMA CountAppend ==
  ASSUME NEW S, NEW q \in Seq(S), NEW e \in S, NEW E
  PROVE  Count(Append(q, e), E) = Count(q, E) + One(e \in E)
<1>1. PICK r : r = Append(q, e)
  OBVIOUS
<1>2. /\ r \in Seq(S) /\ Len(r) = Len(q) + 1 /\ Len(q) \in Nat
      /\ \A i \in 1 .. Len(q) : r[i] = q[i]
      /\ r[Len(q) + 1] = e
  BY <1>1, AppendAt
<1>3. At(r, E) = IF e \in E THEN At(q, E) \cup {Len(q) + 1} ELSE At(q, E)
  <2>1. 1 .. Len(r) = 1 .. Len(q) \cup {Len(q) + 1} /\ Len(q) + 1 \notin 1 .. Len(q)
    BY <1>2
  <2>2. \A i \in 1 .. Len(q) : i \in At(r, E) <=> i \in At(q, E)
    BY <1>2, <2>1 DEF At
  <2>3. Len(q) + 1 \in At(r, E) <=> e \in E
    BY <1>2, <2>1 DEF At
  <2>4. At(r, E) \subseteq 1 .. Len(q) \cup {Len(q) + 1} /\ At(q, E) \subseteq 1 .. Len(q)
    BY <2>1 DEF At
  <2>5. \A i : i \in At(r, E) => i \in 1 .. Len(q) \/ i = Len(q) + 1
    BY <2>4
  <2>6. CASE e \in E
    BY <2>2, <2>3, <2>4, <2>5, <2>6
  <2>7. CASE e \notin E
    <3>1. At(r, E) \subseteq At(q, E)
      BY <2>2, <2>3, <2>5, <2>7
    <3>2. At(q, E) \subseteq At(r, E)
      BY <2>2, <2>4
    <3> QED  BY <3>1, <3>2, <2>7
  <2> QED  BY <2>6, <2>7
<1>4. At(q, E) \in SUBSET (1 .. Len(q)) /\ (e \in E) \in BOOLEAN
  BY DEF At
<1>5. Cardinality(At(r, E)) = Cardinality(At(q, E)) + One(e \in E)
  <2>1. PICK x : x = At(q, E)
    OBVIOUS
  <2>2. PICK y : y = At(r, E)
    OBVIOUS
  <2>3. PICK n \in Nat : n = Len(q)
    BY <1>2
  <2>4. x \in SUBSET (1 .. n) /\ y = IF e \in E THEN x \cup {n + 1} ELSE x
    BY <1>3, <1>4, <2>1, <2>2, <2>3
  <2>5. Cardinality(y) = Cardinality(x) + One(e \in E)
    BY <1>4, <2>4, PlacesMore
  <2> QED  BY <2>1, <2>2, <2>5, Zenon
<1> QED  BY <1>1, <1>5 DEF Count

LEMMA CountLess ==
  ASSUME NEW S, NEW q \in Seq(S), NEW i \in 1 .. Len(q), NEW r \in Seq(S), NEW E,
         Len(r) = Len(q) - 1, \A k \in 1 .. Len(q) - 1 : r[k] = q[Shift(k, i)]
  PROVE  Count(q, E) = Count(r, E) + One(q[i] \in E)
<1>1. PICK n : n = Len(q)
  OBVIOUS
<1>2. n \in Nat /\ i \in 1 .. n /\ Len(r) = n - 1
  BY <1>1, LenProperties
<1>3. \A k \in 1 .. n - 1 : Shift(k, i) \in 1 .. n
  BY <1>2 DEF Shift
<1>4. At(r, E) = {k \in 1 .. n - 1 : Shift(k, i) \in At(q, E)}
  BY <1>1, <1>2, <1>3 DEF At
<1>5. At(q, E) \in SUBSET (1 .. n)
  BY <1>1 DEF At
<1>6. Cardinality(At(q, E)) = Cardinality(At(r, E)) + One(i \in At(q, E))
  <2>1. PICK x : x = At(q, E)
    OBVIOUS
  <2>2. PICK y : y = At(r, E)
    OBVIOUS
  <2>3. x \in SUBSET (1 .. n) /\ y = {k \in 1 .. n - 1 : Shift(k, i) \in x}
    BY <1>4, <1>5, <2>1, <2>2
  <2>4. Cardinality(x) = Cardinality(y) + One(i \in x)
    BY <1>2, <2>3, PlacesLeft
  <2> QED  BY <2>1, <2>2, <2>4, Zenon
<1>7. i \in At(q, E) <=> q[i] \in E
  BY DEF At
<1> QED  BY <1>6, <1>7 DEF Count, One

LEMMA CountRemoveAt ==
  ASSUME NEW S, NEW q \in Seq(S), NEW i \in 1 .. Len(q), NEW E
  PROVE  Count(q, E) = Count(RemoveAt(q, i), E) + One(q[i] \in E)
<1>1. PICK r : r = RemoveAt(q, i)
  OBVIOUS
<1>2. /\ r \in Seq(S) /\ Len(r) = Len(q) - 1
      /\ \A k \in 1 .. Len(q) - 1 : r[k] = q[Shift(k, i)]
  BY <1>1, RemoveAtAt
<1>3. Count(q, E) = Count(r, E) + One(q[i] \in E)
  BY <1>2, CountLess, SMTT(30)
<1> QED  BY <1>1, <1>3

LEMMA CountTail ==
  ASSUME NEW S, NEW q \in Seq(S), q # <<>>, NEW E
  PROVE  Count(q, E) = Count(Tail(q), E) + One(q[1] \in E)
<1>1. PICK r : r = Tail(q)
  OBVIOUS
<1>2. /\ r \in Seq(S) /\ Len(r) = Len(q) - 1 /\ Len(q) \in Nat \ {0}
      /\ \A k \in 1 .. Len(q) - 1 : r[k] = q[k + 1]
  BY <1>1, TailAt
<1>3. 1 \in 1 .. Len(q) /\ \A k \in 1 .. Len(q) - 1 : r[k] = q[Shift(k, 1)]
  BY <1>2 DEF Shift
<1>4. Count(q, E) = Count(r, E) + One(q[1] \in E)
  BY <1>2, <1>3, CountLess
<1> QED  BY <1>1, <1>4

-----------------------------------------------------------------------------
(* The inductive invariant.                                                *)

Task == [buf : Address, payload : Seq(Byte)]
Of(a) == {t \in Task : t.buf = a}

\* The heap h counts the handles of the queue q, the sleeper t, the slot s and
\* the fibers k, and of nobody else.
Holders(q, t, s, k, a) == Count(q, {a}) + One(t = a) + One(s = a) + Count(k, Of(a))

Balanced(h, q, t, s, k) ==
  /\ HeapOK(h) /\ q \in Seq(Address) /\ t \in Nat /\ s \in Address /\ k \in Seq(Task)
  /\ \A a \in Address : Refs(h, a) = Holders(q, t, s, k, a)

\* The handles of q and of k refer to the bytes they were taken for.
Refers(h, q, k, o) ==
  /\ Len(q) = Len(o) /\ \A i \in 1 .. Len(q) : h[q[i]].bytes = o[i].bytes
  /\ \A i \in 1 .. Len(k) : h[k[i].buf].bytes = k[i].payload

\* The handler that sleeps has a handle of the first message.
Sleeper(q, t, n) == (t # 0 <=> n > 0) /\ (t # 0 => q # <<>> /\ t = q[1])

\* The slot s has the last message for it of those delivered, l.
SlotHolds(h, s, l) ==
  /\ (\A i \in 1 .. Len(l) : ~ForSlot(l[i])) => h[s].bytes = <<>>
  /\ \A i \in 1 .. Len(l) :
       ForSlot(l[i]) /\ (\A j \in i + 1 .. Len(l) : ~ForSlot(l[j]))
         => h[s].bytes = l[i].payload

BInv ==
  /\ IInv
  /\ Balanced(heap, queue, toSend, slot, tasks)
  /\ Refers(heap, queue, tasks, out)
  /\ Sleeper(queue, toSend, taken)
  /\ SlotHolds(heap, slot, got)

\* A message delivered for the slot, and another.
LEMMA SlotTakes ==
  ASSUME NEW S, NEW l \in Seq(S), NEW e \in S, ForSlot(e), NEW h, NEW s, h[s].bytes = e.payload
  PROVE  SlotHolds(h, s, Append(l, e))
<1>1. PICK r : r = Append(l, e)
  OBVIOUS
<1>2. /\ Len(r) = Len(l) + 1 /\ Len(l) \in Nat /\ r[Len(l) + 1] = e
  BY <1>1, AppendAt
<1>3. Len(r) \in 1 .. Len(r) /\ ForSlot(r[Len(r)])
  BY <1>2
<1>4. ASSUME NEW i \in 1 .. Len(r), \A j \in i + 1 .. Len(r) : ~ForSlot(r[j]) PROVE r[i] = e
  <2>1. ~(Len(r) \in i + 1 .. Len(r))
    BY <1>3, <1>4
  <2>2. i = Len(l) + 1
    BY <2>1, <1>2
  <2> QED  BY <2>2, <1>2
<1>5. SlotHolds(h, s, r)
  BY <1>3, <1>4 DEF SlotHolds
<1> QED  BY <1>1, <1>5

LEMMA SlotSkips ==
  ASSUME NEW S, NEW l \in Seq(S), NEW e \in S, ~ForSlot(e), NEW h, NEW s, SlotHolds(h, s, l)
  PROVE  SlotHolds(h, s, Append(l, e))
<1>1. PICK r : r = Append(l, e)
  OBVIOUS
<1>2. /\ Len(r) = Len(l) + 1 /\ Len(l) \in Nat /\ r[Len(l) + 1] = e
      /\ \A i \in 1 .. Len(l) : r[i] = l[i] /\ i \in 1 .. Len(r)
  BY <1>1, AppendAt
<1>3. (\A i \in 1 .. Len(r) : ~ForSlot(r[i])) => h[s].bytes = <<>>
  BY <1>2 DEF SlotHolds
<1>4. ASSUME NEW i \in 1 .. Len(r), ForSlot(r[i]), \A j \in i + 1 .. Len(r) : ~ForSlot(r[j])
      PROVE  h[s].bytes = r[i].payload
  <2>1. i # Len(l) + 1
    BY <1>2, <1>4
  <2>2. i \in 1 .. Len(l) /\ r[i] = l[i]
    BY <2>1, <1>2
  <2>3. ASSUME NEW j \in i + 1 .. Len(l) PROVE ~ForSlot(l[j])
    <3>1. j \in 1 .. Len(l) /\ j \in i + 1 .. Len(r)
      BY <1>2
    <3> QED  BY <3>1, <1>2, <1>4
  <2> QED  BY <2>2, <2>3, <1>4 DEF SlotHolds
<1>5. SlotHolds(h, s, r)
  BY <1>3, <1>4 DEF SlotHolds
<1> QED  BY <1>1, <1>5

\* A block that has a holder is in use.
LEMMA HeldIsInUse ==
  ASSUME NEW h, NEW q, NEW t, NEW s, NEW k, Balanced(h, q, t, s, k)
  PROVE  /\ \A i \in 1 .. Len(q) : q[i] \in DOMAIN h /\ q[i] \in Address
         /\ \A i \in 1 .. Len(k) : k[i].buf \in DOMAIN h /\ k[i] \in Task
         /\ s \in DOMAIN h
         /\ t # 0 => t \in DOMAIN h
<1>1. HeapOK(h) /\ q \in Seq(Address) /\ t \in Nat /\ s \in Address /\ k \in Seq(Task)
  BY DEF Balanced
<1>2. \A a : Count(q, {a}) \in Nat /\ Count(k, Of(a)) \in Nat
  BY <1>1, CountType
<1>3. ASSUME NEW a \in Address,
             Count(q, {a}) > 0 \/ Count(k, Of(a)) > 0 \/ t = a \/ s = a
      PROVE  a \in DOMAIN h
  <2>1. Refs(h, a) = Count(q, {a}) + One(t = a) + One(s = a) + Count(k, Of(a))
    BY DEF Balanced, Holders
  <2>2. Refs(h, a) > 0
    BY <1>2, <1>3, <2>1 DEF One
  <2> QED  BY <1>1, <2>2, InUse
<1>4. ASSUME NEW i \in 1 .. Len(q) PROVE q[i] \in DOMAIN h /\ q[i] \in Address
  <2>1. q[i] \in Address
    BY <1>1, ElementOfSeq
  <2>2. q[i] \in {q[i]}
    OBVIOUS
  <2>3. Count(q, {q[i]}) > 0
    BY <1>1, <2>2, CountType
  <2> QED  BY <1>3, <2>1, <2>3
<1>5. ASSUME NEW i \in 1 .. Len(k) PROVE k[i].buf \in DOMAIN h /\ k[i] \in Task
  <2>1. k[i] \in Task
    BY <1>1, ElementOfSeq
  <2>2. k[i].buf \in Address /\ k[i] \in Of(k[i].buf)
    BY <2>1 DEF Task, Of
  <2>3. Count(k, Of(k[i].buf)) > 0
    BY <1>1, <2>2, CountType
  <2> QED  BY <1>3, <2>1, <2>2, <2>3
<1> QED  BY <1>1, <1>3, <1>4, <1>5 DEF Address

\* Only the holders' blocks are in use.
LEMMA BalancedCounts ==
  ASSUME Balanced(heap, queue, toSend, slot, tasks)
  PROVE  CountsHandles
<1>1. /\ HeapOK(heap) /\ queue \in Seq(Address) /\ toSend \in Nat /\ slot \in Address
      /\ tasks \in Seq(Task)
  BY DEF Balanced
<1>2. DOMAIN queue = 1 .. Len(queue) /\ DOMAIN tasks = 1 .. Len(tasks)
  BY <1>1, LenProperties
<1>3. ASSUME NEW a \in DOMAIN heap PROVE heap[a].refs = Handles(a) /\ Handles(a) > 0
  <2>1. a \in Address
    BY <1>1 DEF HeapOK
  <2>2. {i \in DOMAIN queue : queue[i] = a} = At(queue, {a})
    BY <1>2 DEF At
  <2>3. {i \in DOMAIN tasks : tasks[i].buf = a} = At(tasks, Of(a))
    <3>1. \A i \in 1 .. Len(tasks) : tasks[i] \in Task
      BY <1>1, ElementOfSeq
    <3> QED  BY <3>1, <1>2 DEF At, Of
  <2>4. Handles(a) = Holders(queue, toSend, slot, tasks, a)
    BY <2>2, <2>3 DEF Handles, Holders, Count, One
  <2>5. Refs(heap, a) = Handles(a)
    BY <2>1, <2>4 DEF Balanced
  <2>6. Refs(heap, a) = heap[a].refs /\ Refs(heap, a) > 0
    BY <1>1, InUse DEF Refs
  <2> QED  BY <2>5, <2>6
<1>4. /\ \A i \in 1 .. Len(queue) : queue[i] \in DOMAIN heap
      /\ \A i \in 1 .. Len(tasks) : tasks[i].buf \in DOMAIN heap
      /\ slot \in DOMAIN heap /\ toSend \in DOMAIN heap \cup {0}
  BY HeldIsInUse
<1> QED  BY <1>2, <1>3, <1>4 DEF CountsHandles

-----------------------------------------------------------------------------
(* The actions, on the parts of the invariant.                             *)

\* One handle more in the queue.
LEMMA QueueGrows ==
  ASSUME NEW h, NEW q, NEW t, NEW s, NEW k, NEW o \in Seq(OutEntry),
         Balanced(h, q, t, s, k), Refers(h, q, k, o),
         NEW g, NEW a \in Address, Grown(h, g, a), NEW e \in OutEntry, g[a].bytes = e.bytes
  PROVE  Balanced(g, Append(q, a), t, s, k) /\ Refers(g, Append(q, a), k, Append(o, e))
<1>1. /\ HeapOK(h) /\ q \in Seq(Address) /\ t \in Nat /\ s \in Address /\ k \in Seq(Task)
      /\ \A x \in Address : Refs(h, x) = Holders(q, t, s, k, x)
  BY DEF Balanced
<1>2. PICK r : r = Append(q, a)
  OBVIOUS
<1>3. PICK p : p = Append(o, e)
  OBVIOUS
<1>4. /\ r \in Seq(Address) /\ Len(r) = Len(q) + 1 /\ Len(q) \in Nat
      /\ \A i \in 1 .. Len(q) : r[i] = q[i]
      /\ r[Len(q) + 1] = a
  BY <1>1, <1>2, AppendAt
<1>5. /\ Len(p) = Len(o) + 1 /\ \A i \in 1 .. Len(o) : p[i] = o[i]
      /\ p[Len(o) + 1] = e
  BY <1>3, AppendAt
<1>6. ASSUME NEW x \in Address PROVE Refs(g, x) = Holders(r, t, s, k, x)
  <2>1. Refs(g, x) = Refs(h, x) + One(x = a)
    BY DEF Grown
  <2>2. Count(r, {x}) = Count(q, {x}) + One(a \in {x})
    BY <1>1, <1>2, CountAppend
  <2>3. Count(q, {x}) \in Nat /\ Count(k, Of(x)) \in Nat
    BY <1>1, CountType
  <2>4. Refs(h, x) = Holders(q, t, s, k, x)
    BY <1>1
  <2> QED  BY <2>1, <2>2, <2>3, <2>4 DEF Holders, One
<1>7. Balanced(g, r, t, s, k)
  BY <1>1, <1>4, <1>6 DEF Balanced, Grown
<1>8. /\ \A i \in 1 .. Len(q) : q[i] \in DOMAIN h
      /\ \A i \in 1 .. Len(k) : k[i].buf \in DOMAIN h
  BY HeldIsInUse
<1>9. \A x \in DOMAIN h : g[x].bytes = h[x].bytes
  BY DEF Grown
<1>10. /\ Len(q) = Len(o) /\ \A i \in 1 .. Len(q) : h[q[i]].bytes = o[i].bytes
       /\ \A i \in 1 .. Len(k) : h[k[i].buf].bytes = k[i].payload
  BY DEF Refers
<1>11. ASSUME NEW i \in 1 .. Len(r) PROVE g[r[i]].bytes = p[i].bytes
  <2>1. CASE i = Len(q) + 1
    BY <2>1, <1>4, <1>5, <1>10
  <2>2. CASE i # Len(q) + 1
    <3>1. i \in 1 .. Len(q)
      BY <2>2, <1>4
    <3> QED  BY <3>1, <1>4, <1>5, <1>8, <1>9, <1>10
  <2> QED  BY <2>1, <2>2
<1>12. \A i \in 1 .. Len(k) : g[k[i].buf].bytes = k[i].payload
  BY <1>8, <1>9, <1>10
<1>13. Refers(g, r, k, p)
  BY <1>4, <1>5, <1>10, <1>11, <1>12 DEF Refers
<1> QED  BY <1>2, <1>3, <1>7, <1>13

\* Blocks that keep their bytes and their holders.
LEMMA StillRefers ==
  ASSUME NEW h, NEW g, NEW q, NEW k, NEW t, NEW s, NEW o, Refers(h, q, k, o),
         Balanced(g, q, t, s, k), \A x \in DOMAIN g : g[x].bytes = h[x].bytes
  PROVE  Refers(g, q, k, o)
<1>1. /\ \A i \in 1 .. Len(q) : q[i] \in DOMAIN g
      /\ \A i \in 1 .. Len(k) : k[i].buf \in DOMAIN g
  BY HeldIsInUse
<1>2. \A i \in 1 .. Len(q) : h[q[i]].bytes = o[i].bytes
  BY DEF Refers
<1>3. \A i \in 1 .. Len(k) : h[k[i].buf].bytes = k[i].payload
  BY DEF Refers
<1> QED  BY <1>1, <1>2, <1>3 DEF Refers

\* The handler that falls asleep has a handle of its own.
LEMMA SleeperGrows ==
  ASSUME NEW h, NEW q, NEW s, NEW k, NEW o, Balanced(h, q, 0, s, k), Refers(h, q, k, o),
         q # <<>>, NEW g, g = Copy(h, q[1])
  PROVE  /\ Balanced(g, q, q[1], s, k) /\ Refers(g, q, k, o) /\ q[1] # 0
         /\ g[s].bytes = h[s].bytes
<1>1. /\ HeapOK(h) /\ q \in Seq(Address) /\ s \in Address /\ k \in Seq(Task)
      /\ \A x \in Address : Refs(h, x) = Holders(q, 0, s, k, x)
  BY DEF Balanced
<1>2. PICK a : a = q[1]
  OBVIOUS
<1>3. a \in DOMAIN h /\ a \in Address
  <2>1. 1 \in 1 .. Len(q)
    <3>1. Len(q) \in Nat \ {0}
      BY <1>1, TailAt
    <3> QED  BY <3>1
  <2> QED  BY <2>1, <1>2, HeldIsInUse
<1>4. Grown(h, g, a)
  BY <1>1, <1>2, <1>3, CopyGrows
<1>5. a \in Nat /\ a # 0
  BY <1>3 DEF Address
<1>6. ASSUME NEW x \in Address PROVE Refs(g, x) = Holders(q, a, s, k, x)
  <2>1. Refs(g, x) = Refs(h, x) + One(x = a)
    BY <1>4 DEF Grown
  <2>2. Refs(h, x) = Holders(q, 0, s, k, x)
    BY <1>1
  <2>3. x # 0
    BY DEF Address
  <2>4. Count(q, {x}) \in Nat /\ Count(k, Of(x)) \in Nat
    BY <1>1, CountType
  <2> QED  BY <2>1, <2>2, <2>3, <2>4 DEF Holders, One
<1>7. Balanced(g, q, a, s, k)
  BY <1>1, <1>4, <1>5, <1>6 DEF Balanced, Grown
<1>8. DOMAIN g = DOMAIN h
  <2>1. DOMAIN g = DOMAIN h \cup {a}
    BY <1>1, <1>4, GrownUse
  <2> QED  BY <2>1, <1>3
<1>9. \A x \in DOMAIN g : g[x].bytes = h[x].bytes
  BY <1>4, <1>8 DEF Grown
<1>10. Refers(g, q, k, o)
  BY <1>7, <1>9, StillRefers
<1>11. g[s].bytes = h[s].bytes
  BY <1>7, <1>9, HeldIsInUse
<1> QED  BY <1>2, <1>5, <1>7, <1>10, <1>11

\* The handler that wakes destroys it.
LEMMA SleeperShrinks ==
  ASSUME NEW h, NEW q, NEW t, NEW s, NEW k, NEW o, Balanced(h, q, t, s, k),
         Refers(h, q, k, o), t # 0, NEW g, g = Destroy(h, t)
  PROVE  Balanced(g, q, 0, s, k) /\ Refers(g, q, k, o) /\ g[s].bytes = h[s].bytes
<1>1. /\ HeapOK(h) /\ q \in Seq(Address) /\ t \in Nat /\ s \in Address /\ k \in Seq(Task)
      /\ \A x \in Address : Refs(h, x) = Holders(q, t, s, k, x)
  BY DEF Balanced
<1>2. t \in DOMAIN h
  BY HeldIsInUse
<1>3. Shrunk(h, g, t)
  BY <1>1, <1>2, DestroyShrinks
<1>4. ASSUME NEW x \in Address PROVE Refs(g, x) = Holders(q, 0, s, k, x)
  <2>1. Refs(g, x) + One(x = t) = Refs(h, x) /\ HeapOK(g)
    BY <1>3 DEF Shrunk
  <2>2. Refs(h, x) = Holders(q, t, s, k, x)
    BY <1>1
  <2>3. x # 0
    BY DEF Address
  <2>4. Count(q, {x}) \in Nat /\ Count(k, Of(x)) \in Nat /\ Refs(g, x) \in Nat
    BY <1>1, <2>1, CountType, InUse
  <2> QED  BY <2>1, <2>2, <2>3, <2>4 DEF Holders, One
<1>5. Balanced(g, q, 0, s, k)
  BY <1>1, <1>3, <1>4 DEF Balanced, Shrunk
<1>6. Refers(g, q, k, o)
  BY <1>3, <1>5, StillRefers DEF Shrunk
<1>7. g[s].bytes = h[s].bytes
  BY <1>3, <1>5, HeldIsInUse DEF Shrunk
<1> QED  BY <1>5, <1>6, <1>7

\* The first message leaves the queue, and its handle with it.
LEMMA QueueShrinks ==
  ASSUME NEW h, NEW q, NEW t, NEW s, NEW k, NEW o \in Seq(OutEntry), Balanced(h, q, t, s, k),
         Refers(h, q, k, o), q # <<>>, NEW g, g = Destroy(h, q[1])
  PROVE  /\ Balanced(g, Tail(q), t, s, k) /\ Refers(g, Tail(q), k, Tail(o))
         /\ g[s].bytes = h[s].bytes
<1>1. /\ HeapOK(h) /\ q \in Seq(Address) /\ t \in Nat /\ s \in Address /\ k \in Seq(Task)
      /\ \A x \in Address : Refs(h, x) = Holders(q, t, s, k, x)
  BY DEF Balanced
<1>2. PICK a : a = q[1]
  OBVIOUS
<1>3. PICK r : r = Tail(q)
  OBVIOUS
<1>4. PICK p : p = Tail(o)
  OBVIOUS
<1>5. /\ r \in Seq(Address) /\ Len(r) = Len(q) - 1 /\ Len(q) \in Nat \ {0}
      /\ \A i \in 1 .. Len(q) - 1 : r[i] = q[i + 1]
  BY <1>1, <1>3, TailAt
<1>6. Len(q) = Len(o) /\ \A i \in 1 .. Len(q) : h[q[i]].bytes = o[i].bytes
  BY DEF Refers
<1>7. Len(p) = Len(o) - 1 /\ \A i \in 1 .. Len(o) - 1 : p[i] = o[i + 1]
  <2>1. o # <<>>
    BY <1>5, <1>6, EmptySeq
  <2> QED  BY <2>1, <1>4, TailAt
<1>8. a \in DOMAIN h
  <2>1. 1 \in 1 .. Len(q)
    BY <1>5
  <2> QED  BY <2>1, <1>2, HeldIsInUse
<1>9. Shrunk(h, g, a)
  BY <1>1, <1>2, <1>8, DestroyShrinks
<1>10. ASSUME NEW x \in Address PROVE Refs(g, x) = Holders(r, t, s, k, x)
  <2>1. Refs(g, x) + One(x = a) = Refs(h, x) /\ HeapOK(g)
    BY <1>9 DEF Shrunk
  <2>2. Count(q, {x}) = Count(r, {x}) + One(q[1] \in {x})
    BY <1>1, <1>3, CountTail
  <2>3. Count(r, {x}) \in Nat /\ Count(k, Of(x)) \in Nat /\ Refs(g, x) \in Nat
    BY <1>1, <1>5, <2>1, CountType, InUse
  <2>4. Refs(h, x) = Holders(q, t, s, k, x)
    BY <1>1
  <2> QED  BY <1>2, <2>1, <2>2, <2>3, <2>4 DEF Holders, One
<1>11. Balanced(g, r, t, s, k)
  BY <1>1, <1>5, <1>9, <1>10 DEF Balanced, Shrunk
<1>12. Refers(h, r, k, p)
  <2>1. ASSUME NEW i \in 1 .. Len(r) PROVE h[r[i]].bytes = p[i].bytes
    <3>1. i \in 1 .. Len(q) - 1 /\ i + 1 \in 1 .. Len(q)
      BY <1>5
    <3> QED  BY <3>1, <1>5, <1>6, <1>7
  <2> QED  BY <2>1, <1>5, <1>6, <1>7 DEF Refers
<1>13. Refers(g, r, k, p)
  BY <1>9, <1>11, <1>12, StillRefers DEF Shrunk
<1>14. g[s].bytes = h[s].bytes
  BY <1>9, <1>11, HeldIsInUse DEF Shrunk
<1> QED  BY <1>3, <1>4, <1>11, <1>13, <1>14

\* What a listener keeps does not touch the queue's messages; kept in the slot.
LEMMA SlotMoves ==
  ASSUME NEW h, NEW q, NEW t, NEW s, NEW k, NEW o, Balanced(h, q, t, s, k),
         Refers(h, q, k, o), NEW b \in Address, b \notin DOMAIN h, NEW g, Moved(h, g, b, s)
  PROVE  Balanced(g, q, t, b, k) /\ Refers(g, q, k, o)
<1>1. /\ HeapOK(h) /\ q \in Seq(Address) /\ t \in Nat /\ s \in Address /\ k \in Seq(Task)
      /\ \A x \in Address : Refs(h, x) = Holders(q, t, s, k, x)
  BY DEF Balanced
<1>2. HeapOK(g)
  BY DEF Moved
<1>3. ASSUME NEW x \in Address PROVE Refs(g, x) = Holders(q, t, b, k, x)
  <2>1. Refs(g, x) + One(x = s) = Refs(h, x) + One(x = b)
    BY DEF Moved
  <2>2. Refs(h, x) = Holders(q, t, s, k, x)
    BY <1>1
  <2>3. Count(q, {x}) \in Nat /\ Count(k, Of(x)) \in Nat /\ Refs(g, x) \in Nat
    BY <1>1, <1>2, CountType, InUse
  <2> QED  BY <2>1, <2>2, <2>3 DEF Holders, One
<1>4. Balanced(g, q, t, b, k)
  BY <1>1, <1>2, <1>3 DEF Balanced
<1>5. /\ \A i \in 1 .. Len(q) : q[i] \in DOMAIN h
      /\ \A i \in 1 .. Len(k) : k[i].buf \in DOMAIN h
  BY HeldIsInUse
<1>6. /\ \A i \in 1 .. Len(q) : q[i] \in DOMAIN g
      /\ \A i \in 1 .. Len(k) : k[i].buf \in DOMAIN g
  BY <1>4, HeldIsInUse
<1>7. \A x \in DOMAIN h : x \in DOMAIN g => g[x].bytes = h[x].bytes
  BY DEF Moved
<1>8. Refers(g, q, k, o)
  BY <1>5, <1>6, <1>7 DEF Refers
<1> QED  BY <1>4, <1>8

\* Kept by a fiber.
LEMMA TaskStarts ==
  ASSUME NEW h, NEW q, NEW t, NEW s, NEW k, NEW o, Balanced(h, q, t, s, k),
         Refers(h, q, k, o), NEW b \in Address, NEW g, Grown(h, g, b),
         NEW e \in Task, e.buf = b, g[b].bytes = e.payload
  PROVE  /\ Balanced(g, q, t, s, Append(k, e)) /\ Refers(g, q, Append(k, e), o)
         /\ g[s].bytes = h[s].bytes
<1>1. /\ HeapOK(h) /\ q \in Seq(Address) /\ t \in Nat /\ s \in Address /\ k \in Seq(Task)
      /\ \A x \in Address : Refs(h, x) = Holders(q, t, s, k, x)
  BY DEF Balanced
<1>2. PICK r : r = Append(k, e)
  OBVIOUS
<1>3. /\ r \in Seq(Task) /\ Len(r) = Len(k) + 1 /\ Len(k) \in Nat
      /\ \A i \in 1 .. Len(k) : r[i] = k[i]
      /\ r[Len(k) + 1] = e
  BY <1>1, <1>2, AppendAt
<1>4. ASSUME NEW x \in Address PROVE Refs(g, x) = Holders(q, t, s, r, x)
  <2>1. Refs(g, x) = Refs(h, x) + One(x = b)
    BY DEF Grown
  <2>2. Count(r, Of(x)) = Count(k, Of(x)) + One(e \in Of(x))
    BY <1>1, <1>2, CountAppend
  <2>3. e \in Of(x) <=> x = b
    BY DEF Of
  <2>4. Count(q, {x}) \in Nat /\ Count(k, Of(x)) \in Nat
    BY <1>1, CountType
  <2>5. Refs(h, x) = Holders(q, t, s, k, x)
    BY <1>1
  <2> QED  BY <2>1, <2>2, <2>3, <2>4, <2>5 DEF Holders, One
<1>5. Balanced(g, q, t, s, r)
  BY <1>1, <1>3, <1>4 DEF Balanced, Grown
<1>6. /\ \A i \in 1 .. Len(q) : q[i] \in DOMAIN h
      /\ \A i \in 1 .. Len(k) : k[i].buf \in DOMAIN h
  BY HeldIsInUse
<1>7. \A x \in DOMAIN h : g[x].bytes = h[x].bytes
  BY DEF Grown
<1>8. /\ Len(q) = Len(o) /\ \A i \in 1 .. Len(q) : h[q[i]].bytes = o[i].bytes
      /\ \A i \in 1 .. Len(k) : h[k[i].buf].bytes = k[i].payload
  BY DEF Refers
<1>9. ASSUME NEW i \in 1 .. Len(r) PROVE g[r[i].buf].bytes = r[i].payload
  <2>1. CASE i = Len(k) + 1
    BY <2>1, <1>3
  <2>2. CASE i # Len(k) + 1
    <3>1. i \in 1 .. Len(k)
      BY <2>2, <1>3
    <3> QED  BY <3>1, <1>3, <1>6, <1>7, <1>8
  <2> QED  BY <2>1, <2>2
<1>10. \A i \in 1 .. Len(q) : g[q[i]].bytes = o[i].bytes
  BY <1>6, <1>7, <1>8
<1>11. Refers(g, q, r, o)
  BY <1>8, <1>9, <1>10 DEF Refers
<1>12. g[s].bytes = h[s].bytes
  BY <1>7, HeldIsInUse
<1> QED  BY <1>2, <1>5, <1>11, <1>12

\* A fiber that ends: the copy it made of the handle goes, and the handle.
LEMMA TaskStops ==
  ASSUME NEW h, NEW q, NEW t, NEW s, NEW k, NEW o, Balanced(h, q, t, s, k),
         Refers(h, q, k, o), NEW i \in 1 .. Len(k), NEW g,
         g = Destroy(Destroy(Copy(h, k[i].buf), k[i].buf), k[i].buf)
  PROVE  /\ Balanced(g, q, t, s, RemoveAt(k, i)) /\ Refers(g, q, RemoveAt(k, i), o)
         /\ g[s].bytes = h[s].bytes
<1>1. /\ HeapOK(h) /\ q \in Seq(Address) /\ t \in Nat /\ s \in Address /\ k \in Seq(Task)
      /\ \A x \in Address : Refs(h, x) = Holders(q, t, s, k, x)
  BY DEF Balanced
<1>2. PICK a : a = k[i].buf
  OBVIOUS
<1>3. a \in DOMAIN h /\ k[i] \in Task
  BY <1>2, HeldIsInUse
<1>4. PICK h1 : h1 = Copy(h, a)
  OBVIOUS
<1>5. Grown(h, h1, a) /\ HeapOK(h1) /\ a \in DOMAIN h1
  <2>1. Grown(h, h1, a)
    BY <1>1, <1>3, <1>4, CopyGrows
  <2> QED  BY <2>1, <1>1, GrownUse
<1>6. PICK h2 : h2 = Destroy(h1, a)
  OBVIOUS
<1>7. Shrunk(h1, h2, a) /\ HeapOK(h2)
  <2>1. Shrunk(h1, h2, a)
    BY <1>5, <1>6, DestroyShrinks
  <2> QED  BY <2>1 DEF Shrunk
<1>8. ASSUME NEW x PROVE Refs(h2, x) = Refs(h, x)
  <2>1. Refs(h1, x) = Refs(h, x) + One(x = a)
    BY <1>5 DEF Grown
  <2>2. Refs(h2, x) + One(x = a) = Refs(h1, x)
    BY <1>7 DEF Shrunk
  <2>3. Refs(h, x) \in Nat /\ Refs(h2, x) \in Nat
    BY <1>1, <1>7, InUse
  <2> QED  BY <2>1, <2>2, <2>3 DEF One
<1>9. a \in DOMAIN h2
  BY <1>1, <1>3, <1>7, <1>8, InUse
<1>10. g = Destroy(h2, a)
  BY <1>2, <1>4, <1>6
<1>11. Shrunk(h2, g, a)
  BY <1>7, <1>9, <1>10, DestroyShrinks
<1>12. HeapOK(g) /\ \A x : Refs(g, x) + One(x = a) = Refs(h, x)
  BY <1>8, <1>11 DEF Shrunk
<1>13. \A x \in DOMAIN g : g[x].bytes = h[x].bytes
  <2>1. ASSUME NEW x \in DOMAIN g PROVE g[x].bytes = h[x].bytes
    <3>1. x \in DOMAIN h2 /\ g[x].bytes = h2[x].bytes
      BY <1>11 DEF Shrunk
    <3>2. h2[x].bytes = h1[x].bytes
      BY <3>1, <1>7 DEF Shrunk
    <3>3. x \in DOMAIN h
      BY <3>1, <1>1, <1>7, <1>8, InUse
    <3> QED  BY <3>1, <3>2, <3>3, <1>5 DEF Grown
  <2> QED  BY <2>1
<1>14. PICK r : r = RemoveAt(k, i)
  OBVIOUS
<1>15. /\ r \in Seq(Task) /\ Len(r) = Len(k) - 1
       /\ \A n \in 1 .. Len(k) - 1 : r[n] = k[Shift(n, i)]
  BY <1>1, <1>14, RemoveAtAt
<1>16. ASSUME NEW x \in Address PROVE Refs(g, x) = Holders(q, t, s, r, x)
  <2>1. Refs(g, x) + One(x = a) = Refs(h, x)
    BY <1>12
  <2>2. Count(k, Of(x)) = Count(r, Of(x)) + One(k[i] \in Of(x))
    BY <1>1, <1>14, CountRemoveAt
  <2>3. k[i] \in Of(x) <=> x = a
    BY <1>2, <1>3 DEF Of
  <2>4. Count(q, {x}) \in Nat /\ Count(r, Of(x)) \in Nat /\ Refs(g, x) \in Nat
    BY <1>1, <1>12, <1>15, CountType, InUse
  <2>5. Refs(h, x) = Holders(q, t, s, k, x)
    BY <1>1
  <2> QED  BY <2>1, <2>2, <2>3, <2>4, <2>5, SMTT(30) DEF Holders, One
<1>17. Balanced(g, q, t, s, r)
  BY <1>1, <1>12, <1>15, <1>16 DEF Balanced
<1>18. Refers(h, q, r, o)
  <2>1. Len(k) \in Nat
    BY <1>1, LenProperties
  <2>2. \A n \in 1 .. Len(r) : Shift(n, i) \in 1 .. Len(k) /\ r[n] = k[Shift(n, i)]
    BY <2>1, <1>15 DEF Shift
  <2> QED  BY <2>2 DEF Refers
<1>19. Refers(g, q, r, o)
  BY <1>13, <1>17, <1>18, StillRefers
<1>20. g[s].bytes = h[s].bytes
  BY <1>13, <1>17, HeldIsInUse
<1> QED  BY <1>14, <1>17, <1>19, <1>20

-----------------------------------------------------------------------------
(* The actions.                                                            *)

\* Every step is one of SerialCom, or leaves its variables as they are.
LEMMA StepOfSerialCom ==
  ASSUME [BNext]_allVars
  PROVE  [Next]_vars
<1>1. CASE UNCHANGED allVars
  BY <1>1 DEF allVars
<1>2. ASSUME NEW m \in OutMessage, BSend(m) PROVE Next
  BY <1>2 DEF BSend, Next
<1>3. CASE BSendStep
  BY <1>3 DEF BSendStep, BSendToSerial, BSendToSerialInUse, BSendReturns, Next, SendStep
<1>4. ASSUME NEW m \in InMessage, HostWrites(m) PROVE Next
  BY <1>4 DEF Next
<1>5. CASE BByteArrives \/ BRecvStep \/ BRecvPayloadNoData
  BY <1>5 DEF BByteArrives, BRecvStep, BRecvPayloadNoData, Next
<1>6. ASSUME NEW i \in DOMAIN tasks, TaskEnds(i) PROVE UNCHANGED vars
  BY <1>6 DEF TaskEnds
<1> QED  BY <1>1, <1>2, <1>3, <1>4, <1>5, <1>6 DEF BNext

\* What BInv says of the buffers.
BufInv ==
  /\ Balanced(heap, queue, toSend, slot, tasks)
  /\ Refers(heap, queue, tasks, out)
  /\ Sleeper(queue, toSend, taken)
  /\ SlotHolds(heap, slot, got)

LEMMA BufKept ==
  ASSUME BufInv, UNCHANGED <<bufVars, out, taken, got>>
  PROVE  BufInv'
  BY DEF BufInv, bufVars

LEMMA SendBufInv ==
  ASSUME IInv, BufInv, NEW m \in OutMessage, BSend(m)
  PROVE  BufInv'
<1>1. PICK a : a = NewBlock(heap)
  OBVIOUS
<1>2. HeapOK(heap) /\ queue \in Seq(Address) /\ out \in Seq(OutEntry) /\ Len(stream) \in Nat
  <2>1. stream \in Seq(Nat) /\ out \in Seq(OutEntry)
    BY DEF IInv, TypeOK
  <2> QED  BY <2>1, LenProperties DEF BufInv, Balanced
<1>3. a \in Address /\ a \notin DOMAIN heap
  BY <1>1, <1>2, NewBlockIsFree
<1>4. PICK f : f = Frame(m)
  OBVIOUS
<1>5. f \in Seq(Nat) /\ f \in Seq(Byte)
  <2>1. f \in Seq(Nat)
    BY <1>4, MessageAssumption, FrameType
  <2> QED  BY <2>1, SeqMonotonic DEF Byte
<1>6. heap' = Destroy(Destroy(Copy(Copy(Construct(heap, a, f), a), a), a), a)
  BY <1>1, <1>4 DEF BSend, Called
<1>7. Grown(heap, heap', a) /\ heap'[a].bytes = f
  BY <1>2, <1>3, <1>5, <1>6, SendBuffers
<1>8. PICK e : e = [bytes |-> f, at |-> Len(stream)]
  OBVIOUS
<1>9. e \in OutEntry /\ e.bytes = f
  BY <1>2, <1>5, <1>8 DEF OutEntry
<1>10. /\ queue' = Append(queue, a) /\ out' = Append(out, e)
       /\ UNCHANGED <<toSend, slot, tasks, taken, got>>
  BY <1>1, <1>4, <1>8 DEF BSend, Send, inVars
<1>11. /\ Balanced(heap', Append(queue, a), toSend, slot, tasks)
       /\ Refers(heap', Append(queue, a), tasks, Append(out, e))
  BY <1>2, <1>3, <1>7, <1>9, QueueGrows DEF BufInv
<1>12. Sleeper(queue', toSend, taken)
  <2>1. CASE toSend = 0
    BY <2>1 DEF BufInv, Sleeper
  <2>2. CASE toSend # 0
    <3>1. queue # <<>> /\ toSend = queue[1] /\ taken > 0
      BY <2>2 DEF BufInv, Sleeper
    <3>2. queue' \in Seq(Address) /\ Len(queue') = Len(queue) + 1 /\ queue'[1] = queue[1]
          /\ Len(queue) \in Nat
      <4>1. 1 \in 1 .. Len(queue)
        <5>1. Len(queue) \in Nat \ {0}
          BY <3>1, <1>2, TailAt
        <5> QED  BY <5>1
      <4> QED  BY <4>1, <1>2, <1>3, <1>10, AppendAt
    <3>3. queue' # <<>>
      BY <3>2, EmptySeq
    <3> QED  BY <3>1, <3>2, <3>3, <2>2 DEF Sleeper
  <2> QED  BY <2>1, <2>2
<1>13. SlotHolds(heap', slot, got)
  <2>1. slot \in DOMAIN heap
    BY HeldIsInUse DEF BufInv
  <2>2. heap'[slot].bytes = heap[slot].bytes
    BY <2>1, <1>7 DEF Grown
  <2> QED  BY <2>2 DEF BufInv, SlotHolds
<1> QED  BY <1>10, <1>11, <1>12, <1>13 DEF BufInv

LEMMA SendToSerialBufInv ==
  ASSUME IInv, IInv', BufInv, BSendToSerial
  PROVE  BufInv'
<1>1. /\ taken = 0 /\ out # <<>> /\ UNCHANGED <<out, queue, slot, tasks, got>>
      /\ toSend' = Head(queue) /\ heap' = Copy(heap, Head(queue))
  BY DEF BSendToSerial, SendToSerial, inVars
<1>2. taken' > 0
  BY DEF BSendToSerial, SendToSerial, IInv, TypeOK
<1>3. queue \in Seq(Address) /\ Len(queue) = Len(out) /\ out \in Seq(OutEntry)
  BY DEF IInv, TypeOK, BufInv, Balanced, Refers
<1>4. queue # <<>> /\ Head(queue) = queue[1]
  <2>1. Len(out) # 0
    BY <1>1, <1>3, EmptySeq
  <2>2. queue # <<>>
    BY <2>1, <1>3, EmptySeq
  <2> QED  BY <2>2, <1>3, TailAt
<1>5. toSend = 0
  BY <1>1 DEF BufInv, Sleeper
<1>6. /\ Balanced(heap, queue, 0, slot, tasks) /\ Refers(heap, queue, tasks, out)
  BY <1>5 DEF BufInv
<1>7. /\ Balanced(heap', queue, queue[1], slot, tasks)
      /\ Refers(heap', queue, tasks, out) /\ queue[1] # 0
      /\ heap'[slot].bytes = heap[slot].bytes
  BY <1>1, <1>4, <1>6, SleeperGrows
<1>8. Sleeper(queue, queue[1], taken')
  BY <1>2, <1>4, <1>7 DEF Sleeper
<1>9. SlotHolds(heap', slot, got)
  BY <1>7 DEF BufInv, SlotHolds
<1> QED  BY <1>1, <1>4, <1>7, <1>8, <1>9 DEF BufInv

LEMMA SendReturnsBufInv ==
  ASSUME IInv, BufInv, BSendReturns
  PROVE  BufInv'
<1>1. taken > 0 /\ taken' = 0 /\ toSend' = 0 /\ UNCHANGED <<slot, tasks, got>>
  BY DEF BSendReturns, SendReturns, inVars
<1>2. toSend # 0 /\ queue # <<>> /\ toSend = queue[1]
  BY <1>1 DEF BufInv, Sleeper
<1>3. /\ out \in Seq(OutEntry) /\ Head(queue) = queue[1]
      /\ Balanced(heap, queue, toSend, slot, tasks) /\ Refers(heap, queue, tasks, out)
  <2>1. queue \in Seq(Address)
    BY DEF BufInv, Balanced
  <2> QED  BY <2>1, <1>2, TailAt DEF BufInv, IInv, TypeOK
<1>4. Sleeper(queue', toSend', taken')
  BY <1>1 DEF Sleeper
<1>5. CASE Complete
  <2>1. /\ heap' = Destroy(Destroy(heap, Head(queue)), toSend) /\ queue' = Tail(queue)
        /\ out' = Tail(out)
    BY <1>5 DEF BSendReturns, SendReturns
  <2>2. PICK h : h = Destroy(heap, queue[1])
    OBVIOUS
  <2>3. /\ Balanced(h, Tail(queue), toSend, slot, tasks)
        /\ Refers(h, Tail(queue), tasks, Tail(out))
        /\ h[slot].bytes = heap[slot].bytes
    BY <1>2, <1>3, <2>2, QueueShrinks
  <2>4. heap' = Destroy(h, toSend)
    BY <1>3, <2>1, <2>2
  <2>5. /\ Balanced(heap', Tail(queue), 0, slot, tasks)
        /\ Refers(heap', Tail(queue), tasks, Tail(out))
        /\ heap'[slot].bytes = h[slot].bytes
    BY <1>2, <2>3, <2>4, SleeperShrinks
  <2>6. SlotHolds(heap', slot, got)
    BY <2>3, <2>5 DEF BufInv, SlotHolds
  <2> QED  BY <1>1, <1>4, <2>1, <2>5, <2>6 DEF BufInv
<1>6. CASE ~Complete
  <2>1. heap' = Destroy(heap, toSend) /\ queue' = queue /\ out' = out
    BY <1>6 DEF BSendReturns, SendReturns
  <2>2. /\ Balanced(heap', queue, 0, slot, tasks) /\ Refers(heap', queue, tasks, out)
        /\ heap'[slot].bytes = heap[slot].bytes
    <3>1. PICK h : h = heap
      OBVIOUS
    <3>2. PICK o : o = out
      OBVIOUS
    <3>3. Balanced(h, queue, toSend, slot, tasks) /\ Refers(h, queue, tasks, o) /\ toSend # 0
      BY <1>2, <1>3, <3>1, <3>2
    <3>4. heap' = Destroy(h, toSend)
      BY <2>1, <3>1
    <3>5. /\ Balanced(heap', queue, 0, slot, tasks) /\ Refers(heap', queue, tasks, o)
          /\ heap'[slot].bytes = h[slot].bytes
      BY <3>3, <3>4, SleeperShrinks
    <3> QED  BY <3>1, <3>2, <3>5
  <2>3. SlotHolds(heap', slot, got)
    BY <2>2 DEF BufInv, SlotHolds
  <2> QED  BY <1>1, <1>4, <2>1, <2>2, <2>3 DEF BufInv
<1> QED  BY <1>5, <1>6

LEMMA DeliveredBufInv ==
  ASSUME IInv, IInv', BufInv, BDelivered, UNCHANGED <<out, taken>>,
         \/ got' = got
         \/ \E p : got' = Append(got, [id |-> id, value |-> value, payload |-> p])
  PROVE  BufInv'
<1>1. UNCHANGED <<queue, toSend>>
  BY DEF BDelivered
<1>2. /\ HeapOK(heap) /\ Balanced(heap, queue, toSend, slot, tasks)
      /\ Refers(heap, queue, tasks, out) /\ SlotHolds(heap, slot, got)
  BY DEF BufInv, Balanced
<1>3. Sleeper(queue', toSend', taken')
  BY <1>1 DEF BufInv, Sleeper
<1>4. CASE got' = got
  BY <1>1, <1>4, BufKept DEF BDelivered, bufVars
<1>5. ASSUME NEW p, got' = Append(got, [id |-> id, value |-> value, payload |-> p])
      PROVE  BufInv'
  <2>1. PICK b : b = NewBlock(heap)
    OBVIOUS
  <2>2. b \in Address /\ b \notin DOMAIN heap
    BY <1>2, <2>1, NewBlockIsFree
  <2>3. PICK S : S = [id : Nat, value : Nat, payload : Seq(Nat \cup {Garbage})]
    OBVIOUS
  <2>4. PICK m : m = [id |-> id, value |-> value, payload |-> p]
    OBVIOUS
  <2>5. got \in Seq(S) /\ got' \in Seq(S) /\ got' = Append(got, m)
    BY <1>5, <2>3, <2>4 DEF IInv, TypeOK
  <2>6. Len(got) \in Nat /\ Len(got') = Len(got) + 1 /\ got'[Len(got')] = m
    BY <2>5, AppendProperties, LenProperties
  <2>7. m \in S /\ p \in Seq(Byte)
    <3>1. Len(got') \in 1 .. Len(got')
      BY <2>6
    <3>2. m \in S
      BY <2>5, <2>6, <3>1, ElementOfSeq
    <3> QED  BY <3>2, <2>3, <2>4 DEF Byte
  <2>8. Last(got').payload = p
    BY <2>4, <2>6 DEF Last
  <2>9. ForSlot(m) <=> <<id, value>> \in InSlot
    BY <2>4 DEF ForSlot
  <2>10. IF <<id, value>> \in InSlot THEN Slotted(b, p) ELSE Tasked(b, p) \/ Refused(b, p)
    <3>1. Len(got') # Len(got)
      BY <2>6
    <3> QED  BY <3>1, <2>1, <2>8 DEF BDelivered
  <2>11. CASE <<id, value>> \in InSlot
    <3>1. slot \in DOMAIN heap
      BY <1>2, HeldIsInUse
    <3>2. slot # b
      BY <3>1, <2>2
    <3>3. heap' = Destroy(Destroy(Copy(Destroy(Copy(Construct(heap, b, p), b), slot), b), b), b)
      BY <2>10, <2>11, <3>2 DEF Slotted, Called, Assign
    <3>4. slot' = b /\ tasks' = tasks
      BY <2>10, <2>11 DEF Slotted
    <3>5. Moved(heap, heap', b, slot) /\ heap'[b].bytes = p
      BY <1>2, <2>2, <2>7, <3>1, <3>3, SlotBuffers
    <3>6. Balanced(heap', queue, toSend, b, tasks) /\ Refers(heap', queue, tasks, out)
      BY <1>2, <2>2, <3>5, SlotMoves
    <3>7. SlotHolds(heap', b, got')
      <4>1. heap'[b].bytes = m.payload
        BY <3>5, <2>4
      <4>2. SlotHolds(heap', b, Append(got, m))
        BY <4>1, <2>5, <2>7, <2>9, <2>11, SlotTakes
      <4> QED  BY <4>2, <2>5
    <3> QED  BY <1>1, <1>3, <3>4, <3>6, <3>7 DEF BufInv
  <2>12. ASSUME <<id, value>> \notin InSlot, heap'[slot].bytes = heap[slot].bytes
         PROVE  SlotHolds(heap', slot, got')
    <3>1. SlotHolds(heap', slot, got)
      BY <1>2, <2>12 DEF SlotHolds
    <3>2. SlotHolds(heap', slot, Append(got, m))
      BY <3>1, <2>5, <2>7, <2>9, <2>12, SlotSkips
    <3> QED  BY <3>2, <2>5
  <2>13. CASE <<id, value>> \notin InSlot /\ Tasked(b, p)
    <3>1. PICK h : h = Copy(Construct(heap, b, p), b)
      OBVIOUS
    <3>2. PICK c : c = NewBlock(h)
      OBVIOUS
    <3>3. PICK g : g = Destroy(Destroy(Copy(Destroy(Construct(h, c, <<>>), c), b), b), b)
      OBVIOUS
    <3>4. c # b /\ Grown(heap, g, b) /\ g[b].bytes = p
      BY <1>2, <2>2, <2>7, <3>1, <3>2, <3>3, TaskBuffers
    <3>5. heap' = g
      BY <2>13, <3>1, <3>2, <3>3, <3>4 DEF Tasked, Called, Assign
    <3>6. PICK e : e = [buf |-> b, payload |-> p]
      OBVIOUS
    <3>7. tasks' = Append(tasks, e) /\ slot' = slot
      BY <2>13, <3>6 DEF Tasked
    <3>8. e \in Task /\ e.buf = b /\ e.payload = p
      BY <2>2, <2>7, <3>6 DEF Task
    <3>9. /\ Balanced(g, queue, toSend, slot, Append(tasks, e))
          /\ Refers(g, queue, Append(tasks, e), out)
          /\ g[slot].bytes = heap[slot].bytes
      BY <1>2, <2>2, <3>4, <3>8, TaskStarts
    <3>10. SlotHolds(heap', slot, got')
      BY <3>5, <3>9, <2>12, <2>13
    <3> QED  BY <1>1, <1>3, <3>5, <3>7, <3>9, <3>10 DEF BufInv
  <2>14. CASE <<id, value>> \notin InSlot /\ Refused(b, p)
    <3>1. /\ heap' = Destroy(Destroy(Copy(Construct(heap, b, p), b), b), b)
          /\ UNCHANGED <<slot, tasks>>
      BY <2>14 DEF Refused, Called
    <3>2. /\ HeapOK(heap') /\ \A x : Refs(heap', x) = Refs(heap, x)
          /\ \A x \in DOMAIN heap : x \in DOMAIN heap' /\ heap'[x].bytes = heap[x].bytes
      BY <1>2, <2>2, <2>7, <3>1, PassedBuffers
    <3>3. Balanced(heap', queue, toSend, slot, tasks)
      BY <1>2, <3>2 DEF Balanced
    <3>4. /\ \A i \in 1 .. Len(queue) : queue[i] \in DOMAIN heap
          /\ \A i \in 1 .. Len(tasks) : tasks[i].buf \in DOMAIN heap
          /\ slot \in DOMAIN heap
      BY <1>2, HeldIsInUse
    <3>5. Refers(heap', queue, tasks, out)
      BY <1>2, <3>2, <3>4 DEF Refers
    <3>6. SlotHolds(heap', slot, got')
      BY <2>12, <2>14, <3>2, <3>4
    <3> QED  BY <1>1, <1>3, <3>1, <3>3, <3>5, <3>6 DEF BufInv
  <2> QED  BY <2>10, <2>11, <2>13, <2>14
<1> QED  BY <1>4, <1>5

LEMMA TaskEndsBufInv ==
  ASSUME BufInv, NEW i \in DOMAIN tasks, TaskEnds(i)
  PROVE  BufInv'
<1>1. /\ heap' = Destroy(Destroy(Copy(heap, tasks[i].buf), tasks[i].buf), tasks[i].buf)
      /\ tasks' = RemoveAt(tasks, i)
      /\ UNCHANGED <<out, taken, queue, toSend, slot, got>>
  BY DEF TaskEnds, vars, outVars, inVars
<1>2. i \in 1 .. Len(tasks)
  <2>1. tasks \in Seq(Task)
    BY DEF BufInv, Balanced
  <2> QED  BY <2>1, LenProperties
<1>3. /\ Balanced(heap', queue, toSend, slot, RemoveAt(tasks, i))
      /\ Refers(heap', queue, RemoveAt(tasks, i), out)
      /\ heap'[slot].bytes = heap[slot].bytes
  BY <1>1, <1>2, TaskStops DEF BufInv
<1>4. SlotHolds(heap', slot, got)
  BY <1>3 DEF BufInv, SlotHolds
<1> QED  BY <1>1, <1>3, <1>4 DEF BufInv

LEMMA NextBInv ==
  ASSUME BInv, [BNext]_allVars
  PROVE  BInv'
<1>1. IInv /\ BufInv
  BY DEF BInv, BufInv
<1>2. IInv'
  BY <1>1, StepOfSerialCom, NextIInv
<1>3. BufInv'
  <2>1. ASSUME NEW m \in OutMessage, BSend(m) PROVE BufInv'
    BY <1>1, <2>1, SendBufInv
  <2>2. CASE BSendToSerial
    BY <1>1, <1>2, <2>2, SendToSerialBufInv
  <2>3. CASE BSendReturns
    BY <1>1, <2>3, SendReturnsBufInv
  <2>4. CASE BSendToSerialInUse
    BY <1>1, <2>4, BufKept DEF BSendToSerialInUse, SendToSerialInUse, outVars, inVars
  <2>5. ASSUME NEW m \in InMessage, HostWrites(m), UNCHANGED bufVars PROVE BufInv'
    BY <1>1, <2>5, BufKept DEF HostWrites, outVars
  <2>6. CASE BByteArrives
    BY <1>1, <2>6, BufKept DEF BByteArrives, ByteArrives, outVars
  <2>7. CASE BRecvStep
    <3>1. UNCHANGED <<out, taken>> /\ BDelivered
      BY <2>7 DEF BRecvStep, RecvStep, RecvFirstByte, RecvSecondByte, RecvLength, RecvPayload,
                  RecvPayloadWakes, outVars
    <3>2. \/ got' = got
          \/ \E p : got' = Append(got, [id |-> id, value |-> value, payload |-> p])
      BY <2>7 DEF BRecvStep, RecvStep, RecvFirstByte, RecvSecondByte, RecvLength, RecvPayload,
                  RecvPayloadWakes, Deliver, CallListeners
    <3> QED  BY <1>1, <1>2, <3>1, <3>2, DeliveredBufInv
  <2>8. CASE BRecvPayloadNoData
    <3>1. UNCHANGED <<out, taken, got>> /\ BDelivered
      BY <2>8 DEF BRecvPayloadNoData, RecvPayloadNoData, outVars
    <3> QED  BY <1>1, <1>2, <3>1, DeliveredBufInv
  <2>9. ASSUME NEW i \in DOMAIN tasks, TaskEnds(i) PROVE BufInv'
    BY <1>1, <2>9, TaskEndsBufInv
  <2>10. CASE UNCHANGED allVars
    BY <1>1, <2>10, BufKept DEF allVars, vars, outVars, inVars
  <2> QED  BY <2>1, <2>2, <2>3, <2>4, <2>5, <2>6, <2>7, <2>8, <2>9, <2>10
           DEF BNext, BSendStep
<1> QED  BY <1>2, <1>3 DEF BInv, BufInv

\* The heap has one block, the empty one of serial_received.
LEMMA InitBInv == ASSUME BInit PROVE BInv
<1>1. IInv
  BY InitIInv DEF BInit
<1>2. /\ queue = <<>> /\ toSend = 0 /\ tasks = <<>> /\ slot = 1 /\ out = <<>> /\ taken = 0
      /\ heap = Construct(<<>>, 1, <<>>) /\ got = <<>>
  BY DEF BInit, Init
<1>3. PICK h : h = <<>>
  OBVIOUS
<1>4. DOMAIN h = {} /\ h \in [DOMAIN h -> Block]
  BY <1>3
<1>5. HeapOK(h) /\ \A x : Refs(h, x) = 0
  BY <1>4, FS_EmptySet DEF HeapOK, Refs
<1>6. 1 \in Address /\ <<>> \in Seq(Byte) /\ <<>> \in Seq(Address) /\ <<>> \in Seq(Task)
      /\ Len(<<>>) = 0
  BY DEF Address
<1>7. heap = Construct(h, 1, <<>>)
  BY <1>2, <1>3
<1>8. Grown(h, heap, 1) /\ heap[1].bytes = <<>>
  <2>1. 1 \notin DOMAIN h
    BY <1>4
  <2>2. PICK b : b = <<>>
    OBVIOUS
  <2>3. b \in Seq(Byte)
    BY <1>6, <2>2
  <2>4. Grown(h, Construct(h, 1, b), 1) /\ Construct(h, 1, b)[1].bytes = b
    BY <1>5, <1>6, <2>1, <2>3, ConstructGrows
  <2> QED  BY <1>7, <2>2, <2>4
<1>9. \A E : Count(<<>>, E) = 0
  <2>1. \A E : At(<<>>, E) = {}
    BY <1>6 DEF At
  <2> QED  BY <2>1, FS_EmptySet DEF Count
<1>10. ASSUME NEW x \in Address PROVE Refs(heap, x) = Holders(queue, toSend, slot, tasks, x)
  <2>1. Refs(heap, x) = 0 + One(x = 1)
    BY <1>5, <1>8 DEF Grown
  <2>2. x # 0
    BY DEF Address
  <2> QED  BY <2>1, <2>2, <1>2, <1>9 DEF Holders, One
<1>11. Balanced(heap, queue, toSend, slot, tasks)
  BY <1>2, <1>6, <1>8, <1>10 DEF Balanced, Grown
<1>12. Refers(heap, queue, tasks, out) /\ Sleeper(queue, toSend, taken)
  BY <1>2, <1>6 DEF Refers, Sleeper
<1>13. SlotHolds(heap, slot, got)
  BY <1>2, <1>6, <1>8 DEF SlotHolds
<1> QED  BY <1>1, <1>11, <1>12, <1>13 DEF BInv

-----------------------------------------------------------------------------
(* Theorems.                                                               *)

\* The invariant of every state that can be reached.
THEOREM BufInvariance == BSpec => []BInv
  BY InitBInv, NextBInv, PTL DEF BSpec

\* A block counts its handles: it is not freed while the queue, the handler in
\* serial.send, a fiber or serial_received has one, and is when none has
\* (ManagedBuffer, RefCounted).
THEOREM HandlesCounted == BSpec => []CountsHandles
<1>1. BInv => CountsHandles
  BY BalancedCounts DEF BInv
<1> QED  BY <1>1, BufInvariance, PTL

\* Whatever is freed and used again, a handle refers to the bytes it was taken
\* for: the queue's to the message, the sleeping handler's to the first one, a
\* fiber's to the payload the listener was called with; the slot's to the last
\* message for it.
THEOREM BytesKept == BSpec => []KeepsBytes
<1>1. ASSUME BInv PROVE KeepsBytes
  <2>1. /\ queue \in Seq(Address) /\ tasks \in Seq(Task) /\ out \in Seq(OutEntry)
        /\ Refers(heap, queue, tasks, out) /\ Sleeper(queue, toSend, taken)
    <3>1. IInv /\ Balanced(heap, queue, toSend, slot, tasks)
          /\ Refers(heap, queue, tasks, out) /\ Sleeper(queue, toSend, taken)
      BY <1>1 DEF BInv
    <3>2. out \in Seq(OutEntry)
      BY <3>1 DEF IInv, TypeOK
    <3>3. queue \in Seq(Address) /\ tasks \in Seq(Task)
      BY <3>1 DEF Balanced
    <3> QED  BY <3>1, <3>2, <3>3
  <2>2. DOMAIN queue = 1 .. Len(queue) /\ DOMAIN tasks = 1 .. Len(tasks)
    BY <2>1, LenProperties
  <2>3. taken > 0 => heap[toSend].bytes = Head(out).bytes
    <3>1. SUFFICES ASSUME taken > 0 PROVE heap[toSend].bytes = Head(out).bytes
      OBVIOUS
    <3>2. queue # <<>> /\ toSend = queue[1]
      BY <2>1, <3>1 DEF Sleeper
    <3>3. Len(queue) \in Nat \ {0} /\ Len(queue) = Len(out)
      BY <2>1, <3>2, TailAt DEF Refers
    <3>4. out # <<>>
      BY <3>3, EmptySeq
    <3>5. Head(out) = out[1]
      BY <2>1, <3>4, TailAt
    <3>6. 1 \in 1 .. Len(queue)
      BY <3>3
    <3> QED  BY <2>1, <3>2, <3>5, <3>6 DEF Refers
  <2>4. /\ (\A i \in DOMAIN got : ~ForSlot(got[i])) => heap[slot].bytes = <<>>
        /\ \A i \in DOMAIN got :
             ForSlot(got[i]) /\ (\A j \in i + 1 .. Len(got) : ~ForSlot(got[j]))
               => heap[slot].bytes = got[i].payload
    <3>1. DOMAIN got = 1 .. Len(got)
      BY <1>1, LenProperties DEF BInv, IInv, TypeOK
    <3> QED  BY <1>1, <3>1 DEF BInv, SlotHolds
  <2> QED  BY <2>1, <2>2, <2>3, <2>4 DEF KeepsBytes, Refers
<1> QED  BY <1>1, BufInvariance, PTL

\* The theorems of SerialCom hold of it with its buffers.
THEOREM BufferedSerialCom == BSpec => Spec
<1>1. BInit => Init
  BY DEF BInit
<1> QED  BY <1>1, StepOfSerialCom, PTL DEF BSpec, Spec
=============================================================================
